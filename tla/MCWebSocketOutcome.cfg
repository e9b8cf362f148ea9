SPECIFICATION Spec
CONSTANTS
    MaxIn = 1
    MaxOut = 1
    Window = 1
    CloseCodes = {0}
    Verdicts <- MCVerdicts
INVARIANTS
    OutcomeReturned
