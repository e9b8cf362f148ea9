SPECIFICATION Spec
CONSTANTS
    Callers = {a, b}
    MaxUpdates = 1
    None = None
INVARIANTS
    NextCallFetchesAgain
