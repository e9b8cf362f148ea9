SPECIFICATION FairSpec
CONSTANTS
    MaxIn = 2
    MaxOut = 2
    Window = 1
    CloseCodes = {0, 1011}
    Verdicts <- MCVerdicts
INVARIANTS
    ClosedOnce
    CloseCodeKept
    ReaderJoined
    ResultAfterDelivery
PROPERTIES
    CleanupCompletes
