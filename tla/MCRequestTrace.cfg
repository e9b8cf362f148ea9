SPECIFICATION FairSpec
CONSTANTS
    c1 = c1
    c2 = c2
    c3 = c3
    Calls = {c1, c2, c3}
    Shape <- MCShape
    MaxRequests = 2
    MaxBody = 1
    MaxSent = 2
    MaxReceived = 2
    None = None
INVARIANTS
    NothingHeldAfterFinish
    KeepsFirstAndLatest
    HonestSnapshot
PROPERTIES
    FinishEnds
CHECK_DEADLOCK FALSE
