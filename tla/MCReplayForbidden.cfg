SPECIFICATION Spec
CONSTANTS
    Requests = {r1}
    Initial <- MCInitial
    InitialPolicy = "weighted_rr"
    Weights = {1}
    Outcomes <- AbortedOutcomes
    MaxID = 3
    MaxOps = 1
INVARIANTS
    ReplayForbidden
CHECK_DEADLOCK FALSE
