SPECIFICATION Spec
CONSTANTS
    Requests = {r1, r2}
    Initial <- MCInitial
    InitialPolicy = "weighted_rr"
    Weights = {1}
    Outcomes <- MCOutcomes
    MaxID = 3
    MaxOps = 2
INVARIANTS
    TriedOnce
    SingleResponse
    UniqueIDs
    DeletedStaysDeleted
    WeightedShare
SYMMETRY Symmetry
CHECK_DEADLOCK FALSE
