SPECIFICATION Spec
CONSTANTS
    Clients = {c1, c2}
    MaxAttempts = 2
    MaxCalls = 2
INVARIANTS
    TypeOK
    AppliedOnce
    ContentionIsReal
    TakenOnce
PROPERTIES
    ImplementsAtomicState
CHECK_DEADLOCK FALSE
