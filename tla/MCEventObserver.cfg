SPECIFICATION ObserverSpec
CONSTANTS
    MaxEventBytes = 4
    MaxRead = 2
    MaxInput = 7
INVARIANTS
    EventIsLast
    Bounded
CHECK_DEADLOCK FALSE
