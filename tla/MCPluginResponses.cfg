SPECIFICATION Spec
CONSTANTS
    MaxBuffered = 3
    ChunkSize = 2
    MaxWrites = 4
    MaxBytes = 6
    Codes = {200, 204}
    None = None
    ToUpper <- MCToUpper
    Groups <- MCGroups
    Patterns <- MCPatterns
    Requests <- MCRequests
    MaxRoutes = 3
INVARIANTS
    MostSpecificRoute
    AnswerIsWhole
    StreamIsWhole
PROPERTIES
    SilentAfterError
CHECK_DEADLOCK FALSE
