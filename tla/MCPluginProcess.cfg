SPECIFICATION Spec
CONSTANTS
    None = None
    Any = Any
    Other = Other
    Slots = {Any, Other}
    MethodsOf <- MCMethodsOf
    Plugins <- MCPlugins
    HostUsers = {"HandleRequest", "OnForwardBegin"}
    Tasks = {"steady", "new"}
    TaskLists <- MCTaskLists
    MaxInits = 2
    MaxCrashes = 1
INVARIANTS
    SuccessMeansDone
    HostAgrees
    DeclaredTaskRuns
PROPERTIES
    TimedCallsEnd
