--------------------------- MODULE MCPluginProcess ---------------------------
EXTENDS PluginProcess

CONSTANTS Any, Other

Interfaces == {Interface(m) : m \in PluginService \cup EventService \cup ExtensionService} \ {None}

MCPlugins ==
    {[type |-> "gateway", impl |-> {}, coreInvoke |-> FALSE, version |-> 2],
     [type |-> "gateway", impl |-> {"TaskProcessor"}, coreInvoke |-> FALSE, version |-> 1],
     [type |-> "extension", impl |-> Interfaces, coreInvoke |-> FALSE, version |-> 1],
     [type |-> "middleware", impl |-> {"HealthChecker"}, coreInvoke |-> TRUE,
      version |-> 1]}

\* One goroutine makes every call, the other those that share state: a second Init
\* while the first still runs, forwards that call the Host, background tasks.
MCMethodsOf ==
    [s \in {Any, Other} |->
        IF s = Any
        THEN PluginService \cup EventService \cup GatewayService \cup MiddlewareService
             \cup ExtensionService
        ELSE {"Init", "OnForwardBegin", "GetBackgroundTasks", "RunBackgroundTask"}]

MCTaskLists == {{"steady"}, {"steady", "new"}}
=============================================================================
