----------------------------- MODULE PluginProcess -----------------------------
(***************************************************************************)
(* The unary calls of Core's client into a plugin process, and what the    *)
(* process keeps between them: the contexts that Init created, through     *)
(* which the plugin reaches the Host, and the table of background tasks.   *)
(*                                                                         *)
(* Core's side of a call and its handler are separate: a call that times   *)
(* out returns while its handler goes on. A plugin's method may never      *)
(* return, and the process may crash and be launched again.                *)
(***************************************************************************)
EXTENDS Integers, FiniteSets

CONSTANTS
    Slots,       \* goroutines of Core that call the plugin, one call at a time
    MethodsOf,   \* slot |-> the methods it calls
    HostUsers,   \* methods in which the plugin calls Host()
    Plugins,     \* the plugins to run: [type, impl, coreInvoke, version]
    Tasks,       \* names Core asks to run
    TaskLists,   \* the sets of names BackgroundTasks may return (those with a handler)
    MaxInits,    \* bound: contexts created by one process
    MaxCrashes,  \* bound
    None

ASSUME ProcessAssumption == None \notin {"ok", "refused", "error"}

RuntimeProtocolVersion == 1

\* Operations of the runtime protocol, all carried by PluginService.HandleRequest.
RuntimeOps == {"describe", "drain", "settings", "callback"}

PluginService == RuntimeOps \cup {"GetInfo", "Init", "UpdateConfig", "Start", "Stop",
    "HealthCheck", "GetWebAssets", "GetSchema", "HandleRequest"}
EventService == {"GetEventSubscriptions", "HandleEvent"}
GatewayService == {"GetPlatform", "GetModels", "GetRoutes", "ValidateAccount"}
MiddlewareService == {"OnForwardBegin", "OnForwardEnd"}
ExtensionService == {"Migrate", "GetBackgroundTasks", "RunBackgroundTask", "ProcessTask",
    "GetTaskTypes"}

\* The services that GRPCServer registers for a plugin. A gateway that processes
\* tasks gets the extension's service through gatewayTaskAdapter.
Registered(p) ==
    PluginService \cup EventService \cup
    (CASE p.type = "gateway" ->
            GatewayService \cup
            (IF "TaskProcessor" \in p.impl THEN ExtensionService ELSE {})
       [] p.type = "extension" -> ExtensionService
       [] p.type = "middleware" -> MiddlewareService)

\* The methods of the client that GRPCClient returns; Core reaches the tasks of a
\* gateway plugin through the extension's service on the same connection.
Offered(p) ==
    PluginService \cup EventService \cup
    (CASE p.type = "gateway" -> GatewayService \cup {"ProcessTask", "GetTaskTypes"}
       [] p.type = "extension" -> ExtensionService
       [] p.type = "middleware" -> MiddlewareService)

\* Mutant of HasTimeout: Stop waits as long as the plugin does.
HasTimeoutExceptStop(m) ==
    m \in {"GetInfo", "Init", "UpdateConfig", "GetWebAssets", "GetSchema",
           "GetEventSubscriptions", "GetPlatform", "GetModels", "GetRoutes",
           "GetBackgroundTasks", "Migrate"}

\* Methods whose client sets a deadline of its own; for the others the caller may.
HasTimeout(m) ==
    m \in {"GetInfo", "Init", "UpdateConfig", "Stop", "GetWebAssets", "GetSchema",
           "GetEventSubscriptions", "GetPlatform", "GetModels", "GetRoutes",
           "GetBackgroundTasks", "Migrate"}

\* The optional interface a handler asks for.
Interface(m) ==
    CASE m = "UpdateConfig" -> "ConfigWatcher"
      [] m = "HealthCheck" -> "HealthChecker"
      [] m = "GetWebAssets" -> "WebAssetsProvider"
      [] m = "GetSchema" -> "SchemaProvider"
      [] m = "HandleRequest" -> "RequestHandler"
      [] m = "describe" -> "RuntimeProvider"
      [] m = "drain" -> "RuntimeDrainer"
      [] m = "settings" -> "RuntimeSettingsHandler"
      [] m = "callback" -> "RuntimeCallbackHandler"
      [] m \in EventService -> "EventHandler"
      [] m \in {"ProcessTask", "GetTaskTypes"} -> "TaskProcessor"
      [] OTHER -> None

Implements(p, m) == Interface(m) = None \/ Interface(m) \in p.impl

\* What a handler answers without the interface: "ok", an RPC "error", or
\* "refused", an answer that says no (a status code, Success = false).
WithoutInterface(m) ==
    CASE m = "UpdateConfig" -> "error"
      [] m \in {"HandleRequest", "callback", "HandleEvent", "ProcessTask"} -> "refused"
      [] OTHER -> "ok"

\* What it answers when the plugin's method fails.
OnFailure(m) ==
    IF m \in {"HandleRequest", "drain", "settings", "callback", "HandleEvent", "ProcessTask"}
    THEN "refused" ELSE "error"

\* Methods of the plugin that have no error to return.
Infallible == {"GetInfo", "GetWebAssets", "GetSchema", "describe", "GetEventSubscriptions",
    "GetPlatform", "GetModels", "GetRoutes", "GetBackgroundTasks", "GetTaskTypes"}

VARIABLES
    plugin,    \* the plugin this behaviour runs
    up,        \* its process is running
    crashes,
    method,    \* slot |-> method of its call
    client,    \* slot |-> "idle", "waiting", or the result of the call
    server,    \* slot |-> "none", "running", "refresh", "lookup", "host"
    reply,     \* slot |-> the handler's answer on its way, or None
    done,      \* slot |-> the plugin's own method returned without an error
    task,      \* slot |-> the task to run
    list,      \* slot |-> names GetBackgroundTasks read, not stored yet
    missing,   \* slot |-> RunBackgroundTask reported "not found"
    taskMap,   \* names in the table of background tasks
    contexts,  \* number of contexts Init created
    once,      \* context |-> "new", "running", "done": hostOnce
    dials,     \* context |-> connections dialled
    host,      \* context |-> "nil" or "conn"
    at,        \* slot |-> context whose Host() its plugin method calls
    hosts      \* context |-> what calls of Host() returned
callVars == <<method, client, task>>
handlerVars == <<server, reply, done, list, missing>>
hostVars == <<contexts, once, dials, host, at, hosts>>
vars == <<plugin, up, crashes, callVars, handlerVars, taskMap, hostVars>>
-----------------------------------------------------------------------------
Contexts == 1..MaxInits

Init ==
    /\ plugin \in Plugins
    /\ up = FALSE
    /\ crashes = 0
    /\ method = [s \in Slots |-> None]
    /\ client = [s \in Slots |-> "idle"]
    /\ server = [s \in Slots |-> "none"]
    /\ reply = [s \in Slots |-> None]
    /\ done = [s \in Slots |-> FALSE]
    /\ task = [s \in Slots |-> None]
    /\ list = [s \in Slots |-> {}]
    /\ missing = [s \in Slots |-> FALSE]
    /\ taskMap = {}
    /\ contexts = 0
    /\ once = [x \in Contexts |-> "new"]
    /\ dials = [x \in Contexts |-> 0]
    /\ host = [x \in Contexts |-> "nil"]
    /\ at = [s \in Slots |-> 0]
    /\ hosts = [x \in Contexts |-> {}]

\* go-plugin starts the process (Serve), which begins with nothing.
Launch ==
    /\ ~up
    /\ up' = TRUE
    /\ taskMap' = {}
    /\ contexts' = 0
    /\ once' = [x \in Contexts |-> "new"]
    /\ dials' = [x \in Contexts |-> 0]
    /\ host' = [x \in Contexts |-> "nil"]
    /\ hosts' = [x \in Contexts |-> {}]
    /\ UNCHANGED <<plugin, crashes, callVars, handlerVars, at>>

\* The process dies: its handlers are gone, and so are answers on their way.
Crash ==
    /\ up /\ crashes < MaxCrashes
    /\ up' = FALSE
    /\ crashes' = crashes + 1
    /\ server' = [s \in Slots |-> "none"]
    /\ reply' = [s \in Slots |-> IF client[s] = "waiting" THEN "error" ELSE None]
    /\ list' = [s \in Slots |-> {}]
    /\ at' = [s \in Slots |-> 0]
    /\ UNCHANGED <<plugin, callVars, done, missing, taskMap, contexts, once, dials, host, hosts>>
-----------------------------------------------------------------------------
(* Core's side of a call. *)

\* The request of s is at the plugin and its handler has not begun.
Arrived(s) == up /\ client[s] = "waiting" /\ reply[s] = None /\ server[s] = "none"

Call(s, m, t) ==
    /\ client[s] # "waiting" /\ server[s] = "none"
    /\ m \in Offered(plugin)
    /\ m = "Init" => contexts + Cardinality({r \in Slots : method[r] = "Init" /\ Arrived(r)}) < MaxInits
    /\ m = "RunBackgroundTask" \/ t = None
    /\ method' = [method EXCEPT ![s] = m]
    /\ client' = [client EXCEPT ![s] = "waiting"]
    /\ task' = [task EXCEPT ![s] = t]
    /\ reply' = [reply EXCEPT ![s] = IF up THEN None ELSE "error"]
    /\ done' = [done EXCEPT ![s] = FALSE]
    /\ missing' = [missing EXCEPT ![s] = FALSE]
    /\ UNCHANGED <<plugin, up, crashes, server, list, taskMap, hostVars>>

\* Methods whose client has no error to return and returns nothing instead.
Swallows(m) == m \in {"GetSchema", "GetEventSubscriptions", "GetPlatform", "GetModels",
                      "GetRoutes", "GetBackgroundTasks"}

\* Mutant of Result: the status of a runtime operation is not looked at.
ResultUnchecked(m, r) ==
    CASE r = "ok" -> IF m = "describe" /\ plugin.version # RuntimeProtocolVersion
                     THEN "err" ELSE "ok"
      [] r = "refused" -> IF m \in RuntimeOps THEN "ok"
                          ELSE IF m = "HandleEvent" THEN "err" ELSE "refused"
      [] r = "error" -> IF Swallows(m) THEN "empty" ELSE "err"

\* Result of a call: "ok"; "refused", the plugin's answer handed on as it is; "empty",
\* the zero value; or "err".
Result(m, r) ==
    CASE r = "ok" -> IF m = "describe" /\ plugin.version # RuntimeProtocolVersion
                     THEN "err" ELSE "ok"
      [] r = "refused" -> IF m \in {"HandleRequest", "ProcessTask"} THEN "refused" ELSE "err"
      [] r = "error" -> IF Swallows(m) THEN "empty" ELSE "err"

Receive(s) ==
    /\ client[s] = "waiting" /\ reply[s] # None
    /\ client' = [client EXCEPT ![s] = Result(method[s], reply[s])]
    /\ reply' = [reply EXCEPT ![s] = None]
    /\ UNCHANGED <<plugin, up, crashes, method, task, server, done, list, missing, taskMap, hostVars>>

\* The deadline passes: Core stops waiting, the handler goes on.
Timeout(s) ==
    /\ client[s] = "waiting" /\ HasTimeout(method[s])
    /\ client' = [client EXCEPT ![s] = Result(method[s], "error")]
    /\ reply' = [reply EXCEPT ![s] = None]
    /\ UNCHANGED <<plugin, up, crashes, method, task, server, done, list, missing, taskMap, hostVars>>
-----------------------------------------------------------------------------
(* The plugin's side. *)

\* The handler of s ends with answer r, which goes nowhere once Core has returned.
Answer(s, r) ==
    /\ server' = [server EXCEPT ![s] = "none"]
    /\ reply' = [reply EXCEPT ![s] = IF client[s] = "waiting" THEN r ELSE None]

\* A service that is not registered, an interface the plugin does not implement, or
\* a body that is too large for the runtime protocol.
Decline(s) ==
    /\ Arrived(s)
    /\ \/ method[s] \notin Registered(plugin) /\ Answer(s, "error")
       \/ /\ method[s] \in Registered(plugin) /\ ~Implements(plugin, method[s])
          /\ Answer(s, WithoutInterface(method[s]))
       \/ method[s] \in {"settings", "callback"} /\ Answer(s, "refused")
    /\ UNCHANGED <<plugin, up, crashes, callVars, done, list, missing, taskMap, hostVars>>

Serves(s) == Arrived(s) /\ method[s] \in Registered(plugin) /\ Implements(plugin, method[s])

\* The handler calls the plugin's method; Init hands it a new context.
Handle(s) ==
    /\ Serves(s) /\ method[s] \notin {"RunBackgroundTask", "GetBackgroundTasks"}
    /\ server' = [server EXCEPT ![s] = "running"]
    /\ contexts' = IF method[s] = "Init" THEN contexts + 1 ELSE contexts
    /\ UNCHANGED <<plugin, up, crashes, callVars, reply, done, list, missing, taskMap, once,
                   dials, host, at, hosts>>

\* The plugin's method returns. An answer of the runtime protocol may be too large.
Return(s, ok) ==
    /\ server[s] = "running"
    /\ ok \/ method[s] \notin Infallible
    /\ done' = [done EXCEPT ![s] = ok]
    /\ \/ Answer(s, IF ok THEN "ok" ELSE OnFailure(method[s]))
       \/ ok /\ method[s] \in {"describe", "callback"} /\ Answer(s, "refused")
    /\ UNCHANGED <<plugin, up, crashes, callVars, list, missing, taskMap, hostVars>>

\* BackgroundTasks() of the plugin; a gateway's adapter has none.
BackgroundTasks == IF plugin.type = "gateway" THEN {{}} ELSE TaskLists

\* GetBackgroundTasks reads the plugin's list, and replaces the table later.
ReadTasks(s, names) ==
    /\ \/ Serves(s) /\ method[s] = "GetBackgroundTasks"
       \/ server[s] = "refresh" /\ list[s] = {} /\ method[s] = "RunBackgroundTask"
    /\ names \in BackgroundTasks
    /\ list' = [list EXCEPT ![s] = {names}]
    /\ server' = [server EXCEPT ![s] = "refresh"]
    /\ UNCHANGED <<plugin, up, crashes, callVars, reply, done, missing, taskMap, hostVars>>

StoreTasks(s) ==
    /\ server[s] = "refresh" /\ list[s] # {}
    /\ taskMap' = CHOOSE names \in list[s] : TRUE
    /\ list' = [list EXCEPT ![s] = {}]
    /\ IF method[s] = "GetBackgroundTasks"
       THEN Answer(s, "ok") /\ done' = [done EXCEPT ![s] = TRUE]
       ELSE /\ server' = [server EXCEPT ![s] = "lookup"]
            /\ UNCHANGED <<reply, done>>
    /\ UNCHANGED <<plugin, up, crashes, callVars, missing, hostVars>>

\* Mutant of Unlisted: the table is not read again.
UnlistedAtOnce(s) ==
    /\ Answer(s, "error")
    /\ missing' = [missing EXCEPT ![s] = TRUE]

\* A name that is not in the table: RunBackgroundTask fetches the list once.
Unlisted(s) ==
    IF server[s] = "none"
    THEN server' = [server EXCEPT ![s] = "refresh"] /\ UNCHANGED <<reply, missing>>
    ELSE Answer(s, "error") /\ missing' = [missing EXCEPT ![s] = TRUE]

\* RunBackgroundTask looks the name up, before and after it fetched the list.
LookupTask(s) ==
    /\ \/ Serves(s) /\ method[s] = "RunBackgroundTask"
       \/ server[s] = "lookup"
    /\ IF task[s] \in taskMap
       THEN server' = [server EXCEPT ![s] = "running"] /\ UNCHANGED <<reply, missing>>
       ELSE Unlisted(s)
    /\ UNCHANGED <<plugin, up, crashes, callVars, done, list, taskMap, hostVars>>

\* Mutant of OnceFree: the field is looked at, and no one is kept out.
OnceFreeUnguarded(x) == once[x] # "done"

\* hostOnce.Do lets one caller in.
OnceFree(x) == once[x] = "new"

\* A method of the plugin calls Host() (or HostError()) of a context that some Init
\* gave it, the latest or one it kept, and runs initHost.
InitHost(s, x) ==
    /\ server[s] = "running" /\ method[s] \in HostUsers /\ x <= contexts
    /\ OnceFree(x)
    /\ once' = [once EXCEPT ![x] = "running"]
    /\ server' = [server EXCEPT ![s] = "host"]
    /\ at' = [at EXCEPT ![s] = x]
    /\ UNCHANGED <<plugin, up, crashes, callVars, reply, done, list, missing, taskMap, contexts,
                   dials, host, hosts>>

\* broker.Dial, when Core serves reverse calls, succeeds or fails.
Dial(s) ==
    /\ server[s] = "host"
    /\ IF plugin.coreInvoke
       THEN /\ dials' = [dials EXCEPT ![at[s]] = @ + 1]
            /\ \E h \in {"conn", "nil"} :
                  /\ host' = [host EXCEPT ![at[s]] = h]
                  /\ hosts' = [hosts EXCEPT ![at[s]] = @ \cup {h}]
       ELSE /\ hosts' = [hosts EXCEPT ![at[s]] = @ \cup {host[at[s]]}]
            /\ UNCHANGED <<dials, host>>
    /\ once' = [once EXCEPT ![at[s]] = "done"]
    /\ server' = [server EXCEPT ![s] = "running"]
    /\ at' = [at EXCEPT ![s] = 0]
    /\ UNCHANGED <<plugin, up, crashes, callVars, reply, done, list, missing, taskMap, contexts>>

\* Host() returns what initHost left, once it has ended.
Host(s, x) ==
    /\ server[s] = "running" /\ method[s] \in HostUsers /\ x <= contexts
    /\ once[x] = "done"
    /\ hosts' = [hosts EXCEPT ![x] = @ \cup {host[x]}]
    /\ UNCHANGED <<plugin, up, crashes, callVars, handlerVars, taskMap, contexts, once, dials,
                   host, at>>

Next ==
    \/ Launch \/ Crash
    \/ \E s \in Slots :
          \/ \E m \in MethodsOf[s], t \in Tasks \cup {None} : Call(s, m, t)
          \/ Receive(s) \/ Timeout(s)
          \/ Decline(s) \/ Handle(s)
          \/ \E ok \in BOOLEAN : Return(s, ok)
          \/ \E names \in TaskLists \cup {{}} : ReadTasks(s, names)
          \/ StoreTasks(s) \/ LookupTask(s)
          \/ \E x \in Contexts : InitHost(s, x) \/ Host(s, x)
          \/ Dial(s)

\* Core's runtime cancels a call at its deadline. Nothing else is certain: a
\* plugin's method may never return.
Spec == Init /\ [][Next]_vars /\ \A s \in Slots : WF_vars(Timeout(s))
-----------------------------------------------------------------------------
(* Properties. *)

\* Methods that succeed without the interface, as their handlers document.
Tolerant == {"HealthCheck", "GetWebAssets", "GetSchema", "describe", "drain", "settings",
             "GetEventSubscriptions", "GetTaskTypes"}

\* When Core is told that a call succeeded, the plugin's own method ran for this call
\* and returned no error, or the plugin does not implement an interface it may leave
\* out: not after a timeout, a crash, or the late answer of a handler that outlived
\* an earlier call; and a gateway's tasks are reached through its adapter.
SuccessMeansDone ==
    \A s \in Slots :
        client[s] = "ok" =>
            /\ method[s] \in Registered(plugin)
            /\ done[s] \/ (method[s] \in Tolerant /\ ~Implements(plugin, method[s]))

\* All calls of Host() and HostError() on one context see the outcome of one dial:
\* the plugin never holds two connections, nor a connection and a nil, for the
\* context of one Init; without reverse calls enabled nothing is dialled.
HostAgrees ==
    \A x \in Contexts :
        /\ Cardinality(hosts[x]) <= 1
        /\ dials[x] <= IF plugin.coreInvoke THEN 1 ELSE 0

\* A task that is in every list the plugin gives is found whenever Core asks for it:
\* before Core read the list, after a crash, and while other calls replace the table.
\* A task that is in no list is never run.
DeclaredTaskRuns ==
    \A s \in Slots : method[s] = "RunBackgroundTask" =>
        /\ missing[s] => \E names \in BackgroundTasks : task[s] \notin names
        /\ done[s] => \E names \in BackgroundTasks : task[s] \in names

\* Calls that Core makes while it prepares, updates or stops a plugin return even if
\* the plugin hangs.
TimedCallsEnd ==
    \A s \in Slots :
        (client[s] = "waiting" /\ method[s] \in {"GetInfo", "Init", "UpdateConfig", "Stop",
            "GetWebAssets", "GetSchema", "GetBackgroundTasks", "Migrate", "GetModels"})
        ~> (client[s] # "waiting")
=============================================================================
