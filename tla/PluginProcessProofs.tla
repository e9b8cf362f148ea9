-------------------------- MODULE PluginProcessProofs --------------------------
(***************************************************************************)
(* Proofs about PluginProcess for any number of calling goroutines, any    *)
(* plugins and task lists, and any number of Inits and crashes.            *)
(*                                                                         *)
(* The invariant has one part per property: CallInv follows an answer from *)
(* the handler that gives it to the client that reads it, HostInv says     *)
(* what hostOnce keeps apart, TaskInv what the table of background tasks   *)
(* can hold while a handler works with it.                                 *)
(***************************************************************************)
EXTENDS PluginProcess, FiniteSetTheorems, TLAPS

Answers == {"ok", "refused", "error"}

Methods == {None} \cup UNION {MethodsOf[s] : s \in Slots}

CallType ==
    /\ up \in BOOLEAN
    /\ method \in [Slots -> Methods]
    /\ client \in [Slots -> {"idle", "waiting", "ok", "refused", "empty", "err"}]
    /\ server \in [Slots -> {"none", "running", "refresh", "lookup", "host"}]
    /\ reply \in [Slots -> Answers \cup {None}]
    /\ done \in [Slots -> BOOLEAN]

TaskType ==
    /\ task \in [Slots -> Tasks \cup {None}]
    /\ list \in [Slots -> SUBSET (TaskLists \cup {{}})]
    /\ missing \in [Slots -> BOOLEAN]

HostType ==
    /\ once \in [Contexts -> {"new", "running", "done"}]
    /\ dials \in [Contexts -> Nat]
    /\ host \in [Contexts -> {"nil", "conn"}]
    /\ hosts \in [Contexts -> SUBSET {"nil", "conn"}]
    /\ at \in [Slots -> Contexts \cup {0}]

\* What a successful call of s stands for.
Justified(s) ==
    /\ method[s] \in Registered(plugin)
    /\ done[s] \/ (method[s] \in Tolerant /\ ~Implements(plugin, method[s]))

\* An answer is on its way, or read, only when the handler has ended; a process
\* that is down has no handler.
CallInv ==
    \A s \in Slots :
        /\ server[s] # "none" =>
               /\ up
               /\ reply[s] = None
               /\ client[s] # "ok"
               /\ method[s] \in Registered(plugin)
        /\ reply[s] = "ok" \/ client[s] = "ok" => Justified(s)

\* hostOnce: only one handler is inside initHost of a context, and nothing is
\* known of the Host before it ends.
HostInv ==
    /\ \A x \in Contexts :
           /\ once[x] # "done" => hosts[x] = {} /\ dials[x] = 0 /\ host[x] = "nil"
           /\ hosts[x] \subseteq {host[x]}
           /\ dials[x] <= IF plugin.coreInvoke THEN 1 ELSE 0
    /\ \A s \in Slots : server[s] = "host" =>
           /\ at[s] \in Contexts
           /\ once[at[s]] = "running"
           /\ \A r \in Slots : server[r] = "host" /\ at[r] = at[s] => r = s

\* The table is empty or a list the plugin gave; a handler that looks a name up
\* again does so in a list the plugin gave.
TaskInv ==
    /\ taskMap \in BackgroundTasks \cup {{}}
    /\ \A s \in Slots :
           /\ list[s] \subseteq BackgroundTasks
           /\ server[s] = "lookup" => taskMap \in BackgroundTasks
           /\ method[s] = "RunBackgroundTask" =>
                  /\ server[s] \in {"running", "host"} \/ done[s] =>
                         \E names \in BackgroundTasks : task[s] \in names
                  /\ missing[s] => \E names \in BackgroundTasks : task[s] \notin names

IInv == CallType /\ TaskType /\ HostType /\ CallInv /\ HostInv /\ TaskInv

-----------------------------------------------------------------------------
(* Calls and answers. *)

\* What the client makes of an answer: only "ok" can become a success.
LEMMA ResultType ==
    ASSUME NEW m, NEW r \in Answers
    PROVE  /\ Result(m, r) \in {"ok", "refused", "empty", "err"}
           /\ Result(m, r) = "ok" => r = "ok"
  BY DEF Answers, Result

\* A handler that succeeds without the plugin's method does so for an interface the
\* plugin may leave out.
LEMMA DeclineType ==
    ASSUME NEW m, NEW p, ~Implements(p, m)
    PROVE  /\ WithoutInterface(m) \in Answers
           /\ WithoutInterface(m) = "ok" => m \in Tolerant
  BY DEF Answers, WithoutInterface, Implements, Interface, Tolerant, EventService

\* Every step keeps CallInv.
LEMMA CallStep ==
    ASSUME CallType, CallInv, Next
    PROVE  CallType' /\ CallInv'
<1> USE ProcessAssumption DEF CallType, CallInv, Justified, Answers
<1>1. CASE Launch
  <2>1. UNCHANGED <<plugin, method, client, server, reply, done>> /\ up' = TRUE
    BY <1>1 DEF Launch, callVars, handlerVars
  <2> QED
    BY <2>1
<1>2. CASE Crash
  <2>1. /\ UNCHANGED <<plugin, method, client, done>> /\ up' = FALSE
        /\ server' = [s \in Slots |-> "none"]
        /\ reply' = [s \in Slots |-> IF client[s] = "waiting" THEN "error" ELSE None]
    BY <1>2 DEF Crash, callVars
  <2> QED
    BY <2>1
<1>3. ASSUME NEW s \in Slots, NEW m \in MethodsOf[s], NEW t \in Tasks \cup {None},
             Call(s, m, t)
      PROVE  CallType' /\ CallInv'
  <2>1. /\ client[s] # "waiting" /\ server[s] = "none"
        /\ method' = [method EXCEPT ![s] = m]
        /\ client' = [client EXCEPT ![s] = "waiting"]
        /\ reply' = [reply EXCEPT ![s] = IF up THEN None ELSE "error"]
        /\ done' = [done EXCEPT ![s] = FALSE]
        /\ UNCHANGED <<plugin, up, server>>
    BY <1>3 DEF Call
  <2>2. m \in Methods
    BY DEF Methods
  <2> QED
    BY <2>1, <2>2
<1>4. ASSUME NEW s \in Slots, NEW r \in Answers,
             client' = [client EXCEPT ![s] = Result(method[s], r)],
             r = "ok" => reply[s] = "ok",
             reply' = [reply EXCEPT ![s] = None],
             r = "ok" => server[s] = "none",
             UNCHANGED <<plugin, up, method, server, done>>
      PROVE  CallType' /\ CallInv'
  <2>1. /\ Result(method[s], r) \in {"ok", "refused", "empty", "err"}
        /\ Result(method[s], r) = "ok" => r = "ok"
    BY <1>4, ResultType
  <2> QED
    BY <1>4, <2>1
<1>5. ASSUME NEW s \in Slots, Receive(s)
      PROVE  CallType' /\ CallInv'
  <2>1. /\ reply[s] \in Answers
        /\ client' = [client EXCEPT ![s] = Result(method[s], reply[s])]
        /\ reply' = [reply EXCEPT ![s] = None]
        /\ UNCHANGED <<plugin, up, method, server, done>>
    BY <1>5 DEF Receive
  <2> QED
    BY <2>1, <1>4
<1>6. ASSUME NEW s \in Slots, Timeout(s)
      PROVE  CallType' /\ CallInv'
  <2>1. /\ client' = [client EXCEPT ![s] = Result(method[s], "error")]
        /\ reply' = [reply EXCEPT ![s] = None]
        /\ UNCHANGED <<plugin, up, method, server, done>>
    BY <1>6 DEF Timeout
  <2> QED
    BY <2>1, <1>4
<1>7. ASSUME NEW s \in Slots, NEW r \in Answers, NEW d \in BOOLEAN, Answer(s, r),
             done' = [done EXCEPT ![s] = d], client[s] # "ok",
             UNCHANGED <<plugin, up, method, client>>,
             r = "ok" => method[s] \in Registered(plugin)
                         /\ (d \/ (method[s] \in Tolerant /\ ~Implements(plugin, method[s])))
      PROVE  CallType' /\ CallInv'
  <2>1. /\ server' = [server EXCEPT ![s] = "none"]
        /\ reply' = [reply EXCEPT ![s] = IF client[s] = "waiting" THEN r ELSE None]
    BY <1>7 DEF Answer
  <2> QED
    BY <1>7, <2>1
<1>8. ASSUME NEW s \in Slots, Decline(s)
      PROVE  CallType' /\ CallInv'
  <2>1. /\ client[s] = "waiting" /\ server[s] = "none"
        /\ UNCHANGED <<plugin, up, method, client, done>>
    BY <1>8 DEF Decline, Arrived, callVars
  <2>2. PICK r \in Answers :
           /\ Answer(s, r)
           /\ r = "ok" => /\ method[s] \in Registered(plugin)
                          /\ method[s] \in Tolerant /\ ~Implements(plugin, method[s])
    BY <1>8, DeclineType DEF Decline
  <2>3. done' = [done EXCEPT ![s] = done[s]] /\ done[s] \in BOOLEAN
    BY <2>1
  <2> QED
    BY <1>7, <2>1, <2>2, <2>3
<1>9. ASSUME NEW s \in Slots, NEW pc \in {"running", "refresh", "lookup", "host"},
             server' = [server EXCEPT ![s] = pc],
             server[s] # "none" \/ Serves(s),
             UNCHANGED <<plugin, up, method, client, reply, done>>
      PROVE  CallType' /\ CallInv'
  <2>1. /\ up /\ reply[s] = None /\ client[s] # "ok" /\ method[s] \in Registered(plugin)
    BY <1>9 DEF Serves, Arrived
  <2> QED
    BY <1>9, <2>1
<1>10. ASSUME NEW s \in Slots, Handle(s) \/ \E names \in TaskLists \cup {{}} : ReadTasks(s, names)
       PROVE  CallType' /\ CallInv'
  <2>1. /\ server[s] # "none" \/ Serves(s)
        /\ \E pc \in {"running", "refresh"} : server' = [server EXCEPT ![s] = pc]
        /\ UNCHANGED <<plugin, up, method, client, reply, done>>
    BY <1>10 DEF Handle, ReadTasks, callVars
  <2> QED
    BY <2>1, <1>9
<1>11. ASSUME NEW s \in Slots, NEW ok \in BOOLEAN, Return(s, ok)
       PROVE  CallType' /\ CallInv'
  <2>1. /\ server[s] = "running" /\ done' = [done EXCEPT ![s] = ok]
        /\ UNCHANGED <<plugin, up, method, client>>
    BY <1>11 DEF Return, callVars
  <2>2. PICK r \in Answers : Answer(s, r) /\ (r = "ok" => ok)
    BY <1>11 DEF Return, OnFailure
  <2>3. client[s] # "ok" /\ method[s] \in Registered(plugin)
    BY <2>1
  <2> QED
    BY <2>1, <2>2, <2>3, <1>7
<1>12. ASSUME NEW s \in Slots, StoreTasks(s)
       PROVE  CallType' /\ CallInv'
  <2>1. /\ server[s] = "refresh" /\ UNCHANGED <<plugin, up, method, client>>
        /\ \/ Answer(s, "ok") /\ done' = [done EXCEPT ![s] = TRUE]
           \/ server' = [server EXCEPT ![s] = "lookup"] /\ UNCHANGED <<reply, done>>
    BY <1>12 DEF StoreTasks, callVars
  <2>2. client[s] # "ok" /\ method[s] \in Registered(plugin)
    BY <2>1
  <2>3. CASE Answer(s, "ok") /\ done' = [done EXCEPT ![s] = TRUE]
    BY <2>1, <2>2, <2>3, <1>7
  <2>4. CASE server' = [server EXCEPT ![s] = "lookup"] /\ UNCHANGED <<reply, done>>
    BY <2>1, <2>4, <1>9
  <2> QED
    BY <2>1, <2>3, <2>4
<1>13. ASSUME NEW s \in Slots, LookupTask(s)
       PROVE  CallType' /\ CallInv'
  <2>1. /\ server[s] # "none" \/ Serves(s)
        /\ UNCHANGED <<plugin, up, method, client, done>>
        /\ \/ /\ \E pc \in {"running", "refresh"} : server' = [server EXCEPT ![s] = pc]
              /\ UNCHANGED reply
           \/ server[s] # "none" /\ Answer(s, "error")
    BY <1>13 DEF LookupTask, Unlisted, callVars
  <2>2. CASE /\ \E pc \in {"running", "refresh"} : server' = [server EXCEPT ![s] = pc]
             /\ UNCHANGED reply
    BY <2>1, <2>2, <1>9
  <2>3. CASE server[s] # "none" /\ Answer(s, "error")
    <3>1. done' = [done EXCEPT ![s] = done[s]] /\ done[s] \in BOOLEAN
      BY <2>1
    <3>2. client[s] # "ok"
      BY <2>3
    <3> QED
      BY <2>1, <2>3, <3>1, <3>2, <1>7
  <2> QED
    BY <2>1, <2>2, <2>3
<1>14. ASSUME NEW s \in Slots, Dial(s) \/ \E x \in Contexts : InitHost(s, x)
       PROVE  CallType' /\ CallInv'
  <2>1. /\ server[s] # "none"
        /\ \E pc \in {"running", "host"} : server' = [server EXCEPT ![s] = pc]
        /\ UNCHANGED <<plugin, up, method, client, reply, done>>
    BY <1>14 DEF Dial, InitHost, callVars
  <2> QED
    BY <2>1, <1>9
<1>15. ASSUME NEW s \in Slots, \E x \in Contexts : Host(s, x)
       PROVE  CallType' /\ CallInv'
  BY <1>15 DEF Host, callVars, handlerVars
<1> QED
  BY <1>1, <1>2, <1>3, <1>5, <1>6, <1>8, <1>10, <1>11, <1>12, <1>13, <1>14, <1>15
     DEF Next

-----------------------------------------------------------------------------
(* The Host of a context. *)

\* A step that neither enters nor leaves initHost and reads no Host.
LEMMA HostFrame ==
    ASSUME HostType, HostInv, UNCHANGED <<plugin, once, dials, host, at, hosts>>,
           \A r \in Slots : server'[r] = "host" => server[r] = "host"
    PROVE  HostType' /\ HostInv'
  BY DEF HostType, HostInv

\* Every step keeps HostInv: InitHost finds the context new, so no one else is
\* inside its initHost, and Dial is the last step of the one that is.
LEMMA HostStep ==
    ASSUME CallType, CallInv, HostType, HostInv, Next
    PROVE  HostType' /\ HostInv'
<1>0. server \in [Slots -> {"none", "running", "refresh", "lookup", "host"}]
  BY DEF CallType
<1>1. CASE Launch
  <2>1. /\ once' = [x \in Contexts |-> "new"] /\ dials' = [x \in Contexts |-> 0]
        /\ host' = [x \in Contexts |-> "nil"] /\ hosts' = [x \in Contexts |-> {}]
        /\ UNCHANGED <<plugin, server, at>> /\ ~up
    BY <1>1 DEF Launch, handlerVars
  <2>2. \A s \in Slots : server[s] = "none"
    BY <2>1 DEF CallInv
  <2> QED
    BY <2>1, <2>2 DEF HostType, HostInv
<1>2. CASE Crash
  <2>1. /\ UNCHANGED <<plugin, once, dials, host, hosts>>
        /\ at' = [s \in Slots |-> 0] /\ server' = [s \in Slots |-> "none"]
    BY <1>2 DEF Crash
  <2> QED
    BY <2>1 DEF HostType, HostInv
<1>3. ASSUME NEW s \in Slots,
             \/ \E m \in MethodsOf[s], t \in Tasks \cup {None} : Call(s, m, t)
             \/ Receive(s) \/ Timeout(s) \/ Decline(s) \/ Handle(s)
             \/ \E ok \in BOOLEAN : Return(s, ok)
             \/ \E names \in TaskLists \cup {{}} : ReadTasks(s, names)
             \/ StoreTasks(s) \/ LookupTask(s)
      PROVE  HostType' /\ HostInv'
  <2>1. UNCHANGED <<plugin, once, dials, host, at, hosts>>
    BY <1>3 DEF Call, Receive, Timeout, Decline, Handle, Return, ReadTasks, StoreTasks,
       LookupTask, hostVars
  <2>2. \/ UNCHANGED server
        \/ \E pc \in {"none", "running", "refresh", "lookup"} :
              server' = [server EXCEPT ![s] = pc]
    BY <1>3 DEF Call, Receive, Timeout, Decline, Handle, Return, ReadTasks, StoreTasks,
       LookupTask, Unlisted, Answer
  <2>3. \A r \in Slots : server'[r] = "host" => server[r] = "host"
    BY <2>2, <1>0
  <2> QED
    BY <2>1, <2>3, HostFrame
<1>4. ASSUME NEW s \in Slots, NEW x \in Contexts, InitHost(s, x)
      PROVE  HostType' /\ HostInv'
  <2>1. /\ once[x] = "new" /\ once' = [once EXCEPT ![x] = "running"]
        /\ server[s] = "running" /\ server' = [server EXCEPT ![s] = "host"]
        /\ at' = [at EXCEPT ![s] = x]
        /\ UNCHANGED <<plugin, dials, host, hosts>>
    BY <1>4 DEF InitHost, OnceFree
  <2> QED
    BY <2>1, <1>0 DEF HostType, HostInv
<1>5. ASSUME NEW s \in Slots, Dial(s)
      PROVE  HostType' /\ HostInv'
  <2> DEFINE x == at[s]
  <2>1. /\ server[s] = "host" /\ x \in Contexts /\ once[x] = "running"
        /\ \A r \in Slots : server[r] = "host" /\ at[r] = x => r = s
        /\ hosts[x] = {} /\ dials[x] = 0 /\ host[x] = "nil"
    BY <1>5 DEF Dial, HostInv
  <2>2. /\ once' = [once EXCEPT ![x] = "done"]
        /\ server' = [server EXCEPT ![s] = "running"] /\ at' = [at EXCEPT ![s] = 0]
        /\ UNCHANGED plugin
    BY <1>5 DEF Dial
  <2>3. PICK h \in {"conn", "nil"} :
           /\ host' = [host EXCEPT ![x] = h]
           /\ hosts' = [hosts EXCEPT ![x] = {h}]
           /\ dials' = [dials EXCEPT ![x] = IF plugin.coreInvoke THEN 1 ELSE 0]
    <3>1. CASE plugin.coreInvoke
      BY <3>1, <1>5, <2>1 DEF Dial, HostType
    <3>2. CASE ~plugin.coreInvoke
      BY <3>2, <1>5, <2>1 DEF Dial, HostType
    <3> QED
      BY <3>1, <3>2
  <2> HIDE DEF x
  <2>4. HostType'
    BY <2>1, <2>2, <2>3 DEF HostType
  <2>5. ASSUME NEW y \in Contexts
        PROVE  /\ once'[y] # "done" => hosts'[y] = {} /\ dials'[y] = 0 /\ host'[y] = "nil"
               /\ hosts'[y] \subseteq {host'[y]}
               /\ dials'[y] <= IF plugin'.coreInvoke THEN 1 ELSE 0
    BY <2>1, <2>2, <2>3 DEF HostType, HostInv
  <2>6. ASSUME NEW q \in Slots, server'[q] = "host"
        PROVE  /\ at'[q] \in Contexts /\ once'[at'[q]] = "running"
               /\ \A r \in Slots : server'[r] = "host" /\ at'[r] = at'[q] => r = q
    <3>1. q # s /\ server[q] = "host" /\ at'[q] = at[q] /\ at[q] # x
      BY <2>6, <2>1, <2>2, <1>0 DEF HostType
    <3> QED
      BY <3>1, <2>1, <2>2, <1>0 DEF HostType, HostInv
  <2> QED
    BY <2>4, <2>5, <2>6 DEF HostInv
<1>6. ASSUME NEW s \in Slots, NEW x \in Contexts, Host(s, x)
      PROVE  HostType' /\ HostInv'
  <2>1. /\ once[x] = "done" /\ hosts' = [hosts EXCEPT ![x] = @ \cup {host[x]}]
        /\ UNCHANGED <<plugin, server, once, dials, host, at>>
    BY <1>6 DEF Host, handlerVars
  <2> QED
    BY <2>1 DEF HostType, HostInv
<1> QED
  BY <1>1, <1>2, <1>3, <1>4, <1>5, <1>6 DEF Next

-----------------------------------------------------------------------------
(* The table of background tasks. *)

\* Every step keeps TaskInv.
LEMMA TaskStep ==
    ASSUME CallType, CallInv, TaskType, TaskInv, Next
    PROVE  TaskType' /\ TaskInv'
<1>0. /\ server \in [Slots -> {"none", "running", "refresh", "lookup", "host"}]
      /\ method \in [Slots -> Methods] /\ done \in [Slots -> BOOLEAN]
      /\ BackgroundTasks \subseteq TaskLists \cup {{}}
  BY DEF CallType, BackgroundTasks
<1>a. plugin' = plugin /\ BackgroundTasks' = BackgroundTasks
  <2>1. plugin' = plugin
    BY DEF Next, Launch, Crash, Call, Receive, Timeout, Decline, Handle, Return, ReadTasks,
       StoreTasks, LookupTask, InitHost, Dial, Host
  <2> QED
    BY <2>1 DEF BackgroundTasks
<1> USE DEF TaskType, TaskInv
<1>1. CASE Launch
  <2>1. /\ taskMap' = {} /\ ~up
        /\ UNCHANGED <<method, server, done, task, list, missing>>
    BY <1>1 DEF Launch, callVars, handlerVars
  <2>2. \A s \in Slots : server[s] = "none"
    BY <2>1 DEF CallInv
  <2> QED
    BY <2>1, <2>2, <1>a
<1>2. CASE Crash
  <2>1. /\ list' = [s \in Slots |-> {}] /\ server' = [s \in Slots |-> "none"]
        /\ UNCHANGED <<method, done, task, missing, taskMap>>
    BY <1>2 DEF Crash, callVars
  <2> QED
    BY <2>1, <1>a
<1>3. ASSUME NEW s \in Slots, NEW m \in MethodsOf[s], NEW t \in Tasks \cup {None},
             Call(s, m, t)
      PROVE  TaskType' /\ TaskInv'
  <2>1. /\ server[s] = "none"
        /\ method' = [method EXCEPT ![s] = m] /\ task' = [task EXCEPT ![s] = t]
        /\ done' = [done EXCEPT ![s] = FALSE]
        /\ missing' = [missing EXCEPT ![s] = FALSE]
        /\ UNCHANGED <<server, list, taskMap>>
    BY <1>3 DEF Call
  <2> QED
    BY <2>1, <1>0, <1>a
<1>4. ASSUME NEW s \in Slots, Receive(s) \/ Timeout(s) \/ \E x \in Contexts : Host(s, x)
      PROVE  TaskType' /\ TaskInv'
  <2>1. UNCHANGED <<method, server, done, task, list, missing, taskMap>>
    BY <1>4 DEF Receive, Timeout, Host, callVars, handlerVars
  <2> QED
    BY <2>1, <1>a
<1>5. ASSUME NEW s \in Slots, Decline(s) \/ Handle(s) \/ Dial(s)
                              \/ \E x \in Contexts : InitHost(s, x)
      PROVE  TaskType' /\ TaskInv'
  <2>1. /\ UNCHANGED <<method, done, task, list, missing, taskMap>>
        /\ \E pc \in {"none", "running", "host"} :
              /\ server' = [server EXCEPT ![s] = pc]
              /\ \/ pc = "none" \/ method[s] # "RunBackgroundTask"
                 \/ server[s] \in {"running", "host"}
    BY <1>5 DEF Decline, Handle, Dial, InitHost, Answer, callVars
  <2> QED
    BY <2>1, <1>0, <1>a
<1>6. ASSUME NEW s \in Slots, NEW ok \in BOOLEAN, Return(s, ok)
      PROVE  TaskType' /\ TaskInv'
  <2>1. /\ server[s] = "running" /\ done' = [done EXCEPT ![s] = ok]
        /\ server' = [server EXCEPT ![s] = "none"]
        /\ UNCHANGED <<method, task, list, missing, taskMap>>
    BY <1>6 DEF Return, Answer, callVars
  <2> QED
    BY <2>1, <1>0, <1>a
<1>7. ASSUME NEW s \in Slots, NEW names \in TaskLists \cup {{}}, ReadTasks(s, names)
      PROVE  TaskType' /\ TaskInv'
  <2>1. /\ names \in BackgroundTasks /\ list' = [list EXCEPT ![s] = {names}]
        /\ server' = [server EXCEPT ![s] = "refresh"]
        /\ UNCHANGED <<method, done, task, missing, taskMap>>
    BY <1>7 DEF ReadTasks, callVars
  <2> QED
    BY <2>1, <1>0, <1>a
<1>8. ASSUME NEW s \in Slots, StoreTasks(s)
      PROVE  TaskType' /\ TaskInv'
  <2>1. taskMap' \in BackgroundTasks
    <3>1. list[s] # {} /\ taskMap' = CHOOSE names \in list[s] : TRUE
      BY <1>8 DEF StoreTasks
    <3>2. taskMap' \in list[s]
      BY <3>1
    <3> QED
      BY <3>2
  <2>2. /\ list' = [list EXCEPT ![s] = {}] /\ UNCHANGED <<method, task, missing>>
        /\ \/ /\ method[s] = "GetBackgroundTasks" /\ done' = [done EXCEPT ![s] = TRUE]
              /\ server' = [server EXCEPT ![s] = "none"]
           \/ UNCHANGED done /\ server' = [server EXCEPT ![s] = "lookup"]
    BY <1>8 DEF StoreTasks, Answer, callVars
  <2> QED
    BY <2>1, <2>2, <1>0, <1>a
<1>9. ASSUME NEW s \in Slots, LookupTask(s)
      PROVE  TaskType' /\ TaskInv'
  <2>1. UNCHANGED <<method, done, task, list, taskMap>>
    BY <1>9 DEF LookupTask, callVars
  <2>2. \/ /\ task[s] \in taskMap
           /\ server' = [server EXCEPT ![s] = "running"] /\ UNCHANGED missing
        \/ server' = [server EXCEPT ![s] = "refresh"] /\ UNCHANGED missing
        \/ /\ server[s] = "lookup" /\ task[s] \notin taskMap
           /\ server' = [server EXCEPT ![s] = "none"]
           /\ missing' = [missing EXCEPT ![s] = TRUE]
    BY <1>9 DEF LookupTask, Unlisted, Answer, Serves, Arrived
  <2> QED
    BY <2>1, <2>2, <1>0, <1>a
<1> QED
  BY <1>1, <1>2, <1>3, <1>4, <1>5, <1>6, <1>7, <1>8, <1>9 DEF Next

-----------------------------------------------------------------------------
(* The theorems. *)

\* No process runs and nothing has been called at the start.
LEMMA InitIInv ==
    ASSUME Init
    PROVE  IInv
<1>1. CallType /\ CallInv
  BY ProcessAssumption DEF Init, CallType, CallInv, Justified, Methods, Answers
<1>2. TaskType /\ TaskInv
  BY DEF Init, TaskType, TaskInv
<1>3. HostType /\ HostInv
  BY DEF Init, HostType, HostInv
<1> QED
  BY <1>1, <1>2, <1>3 DEF IInv

\* Every step keeps the invariant.
LEMMA NextIInv ==
    ASSUME IInv, [Next]_vars
    PROVE  IInv'
<1>1. CASE Next
  BY <1>1, CallStep, HostStep, TaskStep DEF IInv
<1>2. CASE UNCHANGED vars
  <2>1. CallType' /\ CallInv'
    BY <1>2 DEF IInv, CallType, CallInv, Justified, vars, callVars, handlerVars
  <2>2. TaskType' /\ TaskInv'
    BY <1>2 DEF IInv, TaskType, TaskInv, BackgroundTasks, vars, callVars, handlerVars
  <2>3. HostType' /\ HostInv'
    BY <1>2, HostFrame DEF IInv, vars, handlerVars, hostVars
  <2> QED
    BY <2>1, <2>2, <2>3 DEF IInv
<1> QED
  BY <1>1, <1>2

\* IInv is an invariant.
THEOREM Invariance == Spec => []IInv
<1>1. Init => IInv
  BY InitIInv
<1>2. IInv /\ [Next]_vars => IInv'
  BY NextIInv
<1> QED
  BY <1>1, <1>2, PTL DEF Spec

\* The plugin's handlers and Core's client: a call that succeeds means that the
\* plugin's method ran for it and succeeded, or that it may be left out; after any
\* number of timeouts and crashes.
THEOREM SuccessIsEarned == Spec => []SuccessMeansDone
<1>1. IInv => SuccessMeansDone
  BY DEF IInv, CallInv, Justified, SuccessMeansDone
<1> QED
  BY <1>1, Invariance, PTL

\* hostOnce: all callers of Host() on one context get the outcome of one dial.
THEOREM OneHostPerContext == Spec => []HostAgrees
<1>1. IInv => HostAgrees
  <2> SUFFICES ASSUME IInv, NEW x \in Contexts
               PROVE  /\ Cardinality(hosts[x]) <= 1
                      /\ dials[x] <= IF plugin.coreInvoke THEN 1 ELSE 0
    BY DEF HostAgrees
  <2>1. /\ hosts[x] \subseteq {host[x]}
        /\ dials[x] <= IF plugin.coreInvoke THEN 1 ELSE 0
    BY DEF IInv, HostInv
  <2>2. Cardinality(hosts[x]) <= Cardinality({host[x]}) /\ Cardinality({host[x]}) = 1
    BY <2>1, FS_Singleton, FS_Subset
  <2> QED
    BY <2>1, <2>2
<1> QED
  BY <1>1, Invariance, PTL

\* RunBackgroundTask: a task that every list names is never reported missing, and
\* one that no list names is never run.
THEOREM TasksAsDeclared == Spec => []DeclaredTaskRuns
<1>1. IInv => DeclaredTaskRuns
  BY DEF IInv, TaskInv, DeclaredTaskRuns
<1> QED
  BY <1>1, Invariance, PTL
=============================================================================
