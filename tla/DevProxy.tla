------------------------------- MODULE DevProxy -------------------------------
(***************************************************************************)
(* The development server: an AccountStore kept in a JSON file, a          *)
(* Scheduler that picks accounts by weighted round robin, and the          *)
(* ProxyHandler that forwards a request with one account after another.    *)
(*                                                                         *)
(* Requests run concurrently with each other and with the management API.  *)
(* One action is one critical section of the store or the scheduler, or    *)
(* one call of the plugin's Forward; everything a request read before is   *)
(* kept in its own record and may be stale.                                *)
(*                                                                         *)
(* Time is abstract: a cooldown is active until CooldownExpires.           *)
(***************************************************************************)
EXTENDS Integers, Sequences, FiniteSets, SequencesExt

CONSTANTS
    Requests,      \* concurrent HTTP requests
    Initial,       \* accounts in the file at the first start: [id, weight]
    InitialPolicy, \* cfg.SchedulePolicy
    Weights,       \* weights the management API sets
    Outcomes,      \* what the plugin's Forward may return, see PluginOutcomes
    MaxID,         \* bound: highest account ID created
    MaxOps         \* bound: management calls, WebSocket sessions and restarts

(***************************************************************************)
(* What Forward returns: the verdict, its failover scope, whether an error *)
(* comes with it, whether the plugin wrote to the Writer, and whether the  *)
(* outcome carries an upstream status and a body.                          *)
(***************************************************************************)
Kinds == {"Unknown", "Success", "ClientError", "AccountRateLimited",
          "AccountDead", "UpstreamTransient", "StreamAborted",
          "FamilyTransient", "AccountUnavailable", "AccountQuotaExhausted"}

PluginOutcomes ==
    [kind : Kinds, scope : {"none", "terminal"}, err : BOOLEAN, wrote : BOOLEAN,
     status : BOOLEAN, body : BOOLEAN]

Policies == {"none", "weighted_rr"}

Accounts == [id : Nat \ {0}, weight : Int]

ASSUME DevProxyAssumption ==
    /\ Initial \in Seq(Accounts)
    /\ \A i, j \in 1..Len(Initial) : i # j => Initial[i].id # Initial[j].id
    /\ InitialPolicy \in Policies
    /\ Weights \subseteq Nat
    /\ Outcomes \subseteq PluginOutcomes
    /\ MaxID \in Nat /\ MaxOps \in Nat

VARIABLES
    accounts, nextID,           \* AccountStore
    file,                       \* what save last wrote
    policy, pinnedID, counter,  \* Scheduler
    cooldown,                   \* IDs whose cooldown has not passed
    req,                        \* the requests in handleHTTP
    setting,                    \* setWeight between Get and Update
    ops,                        \* management calls made
    deleted                     \* history: IDs deleted since the start

storeVars == <<accounts, nextID, file>>
schedVars == <<policy, pinnedID, counter, cooldown>>
mgmtVars == <<setting, ops, deleted>>
vars == <<storeVars, schedVars, req, mgmtVars>>

NoOutcome == [kind |-> "Unknown", scope |-> "none", err |-> FALSE, wrote |-> FALSE,
              status |-> FALSE, body |-> FALSE]

\* A request that has not begun.  response lists the writes to the client, each
\* by the accounts whose attempts its bytes come from; an error page has none.
\* used lists the accounts the request was forwarded with.
NewRequest(stream) ==
    [pc |-> "select", stream |-> stream, account |-> 0, attempt |-> 0,
     maxAttempts |-> 0, tried |-> {}, buffer |-> <<>>, outcome |-> NoOutcome,
     used |-> <<>>, response |-> <<>>]

IDs(accs) == {accs[i].id : i \in 1..Len(accs)}

-----------------------------------------------------------------------------
(* AccountStore. *)

\* Mutant of NextIDAfter: load starts again at 1.
NextIDFromOne(accs) == 1

\* load: nextID is one more than the largest ID in the file.
NextIDAfter(accs) == Max({0} \cup IDs(accs)) + 1

Init ==
    /\ file = Initial /\ accounts = Initial /\ nextID = NextIDAfter(Initial)
    /\ policy = InitialPolicy /\ pinnedID = 0 /\ counter = 0 /\ cooldown = {}
    /\ req \in [Requests -> {NewRequest(s) : s \in BOOLEAN}]
    /\ setting = <<>> /\ ops = 0 /\ deleted = {}

\* Every change of the accounts is saved before the lock is released.
Store(accs) ==
    /\ accounts' = accs
    /\ file' = accs

Operation ==
    /\ ops < MaxOps
    /\ ops' = ops + 1

Create(w) ==
    /\ Operation
    /\ nextID <= MaxID
    /\ Store(Append(accounts, [id |-> nextID, weight |-> w]))
    /\ nextID' = nextID + 1
    /\ UNCHANGED <<schedVars, req, setting, deleted>>

\* Mutant of Updated: an account that is gone is put back.
UpdatedOrAdded(id, w) ==
    IF id \in IDs(accounts)
    THEN [i \in 1..Len(accounts) |->
              IF accounts[i].id = id THEN [id |-> id, weight |-> w]
              ELSE accounts[i]]
    ELSE Append(accounts, [id |-> id, weight |-> w])

\* Update replaces the account with this ID, if there still is one.
Updated(id, w) ==
    [i \in 1..Len(accounts) |->
        IF accounts[i].id = id THEN [id |-> id, weight |-> w] ELSE accounts[i]]

Update(id, w) ==
    /\ Operation
    /\ id \in IDs(accounts)
    /\ Store(Updated(id, w))
    /\ UNCHANGED <<nextID, schedVars, req, setting, deleted>>

\* The first account with this ID is cut out.
Delete(id) ==
    /\ Operation
    /\ \E i \in 1..Len(accounts) :
           /\ accounts[i].id = id
           /\ \A j \in 1..(i - 1) : accounts[j].id # id
           /\ Store(RemoveAt(accounts, i))
    /\ deleted' = deleted \cup {id}
    /\ UNCHANGED <<nextID, schedVars, req, setting>>

\* The process restarts: the store is loaded, everything else is lost.
Restart ==
    /\ Operation
    /\ accounts' = file
    /\ nextID' = NextIDAfter(file)
    /\ policy' = InitialPolicy /\ pinnedID' = 0 /\ counter' = 0
    /\ cooldown' = {}
    /\ req' = [r \in Requests |-> [NewRequest(req[r].stream) EXCEPT !.pc = "done"]]
    /\ setting' = <<>>
    /\ deleted' = {}
    /\ UNCHANGED file

-----------------------------------------------------------------------------
(* Scheduler. *)

\* Mutant of WeightOf: an account without a weight gets no slot.
WeightOfRaw(a) == a.weight

\* The slots of an account: a weight that is not positive counts as one.
WeightOf(a) == IF a.weight <= 0 THEN 1 ELSE a.weight

\* A slot is one of the copies of an account that is not cooling; there are as many
\* of them as its weight says.
Slots(accs, cooling) ==
    UNION {{i} \X (1..WeightOf(accs[i])) :
               i \in {j \in 1..Len(accs) : accs[j].id \notin cooling}}

\* The slots are in the order of the accounts, and n of them come before the nth.
Before(p, q) == p[1] < q[1] \/ (p[1] = q[1] /\ p[2] < q[2])
Nth(slots, n) == CHOOSE p \in slots : Cardinality({q \in slots : Before(q, p)}) = n

First == IF accounts = <<>> THEN 0 ELSE accounts[1].id

\* selectWeightedRR: all cooling falls back to the first account.
SelectWeightedRR(n) ==
    LET slots == Slots(accounts, cooldown)
    IN  IF slots = {} THEN First
        ELSE accounts[Nth(slots, n % Cardinality(slots))[1]].id

\* Select: 0 when there is no account.
Select ==
    IF policy = "none"
    THEN IF pinnedID \in IDs(accounts) THEN pinnedID ELSE First
    ELSE SelectWeightedRR(counter)

\* Select moves the round robin on.
Advance ==
    /\ counter' = IF policy # "none" /\ Slots(accounts, cooldown) # {}
                  THEN counter + 1 ELSE counter
    /\ UNCHANGED <<policy, pinnedID, cooldown>>

\* ReportResult: an account fault starts a cooldown, any other verdict ends it.
Reported(id, kind) ==
    IF policy = "none" THEN cooldown
    ELSE IF kind \in {"AccountRateLimited", "AccountDead", "AccountUnavailable"}
         THEN cooldown \cup {id}
         ELSE cooldown \ {id}

\* OutcomeKind.ShouldFailover
ShouldFailover(kind) ==
    kind \in {"AccountRateLimited", "AccountDead", "UpstreamTransient",
              "AccountUnavailable", "AccountQuotaExhausted", "FamilyTransient"}

IsRetryable(o) == policy # "none" /\ (o.err \/ ShouldFailover(o.kind))

CooldownExpires(id) ==
    /\ id \in cooldown
    /\ cooldown' = cooldown \ {id}
    /\ UNCHANGED <<storeVars, policy, pinnedID, counter, req, mgmtVars>>

SetPolicy(p) ==
    /\ Operation
    /\ policy' = p
    /\ UNCHANGED <<storeVars, pinnedID, counter, cooldown, req, setting, deleted>>

\* setPinned accepts 0 and the accounts that exist.
SetPinned(id) ==
    /\ Operation
    /\ id = 0 \/ id \in IDs(accounts)
    /\ pinnedID' = id
    /\ UNCHANGED <<storeVars, policy, counter, cooldown, req, setting, deleted>>

\* setWeight reads the account, and writes the copy back in a second step.
SetWeightGet(id, w) ==
    /\ Operation
    /\ setting = <<>>
    /\ id \in IDs(accounts)
    /\ setting' = <<id, w>>
    /\ UNCHANGED <<storeVars, schedVars, req, deleted>>

SetWeightUpdate ==
    /\ setting # <<>>
    /\ Store(Updated(setting[1], setting[2]))
    /\ setting' = <<>>
    /\ UNCHANGED <<nextID, schedVars, req, ops, deleted>>

-----------------------------------------------------------------------------
(* ProxyHandler.handleHTTP. *)

\* Answers of http.Error.
Page == <<>>
Exhausted == <<0>>  \* "all accounts exhausted"

\* handleHTTP returns: its locals are gone, the client has its answer.
Finish(q, writes) ==
    [NewRequest(q.stream) EXCEPT !.pc = "done", !.account = q.account,
                                 !.used = q.used,
                                 !.response = q.response \o writes]

\* The first selection; without an account the answer is 503.
Begin(r) ==
    /\ req[r].pc = "select"
    /\ req' = [req EXCEPT ![r] =
                  IF Select = 0 THEN Finish(@, <<Page>>)
                  ELSE [@ EXCEPT !.pc = "count", !.account = Select]]
    /\ Advance
    /\ UNCHANGED <<storeVars, mgmtVars>>

\* Mutant of Attempt: one buffer for all attempts.
AttemptSameBuffer(q, id) ==
    [q EXCEPT !.pc = "forward", !.account = id, !.tried = @ \cup {id}]

\* An attempt begins with a buffer of its own.
Attempt(q, id) ==
    [q EXCEPT !.pc = "forward", !.account = id, !.tried = @ \cup {id},
              !.buffer = <<>>]

\* As many attempts as there are accounts now, at least one.
CountAttempts(r) ==
    /\ req[r].pc = "count"
    /\ req' = [req EXCEPT ![r] =
                  [Attempt(@, @.account) EXCEPT
                      !.maxAttempts = Max({1, Len(accounts)})]]
    /\ UNCHANGED <<storeVars, schedVars, mgmtVars>>

\* The plugin's Forward.  A streaming request writes to the client at once.
Forwarded(q, o) ==
    [q EXCEPT !.pc = "report", !.outcome = o,
              !.used = Append(@, q.account),
              !.response = IF o.wrote /\ q.stream THEN Append(@, <<q.account>>) ELSE @,
              !.buffer = IF o.wrote /\ ~q.stream THEN Append(@, q.account) ELSE @]

Forward(r, o) ==
    /\ req[r].pc = "forward"
    /\ req' = [req EXCEPT ![r] = Forwarded(@, o)]
    /\ UNCHANGED <<storeVars, schedVars, mgmtVars>>

ReportResult(r) ==
    /\ req[r].pc = "report"
    /\ cooldown' = Reported(req[r].account, req[r].outcome.kind)
    /\ req' = [req EXCEPT ![r].pc = "decide"]
    /\ UNCHANGED <<storeVars, policy, pinnedID, counter, mgmtVars>>

\* writeForwardOutcome: the outcome's body, or what the plugin wrote.
OutcomeBody(q) == IF q.outcome.body THEN <<q.account>> ELSE q.buffer

\* The loop's condition after attempt++.
MoreAttempts(q) == q.attempt + 1 < q.maxAttempts

\* Retry, or answer: an error without a status is a 502, a streaming response
\* has been written already.
Decide(r) ==
    /\ req[r].pc = "decide"
    /\ LET q == req[r]
           o == req[r].outcome
       IN  req' = [req EXCEPT ![r] =
             IF IsRetryable(o)
             THEN IF MoreAttempts(q)
                  THEN [q EXCEPT !.pc = "reselect", !.attempt = @ + 1]
                  ELSE Finish(q, <<Exhausted>>)
             ELSE IF o.err /\ ~o.status THEN Finish(q, <<Page>>)
             ELSE IF q.stream THEN Finish(q, <<>>)
             ELSE Finish(q, <<OutcomeBody(q)>>)]
    /\ UNCHANGED <<storeVars, schedVars, mgmtVars>>

\* Mutant of MayUse: an account is tried again.
MayUseAny(q, id) == id # 0

\* Failover goes on only with an account this request has not tried.
MayUse(q, id) == id # 0 /\ id \notin q.tried

Reselect(r) ==
    /\ req[r].pc = "reselect"
    /\ req' = [req EXCEPT ![r] =
                  IF MayUse(@, Select) THEN Attempt(@, Select)
                  ELSE Finish(@, <<Exhausted>>)]
    /\ Advance
    /\ UNCHANGED <<storeVars, mgmtVars>>

\* A WebSocket session selects an account once and neither reports nor fails over.
HandleWebSocket ==
    /\ Operation
    /\ Advance
    /\ UNCHANGED <<storeVars, req, setting, deleted>>

-----------------------------------------------------------------------------
Handle(r) ==
    \/ Begin(r) \/ CountAttempts(r) \/ ReportResult(r) \/ Decide(r)
    \/ Reselect(r)
    \/ \E o \in Outcomes : Forward(r, o)

Manage ==
    \/ \E w \in Weights : Create(w)
    \/ \E id \in 1..MaxID, w \in Weights : Update(id, w) \/ SetWeightGet(id, w)
    \/ SetWeightUpdate
    \/ \E id \in 1..MaxID : Delete(id)
    \/ \E p \in Policies : SetPolicy(p)
    \/ \E id \in 0..MaxID : SetPinned(id)

Next ==
    \/ \E r \in Requests : Handle(r)
    \/ HandleWebSocket
    \/ Manage
    \/ Restart
    \/ \E id \in 1..MaxID : CooldownExpires(id)

Spec == Init /\ [][Next]_vars
-----------------------------------------------------------------------------
(* Properties. *)

\* A request is never forwarded twice with the same account, whatever happens to
\* accounts, policy and cooldowns while it fails over. (tried in handleHTTP)
TriedOnce ==
    \A r \in Requests : \A i, j \in 1..Len(req[r].used) :
        i # j => req[r].used[i] # req[r].used[j]

\* A client that does not stream gets one answer, and no byte of an attempt that
\* was failed over. (a devBufferWriter for each attempt)
SingleResponse ==
    \A r \in Requests : ~req[r].stream =>
        /\ Len(req[r].response) <= 1
        /\ \A i \in 1..Len(req[r].response) :
               ToSet(req[r].response[i]) \subseteq {0, req[r].account}

\* Account IDs stay distinct through creations, deletions and restarts.
\* (nextID, and load's recomputation of it)
UniqueIDs ==
    /\ \A i, j \in 1..Len(accounts) : i # j => accounts[i].id # accounts[j].id
    /\ \A i \in 1..Len(accounts) : accounts[i].id < nextID

\* A deleted account does not come back in the life of the process: neither the
\* late second half of a setWeight nor a new account takes its ID. (Update, Create)
DeletedStaysDeleted == deleted \cap IDs(accounts) = {}

\* In a full turn of the counter every account that is not cooling is selected as
\* often as its weight says, and never less than once. (selectWeightedRR)
WeightedShare ==
    LET total == Cardinality(Slots(accounts, cooldown))
    IN  total > 0 => \A i \in 1..Len(accounts) :
            accounts[i].id \notin cooldown =>
                Cardinality({n \in counter..(counter + total - 1) :
                                 SelectWeightedRR(n) = accounts[i].id})
                    = Max({1, accounts[i].weight})

\* What OutcomeStreamAborted says: "cannot fail over, the bytes are out"; and what
\* FailoverScopeTerminal says: it "forbids replay even when the outcome is
\* transient". After either verdict the request is not forwarded again.
ReplayForbidden ==
    \A r \in Requests :
        \/ req[r].outcome.kind = "StreamAborted"
        \/ req[r].outcome.scope = "terminal"
        => req[r].pc # "reselect"
=============================================================================
