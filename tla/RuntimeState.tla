----------------------------- MODULE RuntimeState -----------------------------
(***************************************************************************)
(* Runtime state shared by plugin processes: the optimistic concurrency of *)
(* RuntimeStateClient (Get, compute, CompareAndSwap, retry) against the    *)
(* versioned store of the Host, one key.                                   *)
(*                                                                         *)
(* The Host executes each request atomically; its reply, or the request    *)
(* itself, may be lost, which the client sees as an error.  A value is the *)
(* sequence of the updates applied to it, so a lost update shows; the      *)
(* version of an absent value is 0, again after every removal.             *)
(***************************************************************************)
EXTENDS Integers, Sequences

CONSTANTS
    Clients,      \* plugin goroutines and processes that use the key
    MaxAttempts,  \* Update's retry budget, 16 in the code
    MaxCalls      \* bound: calls that change the key, per client

ASSUME RuntimeStateAssumption ==
    /\ MaxAttempts \in Nat \ {0}
    /\ MaxCalls \in Nat

VARIABLES
    values, versions, sequence,  \* the Host's entry for the key
    pc, op,                      \* where each client is, and in which call
    old, version,                \* what its last Get returned
    attempt,                     \* Update's loop counter
    result,                      \* how its last call ended
    calls,                       \* calls begun
    changes,                     \* history: changes of the entry so far
    since,                       \* history: changes when the call began
    applied,                     \* history: effects of the current call
    taken                        \* history: versions handed out by Take

hostVars == <<values, versions, sequence>>
clientVars == <<pc, op, old, version, attempt, result, calls>>
history == <<changes, since, applied, taken>>
vars == <<hostVars, clientVars, history>>

TypeOK ==
    /\ values \in Seq(Clients) /\ versions \in Nat /\ sequence \in Nat
    /\ pc \in [Clients -> {"idle", "get", "cas", "wait", "delete"}]
    /\ op \in [Clients -> {"none", "Update", "Store", "Delete", "Take"}]
    /\ old \in [Clients -> Seq(Clients)] /\ version \in [Clients -> Nat]
    /\ attempt \in [Clients -> 0..MaxAttempts] /\ calls \in [Clients -> Nat]
    /\ result \in [Clients -> {"none", "ok", "error", "contention"}]
    /\ changes \in Nat /\ since \in [Clients -> Nat]
    /\ applied \in [Clients -> Nat] /\ taken \in Seq(Nat)

Init ==
    /\ values = <<>> /\ versions = 0 /\ sequence = 0
    /\ pc = [c \in Clients |-> "idle"] /\ op = [c \in Clients |-> "none"]
    /\ old = [c \in Clients |-> <<>>] /\ version = [c \in Clients |-> 0]
    /\ attempt = [c \in Clients |-> 0] /\ calls = [c \in Clients |-> 0]
    /\ result = [c \in Clients |-> "none"]
    /\ changes = 0 /\ since = [c \in Clients |-> 0]
    /\ applied = [c \in Clients |-> 0] /\ taken = <<>>

-----------------------------------------------------------------------------
(* The Host. *)

Unchanged == UNCHANGED <<hostVars, changes>>

\* Mutant of Swap: the version follows the entry, not one global sequence.
SwapPerEntry(v) ==
    /\ values' = v
    /\ versions' = versions + 1
    /\ sequence' = sequence + 1
    /\ changes' = changes + 1

\* cas with the current version
Swap(v) ==
    /\ values' = v
    /\ versions' = sequence + 1
    /\ sequence' = sequence + 1
    /\ changes' = changes + 1

\* delete and take: an entry that is absent stays so.
Drop ==
    /\ values' = <<>>
    /\ versions' = 0
    /\ changes' = IF versions = 0 THEN changes ELSE changes + 1
    /\ UNCHANGED sequence

\* The Host's entries expire.
Expire ==
    /\ versions # 0
    /\ Drop
    /\ UNCHANGED <<clientVars, since, applied, taken>>

-----------------------------------------------------------------------------
(* A client's calls. *)

Begin(c, o) ==
    /\ pc[c] = "idle"
    /\ calls[c] < MaxCalls
    /\ calls' = [calls EXCEPT ![c] = @ + 1]
    /\ op' = [op EXCEPT ![c] = o]
    /\ pc' = [pc EXCEPT ![c] = "get"]
    /\ attempt' = [attempt EXCEPT ![c] = 0]
    /\ result' = [result EXCEPT ![c] = "none"]
    /\ since' = [since EXCEPT ![c] = changes]
    /\ applied' = [applied EXCEPT ![c] = 0]
    /\ UNCHANGED <<hostVars, old, version, changes, taken>>

\* The call returns.
End(c, r) ==
    /\ pc' = [pc EXCEPT ![c] = "idle"]
    /\ result' = [result EXCEPT ![c] = r]

\* Get, the first step of Update, Store and Delete.  Delete of an absent value
\* is done with it.
Get(c) ==
    /\ pc[c] = "get" /\ op[c] # "Take"
    /\ old' = [old EXCEPT ![c] = values]
    /\ version' = [version EXCEPT ![c] = versions]
    /\ \/ /\ op[c] = "Delete" /\ versions = 0
          /\ End(c, "ok")
       \/ /\ op[c] = "Delete" /\ versions # 0
          /\ pc' = [pc EXCEPT ![c] = "delete"]
          /\ UNCHANGED result
       \/ /\ op[c] \in {"Update", "Store"}
          /\ pc' = [pc EXCEPT ![c] = "cas"]
          /\ UNCHANGED result
    /\ UNCHANGED <<hostVars, op, attempt, calls, history>>

\* Mutant of NewValue: nothing is kept of the old value.
NewValueBlind(c) == <<c>>

\* update(old); Store's function ignores the old value.
NewValue(c) == IF op[c] = "Store" THEN <<c>> ELSE Append(old[c], c)

\* Mutant of VersionHolds: the Host compares values.
VersionHoldsAlways(c) == TRUE

\* The Host's test in cas and delete.
VersionHolds(c) == version[c] = versions

CompareAndSwap(c) ==
    /\ pc[c] = "cas"
    /\ VersionHolds(c)
    /\ Swap(NewValue(c))
    /\ applied' = [applied EXCEPT ![c] = @ + 1]
    /\ End(c, "ok")
    /\ UNCHANGED <<op, old, version, attempt, calls, since, taken>>

CompareAndSwapFails(c) ==
    /\ pc[c] = "cas"
    /\ ~VersionHolds(c)
    /\ pc' = [pc EXCEPT ![c] = "wait"]
    /\ Unchanged
    /\ UNCHANGED <<op, old, version, attempt, result, calls, since, applied,
                   taken>>

\* Mutant of AfterWait: the retry reuses the version it has.
AfterWaitStale == "cas"

\* Where the loop goes on.
AfterWait == "get"

\* Mutant of MoreAttempts: one attempt too many.
MoreAttemptsInclusive(c) == attempt[c] < MaxAttempts

\* The loop's condition after attempt++.
MoreAttempts(c) == attempt[c] + 1 < MaxAttempts

\* The timer of the back-off fires: next attempt, or the budget is used up.
Retry(c) ==
    /\ pc[c] = "wait"
    /\ attempt' = [attempt EXCEPT ![c] = @ + 1]
    /\ \/ /\ MoreAttempts(c)
          /\ pc' = [pc EXCEPT ![c] = AfterWait]
          /\ UNCHANGED result
       \/ /\ ~MoreAttempts(c)
          /\ End(c, "contention")
    /\ UNCHANGED <<hostVars, op, old, version, calls, history>>

\* The second step of Delete: a changed entry is left alone.
Delete(c) ==
    /\ pc[c] = "delete"
    /\ IF VersionHolds(c) THEN Drop ELSE Unchanged
    /\ End(c, "ok")
    /\ UNCHANGED <<op, old, version, attempt, calls, since, applied, taken>>

Taken(v) == taken' = IF v = 0 THEN taken ELSE Append(taken, v)

\* Mutant of TakeEffect: take answers and removes nothing.
TakeEffectNone == UNCHANGED <<hostVars, changes>>

TakeEffect == Drop

\* Take is one request: it answers with the value and removes it.
Take(c) ==
    /\ pc[c] = "get" /\ op[c] = "Take"
    /\ TakeEffect
    /\ Taken(versions)
    /\ End(c, "ok")
    /\ UNCHANGED <<op, old, version, attempt, calls, since, applied>>

\* Mutant of AfterError: a failed cas is repeated like a refused one.
AfterErrorRetries(c) ==
    /\ pc' = [pc EXCEPT ![c] = IF pc[c] = "cas" THEN "wait" ELSE "idle"]
    /\ result' = [result EXCEPT ![c] = IF pc[c] = "cas" THEN "none" ELSE "error"]

\* An error of Invoke ends the call.
AfterError(c) == End(c, "error")

\* Invoke fails, or the context ends during the back-off: the Host has done
\* nothing, or has done all of it and the reply is lost.
Fails(c) ==
    /\ pc[c] # "idle"
    /\ AfterError(c)
    /\ \/ Unchanged /\ UNCHANGED applied
       \/ /\ pc[c] = "cas" /\ VersionHolds(c)
          /\ Swap(NewValue(c))
          /\ applied' = [applied EXCEPT ![c] = @ + 1]
       \/ /\ \/ pc[c] = "delete" /\ VersionHolds(c)
             \/ pc[c] = "get" /\ op[c] = "Take"
          /\ Drop
          /\ UNCHANGED applied
    /\ UNCHANGED <<op, old, version, attempt, calls, since, taken>>

-----------------------------------------------------------------------------
Step(c) ==
    \/ Get(c) \/ CompareAndSwap(c) \/ CompareAndSwapFails(c) \/ Retry(c)
    \/ Delete(c) \/ Take(c)

Next ==
    \/ \E c \in Clients :
           \/ Step(c) \/ Fails(c)
           \/ \E o \in {"Update", "Store", "Delete", "Take"} : Begin(c, o)
    \/ Expire

Spec == Init /\ [][Next]_vars
-----------------------------------------------------------------------------
(* Properties. *)

Atomic == INSTANCE AtomicState WITH value <- values

\* However reads, swaps, removals, expiry and lost replies interleave, the value
\* only ever changes by one whole update of the value it replaces, although the
\* version of an absent value is used again and again. (Update's loop, cas)
ImplementsAtomicState == Atomic!Spec

\* A call takes effect at most once; one that reports success did, one that gave
\* up under contention did not. An error is never repeated, because the effect may
\* have happened. (Update returns on every error)
AppliedOnce ==
    \A c \in Clients :
        /\ applied[c] <= 1
        /\ op[c] \in {"Update", "Store"} /\ result[c] = "ok" => applied[c] = 1
        /\ result[c] = "contention" => applied[c] = 0

\* A call gives up only when the entry really changed under each of its attempts.
\* (Update reads again before every attempt)
ContentionIsReal ==
    \A c \in Clients :
        result[c] = "contention" => changes - since[c] >= MaxAttempts

\* Take hands out one stored value at most once, to one plugin generation.
TakenOnce ==
    \A i, j \in 1..Len(taken) : i # j => taken[i] # taken[j]
=============================================================================
