-------------------------- MODULE RuntimeStateProofs --------------------------
(***************************************************************************)
(* Proofs about RuntimeState, for any number of clients, any retry budget  *)
(* and any number of calls.                                                *)
(*                                                                         *)
(* The argument: versions come from one sequence, so a version a client    *)
(* holds names at most one value (Fresh, SameVersion), although the        *)
(* version 0 of an absent value comes back after every removal.  Hence a   *)
(* cas that the Host accepts replaces the very value the new one was       *)
(* computed from, which is the refinement of AtomicState.                  *)
(***************************************************************************)
EXTENDS RuntimeState, TLAPS

-----------------------------------------------------------------------------
(* The inductive invariant. *)

\* Nothing has a version the Host has not given out yet.
Fresh ==
    /\ versions <= sequence
    /\ \A c \in Clients : version[c] <= sequence

\* A version stands for one value; 0 stands for the absent one.
SameVersion ==
    /\ versions = 0 => values = <<>>
    /\ \A c \in Clients :
           /\ version[c] = 0 => old[c] = <<>>
           /\ version[c] = versions => old[c] = values

\* A call under way has had no effect and has no result yet, and has attempts
\* left; where it is says which call it is.
CallState ==
    \A c \in Clients :
        /\ pc[c] # "idle" =>
               /\ applied[c] = 0 /\ result[c] = "none"
               /\ attempt[c] < MaxAttempts
        /\ pc[c] \in {"cas", "wait"} => op[c] \in {"Update", "Store"}
        /\ pc[c] = "delete" => op[c] = "Delete"

\* The entry has changed once for every attempt that failed, and once more if the
\* current one is going to.
ChangesSeen ==
    \A c \in Clients :
        /\ since[c] <= changes
        /\ pc[c] # "idle" => changes - since[c] >= attempt[c]
        /\ \/ pc[c] = "wait"
           \/ pc[c] = "cas" /\ version[c] # versions
           => changes - since[c] >= attempt[c] + 1

\* What Take handed out is neither stored nor going to be.
TakenIsGone ==
    \A i \in 1..Len(taken) :
        /\ taken[i] <= sequence
        /\ taken[i] # 0 /\ taken[i] # versions

IInv ==
    /\ TypeOK
    /\ Fresh
    /\ SameVersion
    /\ CallState
    /\ ChangesSeen
    /\ TakenIsGone
    /\ AppliedOnce
    /\ ContentionIsReal
    /\ TakenOnce

-----------------------------------------------------------------------------
(* The effect a step has on the entry. *)

\* A client's cas was accepted.
Swapped == \E c \in Clients :
    pc[c] = "cas" /\ VersionHolds(c) /\ Swap(NewValue(c))

\* Every step that touches the entry swaps it, drops it or leaves it, whether the
\* client hears of it or not: the Host's request handlers and expiry.
LEMMA HostStep ==
    ASSUME Next
    PROVE  Swapped \/ Drop \/ Unchanged
<1>1. CASE Expire
  BY <1>1 DEF Expire
<1>2. ASSUME NEW c \in Clients, Step(c) PROVE Swapped \/ Drop \/ Unchanged
  BY <1>2 DEF Step, Get, CompareAndSwap, CompareAndSwapFails, Retry, Delete,
     Take, TakeEffect, Swapped, Unchanged, history
<1>3. ASSUME NEW c \in Clients, Fails(c) PROVE Swapped \/ Drop \/ Unchanged
  BY <1>3 DEF Fails, Swapped
<1>4. ASSUME NEW c \in Clients, NEW o \in {"Update", "Store", "Delete", "Take"},
             Begin(c, o)
      PROVE  Unchanged
  BY <1>4 DEF Begin, Unchanged
<1> QED
  BY <1>1, <1>2, <1>3, <1>4 DEF Next

\* A new value is a sequence of updates.
LEMMA NewValueType ==
    ASSUME TypeOK, NEW c \in Clients
    PROVE  NewValue(c) \in Seq(Clients) /\ NewValue(c) # <<>>
<1>1. old[c] \in Seq(Clients)
  BY DEF TypeOK
<1>2. <<c>> \in Seq(Clients) /\ Append(old[c], c) \in Seq(Clients)
  BY <1>1
<1>3. Append(old[c], c) # <<>> /\ <<c>> # <<>>
  BY <1>1
<1> QED
  BY <1>2, <1>3 DEF NewValue

\* What a step does to the entry keeps its type and never takes the sequence or
\* the count of changes back.
LEMMA HostType ==
    ASSUME TypeOK, Next
    PROVE  /\ values' \in Seq(Clients) /\ versions' \in Nat /\ sequence' \in Nat
           /\ changes' \in Nat
           /\ sequence' >= sequence /\ changes' >= changes
           /\ versions' # versions => changes' = changes + 1
<1>1. values \in Seq(Clients) /\ versions \in Nat /\ sequence \in Nat
      /\ changes \in Nat
  BY DEF TypeOK
<1>2. CASE Swapped
  <2>1. PICK c \in Clients : Swap(NewValue(c))
    BY <1>2 DEF Swapped
  <2> QED
    BY <2>1, <1>1, NewValueType DEF Swap
<1>3. CASE Drop
  BY <1>3, <1>1 DEF Drop
<1>4. CASE Unchanged
  BY <1>4, <1>1 DEF Unchanged, hostVars
<1> QED
  BY <1>2, <1>3, <1>4, HostStep

-----------------------------------------------------------------------------
(* Preservation of each part. *)

\* Type correctness, action by action: the client's bookkeeping.
LEMMA TypeStep ==
    ASSUME TypeOK, CallState, Next
    PROVE  TypeOK'
<1> USE RuntimeStateAssumption
<1>0. /\ values' \in Seq(Clients) /\ versions' \in Nat /\ sequence' \in Nat
      /\ changes' \in Nat
  BY HostType
<1>1. CASE Expire
  BY <1>1, <1>0 DEF Expire, TypeOK, clientVars
<1>2. ASSUME NEW c \in Clients, Get(c) PROVE TypeOK'
  <2>1. old' \in [Clients -> Seq(Clients)] /\ version' \in [Clients -> Nat]
    BY <1>2 DEF Get, TypeOK
  <2>2. /\ pc' \in [Clients -> {"idle", "get", "cas", "wait", "delete"}]
        /\ result' \in [Clients -> {"none", "ok", "error", "contention"}]
    BY <1>2 DEF Get, TypeOK, End
  <2> QED
    BY <1>2, <1>0, <2>1, <2>2 DEF Get, TypeOK, hostVars, history
<1>3. ASSUME NEW c \in Clients, CompareAndSwap(c) PROVE TypeOK'
  <2>1. applied' \in [Clients -> Nat]
    BY <1>3 DEF CompareAndSwap, TypeOK
  <2> QED
    BY <1>3, <1>0, <2>1 DEF CompareAndSwap, TypeOK, End
<1>4. ASSUME NEW c \in Clients, CompareAndSwapFails(c) PROVE TypeOK'
  BY <1>4, <1>0 DEF CompareAndSwapFails, TypeOK
<1>5. ASSUME NEW c \in Clients, Retry(c) PROVE TypeOK'
  <2>1. attempt[c] \in Nat /\ attempt[c] < MaxAttempts
    BY <1>5 DEF Retry, TypeOK, CallState
  <2>2. attempt' \in [Clients -> 0..MaxAttempts]
    BY <1>5, <2>1 DEF Retry, TypeOK
  <2> QED
    BY <1>5, <1>0, <2>2 DEF Retry, TypeOK, End, AfterWait, hostVars, history
<1>6. ASSUME NEW c \in Clients, Delete(c) PROVE TypeOK'
  BY <1>6, <1>0 DEF Delete, TypeOK, End
<1>7. ASSUME NEW c \in Clients, Take(c) PROVE TypeOK'
  <2>1. taken' \in Seq(Nat)
    BY <1>7 DEF Take, Taken, TypeOK
  <2> QED
    BY <1>7, <1>0, <2>1 DEF Take, TypeOK, End
<1>8. ASSUME NEW c \in Clients, Fails(c) PROVE TypeOK'
  <2>1. applied' \in [Clients -> Nat]
    BY <1>8 DEF Fails, TypeOK
  <2> QED
    BY <1>8, <1>0, <2>1 DEF Fails, AfterError, TypeOK, End
<1>9. ASSUME NEW c \in Clients, NEW o \in {"Update", "Store", "Delete", "Take"},
             Begin(c, o)
      PROVE  TypeOK'
  <2>1. /\ pc' \in [Clients -> {"idle", "get", "cas", "wait", "delete"}]
        /\ op' \in [Clients -> {"none", "Update", "Store", "Delete", "Take"}]
        /\ result' \in [Clients -> {"none", "ok", "error", "contention"}]
    BY <1>9 DEF Begin, TypeOK
  <2>2. /\ attempt' \in [Clients -> 0..MaxAttempts]
        /\ calls' \in [Clients -> Nat] /\ since' \in [Clients -> Nat]
        /\ applied' \in [Clients -> Nat]
    BY <1>9 DEF Begin, TypeOK
  <2> QED
    BY <1>9, <1>0, <2>1, <2>2 DEF Begin, TypeOK
<1> QED
  BY <1>1, <1>2, <1>3, <1>4, <1>5, <1>6, <1>7, <1>8, <1>9 DEF Next, Step

\* What a client holds changes only when it reads the entry.
LEMMA ReadStep ==
    ASSUME TypeOK, Next
    PROVE  \/ UNCHANGED <<old, version>>
           \/ \E c \in Clients :
                  /\ Get(c)
                  /\ UNCHANGED hostVars
                  /\ old' = [old EXCEPT ![c] = values]
                  /\ version' = [version EXCEPT ![c] = versions]
<1>1. CASE Expire
  BY <1>1 DEF Expire, clientVars
<1>2. ASSUME NEW c \in Clients, Get(c)
      PROVE  /\ UNCHANGED hostVars
             /\ old' = [old EXCEPT ![c] = values]
             /\ version' = [version EXCEPT ![c] = versions]
  BY <1>2 DEF Get
<1>3. ASSUME NEW c \in Clients, Step(c), ~Get(c) PROVE UNCHANGED <<old, version>>
  BY <1>3 DEF Step, CompareAndSwap, CompareAndSwapFails, Retry, Delete, Take
<1>4. ASSUME NEW c \in Clients, Fails(c) PROVE UNCHANGED <<old, version>>
  BY <1>4 DEF Fails
<1>5. ASSUME NEW c \in Clients, NEW o \in {"Update", "Store", "Delete", "Take"},
             Begin(c, o)
      PROVE  UNCHANGED <<old, version>>
  BY <1>5 DEF Begin
<1> QED
  BY <1>1, <1>2, <1>3, <1>4, <1>5 DEF Next

\* No step lets two values share a version.
LEMMA VersionStep ==
    ASSUME TypeOK, Fresh, SameVersion, Next
    PROVE  Fresh' /\ SameVersion'
<1>1. CASE UNCHANGED <<old, version>>
  <2>1. CASE Swapped
    <3>1. PICK c \in Clients : Swap(NewValue(c))
      BY <2>1 DEF Swapped
    <3>2. /\ versions' = sequence + 1 /\ sequence' = sequence + 1
          /\ sequence \in Nat
      BY <3>1 DEF Swap, TypeOK
    <3>3. \A d \in Clients : /\ version'[d] = version[d] /\ old'[d] = old[d]
                             /\ version[d] \in Nat /\ version[d] <= sequence
      BY <1>1 DEF TypeOK, Fresh
    <3>4. versions' # 0 /\ \A d \in Clients : version'[d] # versions'
      BY <3>2, <3>3
    <3> QED
      BY <3>2, <3>3, <3>4 DEF Fresh, SameVersion
  <2>2. CASE Drop
    BY <1>1, <2>2 DEF Drop, TypeOK, Fresh, SameVersion
  <2>3. CASE Unchanged
    BY <1>1, <2>3 DEF Unchanged, hostVars, TypeOK, Fresh, SameVersion
  <2> QED
    BY <2>1, <2>2, <2>3, HostStep
<1>2. ASSUME NEW c \in Clients, UNCHANGED hostVars,
             old' = [old EXCEPT ![c] = values],
             version' = [version EXCEPT ![c] = versions]
      PROVE  Fresh' /\ SameVersion'
  BY <1>2 DEF hostVars, TypeOK, Fresh, SameVersion
<1> QED
  BY <1>1, <1>2, ReadStep

\* Only the client that acts moves its call on.
LEMMA CallStep ==
    ASSUME TypeOK, CallState, AppliedOnce, Next
    PROVE  CallState' /\ AppliedOnce'
<1> USE RuntimeStateAssumption
<1>1. CASE Expire
  BY <1>1 DEF Expire, clientVars, CallState, AppliedOnce
<1>2. ASSUME NEW c \in Clients, Get(c) PROVE CallState' /\ AppliedOnce'
  <2>1. UNCHANGED <<op, attempt, applied>> /\ applied[c] = 0 /\ result[c] = "none"
    BY <1>2 DEF Get, history, CallState
  <2>2. \/ /\ op[c] = "Delete"
           /\ pc' = [pc EXCEPT ![c] = "idle"]
           /\ result' = [result EXCEPT ![c] = "ok"]
        \/ /\ op[c] = "Delete"
           /\ pc' = [pc EXCEPT ![c] = "delete"]
           /\ UNCHANGED result
        \/ /\ op[c] \in {"Update", "Store"}
           /\ pc' = [pc EXCEPT ![c] = "cas"]
           /\ UNCHANGED result
    BY <1>2 DEF Get, End
  <2>3. pc[c] = "get"
    BY <1>2 DEF Get
  <2>4. AppliedOnce'
    BY <2>1, <2>2 DEF TypeOK, AppliedOnce
  <2>5. CallState'
    BY <2>1, <2>2, <2>3 DEF TypeOK, CallState
  <2> QED
    BY <2>4, <2>5
<1>3. ASSUME NEW c \in Clients, CompareAndSwap(c) PROVE CallState' /\ AppliedOnce'
  BY <1>3 DEF CompareAndSwap, End, TypeOK, CallState, AppliedOnce
<1>4. ASSUME NEW c \in Clients, CompareAndSwapFails(c)
      PROVE  CallState' /\ AppliedOnce'
  BY <1>4 DEF CompareAndSwapFails, TypeOK, CallState, AppliedOnce
<1>5. ASSUME NEW c \in Clients, Retry(c) PROVE CallState' /\ AppliedOnce'
  <2>1. /\ attempt[c] \in Nat /\ applied[c] = 0 /\ result[c] = "none"
        /\ pc[c] = "wait"
    BY <1>5 DEF Retry, TypeOK, CallState
  <2>2. AppliedOnce'
    BY <1>5, <2>1 DEF Retry, End, history, TypeOK, AppliedOnce
  <2>3. CallState'
    BY <1>5, <2>1 DEF Retry, MoreAttempts, AfterWait, End, history, TypeOK,
       CallState
  <2> QED
    BY <2>2, <2>3
<1>6. ASSUME NEW c \in Clients, Delete(c) PROVE CallState' /\ AppliedOnce'
  BY <1>6 DEF Delete, End, TypeOK, CallState, AppliedOnce
<1>7. ASSUME NEW c \in Clients, Take(c) PROVE CallState' /\ AppliedOnce'
  BY <1>7 DEF Take, End, TypeOK, CallState, AppliedOnce
<1>8. ASSUME NEW c \in Clients, Fails(c) PROVE CallState' /\ AppliedOnce'
  <2>1. pc' = [pc EXCEPT ![c] = "idle"] /\ result' = [result EXCEPT ![c] = "error"]
    BY <1>8 DEF Fails, AfterError, End
  <2>2. UNCHANGED <<op, attempt>> /\ applied[c] = 0
    BY <1>8 DEF Fails, CallState
  <2>3. \/ UNCHANGED applied
        \/ applied' = [applied EXCEPT ![c] = @ + 1]
    BY <1>8 DEF Fails
  <2>4. \A d \in Clients : applied'[d] <= 1 /\ (d # c => applied'[d] = applied[d])
    BY <2>2, <2>3 DEF TypeOK, AppliedOnce
  <2>5. AppliedOnce'
    BY <2>1, <2>2, <2>4 DEF TypeOK, AppliedOnce
  <2>6. CallState'
    BY <2>1, <2>2, <2>4 DEF TypeOK, CallState
  <2> QED
    BY <2>5, <2>6
<1>9. ASSUME NEW c \in Clients, NEW o \in {"Update", "Store", "Delete", "Take"},
             Begin(c, o)
      PROVE  CallState' /\ AppliedOnce'
  BY <1>9 DEF Begin, TypeOK, CallState, AppliedOnce
<1> QED
  BY <1>1, <1>2, <1>3, <1>4, <1>5, <1>6, <1>7, <1>8, <1>9 DEF Next, Step

\* What Take handed out stays handed out.
LEMMA TakenStep ==
    ASSUME TypeOK, Fresh, TakenIsGone, TakenOnce, Next
    PROVE  TakenIsGone' /\ TakenOnce'
<1> USE DEF TakenIsGone, TakenOnce
<1>1. CASE UNCHANGED taken
  <2>1. TakenOnce'
    BY <1>1
  <2>2. CASE Swapped
    <3>1. PICK c \in Clients : Swap(NewValue(c))
      BY <2>2 DEF Swapped
    <3>2. versions' = sequence + 1 /\ sequence' = sequence + 1
      BY <3>1 DEF Swap
    <3>3. sequence \in Nat /\ taken \in Seq(Nat)
      BY DEF TypeOK
    <3>4. \A i \in 1..Len(taken) : taken[i] \in Nat /\ taken[i] <= sequence
      BY <3>3
    <3> QED
      BY <1>1, <2>1, <3>2, <3>3, <3>4
  <2>3. CASE Drop
    BY <1>1, <2>1, <2>3 DEF Drop, TypeOK
  <2>4. CASE Unchanged
    BY <1>1, <2>1, <2>4 DEF Unchanged, hostVars
  <2> QED
    BY <2>2, <2>3, <2>4, HostStep
<1>2. ASSUME NEW c \in Clients, Take(c), taken' # taken
      PROVE  TakenIsGone' /\ TakenOnce'
  <2>1. /\ taken' = Append(taken, versions) /\ versions # 0 /\ versions' = 0
        /\ sequence' = sequence
    BY <1>2 DEF Take, Taken, TakeEffect, Drop
  <2>2. taken \in Seq(Nat) /\ versions \in Nat /\ sequence \in Nat
    BY DEF TypeOK
  <2>3. Len(taken') = Len(taken) + 1 /\ Len(taken) \in Nat
    BY <2>1, <2>2
  <2>4. \A i \in 1..Len(taken') :
            \/ i \in 1..Len(taken) /\ taken'[i] = taken[i]
            \/ i = Len(taken) + 1 /\ taken'[i] = versions
    BY <2>1, <2>2, <2>3
  <2>5. \A i \in 1..Len(taken) :
            taken[i] # versions /\ taken[i] # 0 /\ taken[i] <= sequence
    OBVIOUS
  <2>6. TakenOnce'
    BY <2>4, <2>5
  <2>7. TakenIsGone'
    BY <2>1, <2>2, <2>4, <2>5 DEF Fresh
  <2> QED
    BY <2>6, <2>7
<1>3. ASSUME NEW c \in Clients, ~Take(c), Step(c) PROVE UNCHANGED taken
  BY <1>3 DEF Step, Get, CompareAndSwap, CompareAndSwapFails, Retry, Delete, history
<1>4. ASSUME NEW c \in Clients, Fails(c) PROVE UNCHANGED taken
  BY <1>4 DEF Fails
<1>5. ASSUME NEW c \in Clients, NEW o \in {"Update", "Store", "Delete", "Take"},
             Begin(c, o)
      PROVE  UNCHANGED taken
  BY <1>5 DEF Begin
<1>6. CASE Expire
  BY <1>1, <1>6 DEF Expire
<1> QED
  BY <1>1, <1>2, <1>3, <1>4, <1>5, <1>6 DEF Next

\* The clients a step does not move.
Still(d) ==
    /\ pc'[d] = pc[d] /\ version'[d] = version[d] /\ attempt'[d] = attempt[d]
    /\ since'[d] = since[d] /\ result'[d] = result[d]

\* What ChangesSeen and ContentionIsReal say of one client.
Seen(d) ==
    /\ since[d] <= changes
    /\ pc[d] # "idle" => changes - since[d] >= attempt[d]
    /\ \/ pc[d] = "wait"
       \/ pc[d] = "cas" /\ version[d] # versions
       => changes - since[d] >= attempt[d] + 1
    /\ result[d] = "contention" => changes - since[d] >= MaxAttempts

\* A client that does nothing only sees the entry change more often.
LEMMA StillSeen ==
    ASSUME TypeOK, Next, NEW d \in Clients, Still(d), Seen(d)
    PROVE  Seen(d)'
<1>1. /\ changes \in Nat /\ changes' \in Nat /\ changes' >= changes
      /\ versions' # versions => changes' = changes + 1
  BY HostType DEF TypeOK
<1>2. since[d] \in Nat /\ attempt[d] \in Nat
  BY DEF TypeOK
<1> QED
  BY <1>1, <1>2, RuntimeStateAssumption DEF Still, Seen

\* Every failed attempt has seen a change of its own.
LEMMA ChangesStep ==
    ASSUME TypeOK, CallState, ChangesSeen, ContentionIsReal, Next
    PROVE  ChangesSeen' /\ ContentionIsReal'
<1> USE RuntimeStateAssumption
<1>0. \A d \in Clients : Seen(d)
  BY DEF ChangesSeen, ContentionIsReal, Seen
<1>T. /\ changes \in Nat /\ changes' \in Nat /\ changes' >= changes
      /\ versions' # versions => changes' = changes + 1
  BY HostType DEF TypeOK
<1>C. \A d \in Clients : since[d] \in Nat /\ attempt[d] \in Nat
  BY DEF TypeOK
<1> SUFFICES ASSUME NEW d \in Clients PROVE Seen(d)'
  BY DEF ChangesSeen, ContentionIsReal, Seen
<1>1. CASE Expire
  BY <1>0, <1>1, StillSeen DEF Expire, clientVars, Still
<1>2. ASSUME NEW c \in Clients, Get(c) PROVE Seen(d)'
  <2>1. CASE d # c
    BY <1>0, <1>2, <2>1, StillSeen DEF Get, End, history, Still, TypeOK
  <2>2. CASE d = c
    BY <1>0, <1>2, <1>T, <1>C, <2>2
    DEF Get, End, history, hostVars, TypeOK, CallState, Seen
  <2> QED
    BY <2>1, <2>2
<1>3. ASSUME NEW c \in Clients, CompareAndSwap(c) PROVE Seen(d)'
  <2>1. CASE d # c
    BY <1>0, <1>3, <2>1, StillSeen DEF CompareAndSwap, End, Still, TypeOK
  <2>2. CASE d = c
    BY <1>0, <1>3, <1>T, <1>C, <2>2 DEF CompareAndSwap, End, TypeOK, Seen
  <2> QED
    BY <2>1, <2>2
<1>4. ASSUME NEW c \in Clients, CompareAndSwapFails(c) PROVE Seen(d)'
  <2>1. CASE d # c
    BY <1>0, <1>4, <2>1, StillSeen DEF CompareAndSwapFails, Still, TypeOK
  <2>2. CASE d = c
    BY <1>0, <1>4, <1>T, <1>C, <2>2
    DEF CompareAndSwapFails, VersionHolds, Unchanged, hostVars, TypeOK, Seen
  <2> QED
    BY <2>1, <2>2
<1>5. ASSUME NEW c \in Clients, Retry(c) PROVE Seen(d)'
  <2>1. CASE d # c
    BY <1>0, <1>5, <2>1, StillSeen DEF Retry, End, history, Still, TypeOK
  <2>2. CASE d = c
    BY <1>0, <1>5, <1>T, <1>C, <2>2
    DEF Retry, End, AfterWait, MoreAttempts, history, TypeOK, CallState, Seen
  <2> QED
    BY <2>1, <2>2
<1>6. ASSUME NEW c \in Clients, Delete(c) PROVE Seen(d)'
  <2>1. CASE d # c
    BY <1>0, <1>6, <2>1, StillSeen DEF Delete, End, Still, TypeOK
  <2>2. CASE d = c
    BY <1>0, <1>6, <1>T, <1>C, <2>2 DEF Delete, End, TypeOK, Seen
  <2> QED
    BY <2>1, <2>2
<1>7. ASSUME NEW c \in Clients, Take(c) PROVE Seen(d)'
  <2>1. CASE d # c
    BY <1>0, <1>7, <2>1, StillSeen DEF Take, End, Still, TypeOK
  <2>2. CASE d = c
    BY <1>0, <1>7, <1>T, <1>C, <2>2 DEF Take, End, TypeOK, Seen
  <2> QED
    BY <2>1, <2>2
<1>8. ASSUME NEW c \in Clients, Fails(c) PROVE Seen(d)'
  <2>0. /\ pc' = [pc EXCEPT ![c] = "idle"] /\ result' = [result EXCEPT ![c] = "error"]
        /\ UNCHANGED <<version, attempt, since>>
    BY <1>8 DEF Fails, AfterError, End
  <2>1. CASE d # c
    BY <1>0, <2>0, <2>1, StillSeen DEF Still, TypeOK
  <2>2. CASE d = c
    BY <1>0, <2>0, <1>T, <1>C, <2>2 DEF TypeOK, Seen
  <2> QED
    BY <2>1, <2>2
<1>9. ASSUME NEW c \in Clients, NEW o \in {"Update", "Store", "Delete", "Take"},
             Begin(c, o)
      PROVE  Seen(d)'
  <2>1. CASE d # c
    BY <1>0, <1>9, <2>1, StillSeen DEF Begin, Still, TypeOK
  <2>2. CASE d = c
    BY <1>9, <1>T, <2>2 DEF Begin, TypeOK, Seen
  <2> QED
    BY <2>1, <2>2
<1> QED
  BY <1>1, <1>2, <1>3, <1>4, <1>5, <1>6, <1>7, <1>8, <1>9 DEF Next, Step

-----------------------------------------------------------------------------
(* The theorems. *)

\* Stuttering keeps every part of the invariant.
LEMMA Stutter ==
    ASSUME IInv, UNCHANGED vars
    PROVE  IInv'
<1> USE DEF vars, hostVars, clientVars, history
<1>1. TypeOK' /\ Fresh' /\ SameVersion'
  BY DEF IInv, TypeOK, Fresh, SameVersion
<1>2. CallState' /\ ChangesSeen' /\ TakenIsGone'
  BY DEF IInv, CallState, ChangesSeen, TakenIsGone
<1>3. AppliedOnce' /\ ContentionIsReal' /\ TakenOnce'
  BY DEF IInv, AppliedOnce, ContentionIsReal, TakenOnce
<1> QED
  BY <1>1, <1>2, <1>3 DEF IInv

\* The invariant holds in every reachable state: whatever requests of however many
\* clients interleave, get lost or fail.
THEOREM Inductive == Spec => []IInv
<1>1. Init => IInv
  <2> SUFFICES ASSUME Init PROVE IInv
    OBVIOUS
  <2> USE RuntimeStateAssumption DEF Init
  <2>1. TypeOK
    BY DEF TypeOK
  <2>2. Fresh /\ SameVersion /\ CallState
    BY DEF Fresh, SameVersion, CallState
  <2>3. ChangesSeen /\ TakenIsGone /\ AppliedOnce /\ ContentionIsReal /\ TakenOnce
    BY DEF ChangesSeen, TakenIsGone, AppliedOnce, ContentionIsReal, TakenOnce
  <2> QED
    BY <2>1, <2>2, <2>3 DEF IInv
<1>2. IInv /\ [Next]_vars => IInv'
  <2> SUFFICES ASSUME IInv, [Next]_vars PROVE IInv'
    OBVIOUS
  <2>1. CASE Next
    <3>1. TypeOK' /\ Fresh' /\ SameVersion'
      BY <2>1, TypeStep, VersionStep DEF IInv
    <3>2. CallState' /\ AppliedOnce'
      BY <2>1, CallStep DEF IInv
    <3>3. ChangesSeen' /\ ContentionIsReal'
      BY <2>1, ChangesStep DEF IInv
    <3>4. TakenIsGone' /\ TakenOnce'
      BY <2>1, TakenStep DEF IInv
    <3> QED
      BY <3>1, <3>2, <3>3, <3>4 DEF IInv
  <2>2. CASE UNCHANGED vars
    BY <2>2, Stutter
  <2> QED
    BY <2>1, <2>2
<1> QED
  BY <1>1, <1>2, PTL DEF Spec

\* Type correctness; Update's loop counter never passes its budget.
THEOREM TypeCorrect == Spec => []TypeOK
<1>1. IInv => TypeOK
  BY DEF IInv
<1> QED
  BY <1>1, Inductive, PTL

\* A call takes effect at most once, and its result says whether it did: Update,
\* Store and their errors.
THEOREM EffectIsOnce == Spec => []AppliedOnce
<1>1. IInv => AppliedOnce
  BY DEF IInv
<1> QED
  BY <1>1, Inductive, PTL

\* Contention is reported only after as many changes as there were attempts:
\* Update's retry loop.
THEOREM ContentionIsHonest == Spec => []ContentionIsReal
<1>1. IInv => ContentionIsReal
  BY DEF IInv
<1> QED
  BY <1>1, Inductive, PTL

\* Take hands a stored value out once: the Host's take and its global versions.
THEOREM TakeIsExclusive == Spec => []TakenOnce
<1>1. IInv => TakenOnce
  BY DEF IInv
<1> QED
  BY <1>1, Inductive, PTL

\* Update, Store, Delete and Take implement an atomic value: an accepted cas
\* replaces the value its new one was computed from.
THEOREM Refinement == Spec => ImplementsAtomicState
<1>1. Init => Atomic!Init
  BY DEF Init, Atomic!Init
<1>2. IInv /\ [Next]_vars => [Atomic!Next]_values
  <2> SUFFICES ASSUME IInv, [Next]_vars PROVE Atomic!Next \/ values' = values
    OBVIOUS
  <2>1. CASE UNCHANGED vars
    BY <2>1 DEF vars, hostVars
  <2>2. CASE Swapped
    <3>1. PICK c \in Clients : VersionHolds(c) /\ Swap(NewValue(c))
      BY <2>2 DEF Swapped
    <3>2. old[c] = values
      BY <3>1 DEF IInv, SameVersion, VersionHolds
    <3>3. Atomic!Update(c) \/ Atomic!Store(c)
      BY <3>1, <3>2 DEF Swap, NewValue, Atomic!Update, Atomic!Store
    <3> QED
      BY <3>3 DEF Atomic!Next
  <2>3. CASE Drop
    BY <2>3 DEF Drop, Atomic!Next, Atomic!Remove
  <2>4. CASE Unchanged
    BY <2>4 DEF Unchanged, hostVars
  <2> QED
    BY <2>1, <2>2, <2>3, <2>4, HostStep
<1> QED
  BY <1>1, <1>2, Inductive, PTL DEF Spec, ImplementsAtomicState, Atomic!Spec
=============================================================================
