-------------------------- MODULE RequestTraceProofs --------------------------
(***************************************************************************)
(* Proofs about the request trace, for any calls, limits and bodies.       *)
(*                                                                         *)
(* RequestTrace: the invariant has three parts, one per property.  KeepInv *)
(* compares the capture with all that was published, HoldInv says where a  *)
(* byte of a request can be and who will release it, SnapInv what a        *)
(* snapshot has copied while bodies are still being sent.                  *)
(*                                                                         *)
(* EventObserver, from "The SSE observer" on: Leaves says in terms of the  *)
(* bytes read so far, whose lines and data are sets of positions, what is  *)
(* in every field of the observer.  The bulk of the proof is about these   *)
(* positions: which ones a further byte adds.                              *)
(***************************************************************************)
EXTENDS RequestTrace, EventObserver, FiniteSetTheorems, SequenceTheorems,
        WellFoundedInduction, TLAPS

\* What an open capture keeps of n requests: all of them, or else the first and the
\* latest, index by index.
KeepInv ==
    /\ exchanges \in Seq(Calls) /\ published \in Seq(Calls) /\ closed \in BOOLEAN
    /\ ~closed =>
           LET n == Len(published)
           IN  /\ n <= MaxRequests => exchanges = published
               /\ n >= MaxRequests =>
                      /\ Len(exchanges) = MaxRequests
                      /\ exchanges[1] = published[1]
                      /\ \A i \in 2..MaxRequests :
                             exchanges[i] = published[n - MaxRequests + i]

-----------------------------------------------------------------------------
(* What the trace holds. *)

\* The steps of a release, and whether some goroutine still has to take one.
Tasks == {"exchange", "sent", "response", "events"} \X Calls

Pending(kind, c) == \E g \in Goroutines : <<kind, c>> \in ToSet(todo[g])

Buffers == [data : Nat, size : Nat, closed : BOOLEAN]

Observers == [data : Nat, closed : BOOLEAN, locked : BOOLEAN]

ExchangeRecords ==
    [closed : BOOLEAN, known : BOOLEAN, body : Nat, size : Nat, status : BOOLEAN,
     sent : BOOLEAN, response : BOOLEAN, events : BOOLEAN, event : Nat]

CallSteps == {"start", "copied", "setNil", "done", "send", "wrap", "read", "observe", "set"}

HoldType ==
    /\ ex \in [Calls -> ExchangeRecords]
    /\ sent \in [Calls -> Buffers] /\ response \in [Calls -> Buffers]
    /\ events \in [Calls -> Observers]
    /\ pc \in [Calls -> CallSteps]
    /\ todo \in [Goroutines -> Seq(Tasks)]
    /\ ws \in Calls \cup {None} /\ reading \in Calls \cup {None}

\* The transport sees the body of such a call.
Observed(c) == ~Shape[c].ws /\ ~Shape[c].replayable

\* No exchange of this call has been published.
Fresh(c) == ~ex[c].known /\ ~ex[c].closed

FreshCall(c) ==
    /\ ex[c].body = 0 /\ ex[c].event = 0
    /\ sent[c].data = 0 /\ response[c].data = 0 /\ events[c].data = 0
    /\ pc[c] \in {"start", "copied", "setNil", "done"}

\* A live exchange is in the capture, or will be released, and refers to every buffer
\* that holds something or may come to.
OpenCall(c) ==
    /\ c \in ToSet(exchanges) \/ Pending("exchange", c)
    /\ Observed(c) \/ sent[c].data # 0 => ex[c].sent
    /\ (pc[c] = "read" /\ ~Shape[c].stream) \/ response[c].data # 0 => ex[c].response
    /\ (pc[c] \in {"read", "observe"} /\ Shape[c].stream) \/ events[c].data # 0 => ex[c].events

\* A buffer of an exchange that was released is closed, will be, or holds nothing and
\* is out of everyone's reach.
ClosedCall(c) ==
    /\ ex[c].body = 0 /\ ex[c].event = 0
    /\ \/ sent[c].closed \/ Pending("sent", c)
       \/ sent[c].data = 0 /\ ~Observed(c)
    /\ \/ response[c].closed \/ Pending("response", c)
       \/ response[c].data = 0 /\ ~(pc[c] = "read" /\ ~Shape[c].stream)
    /\ \/ events[c].closed \/ Pending("events", c)
       \/ events[c].data = 0 /\ ~(pc[c] \in {"read", "observe"} /\ Shape[c].stream)

CallHold(c) ==
    /\ pc[c] = "observe" => Shape[c].stream
    /\ sent[c].closed => sent[c].data = 0
    /\ response[c].closed => response[c].data = 0
    /\ events[c].closed => events[c].data = 0
    /\ pc[c] \in {"start", "copied"} => Fresh(c)
    /\ Fresh(c) => FreshCall(c)
    /\ ex[c].known /\ ~ex[c].closed => OpenCall(c)
    /\ ex[c].closed => ClosedCall(c)

\* Only published exchanges are released, kept, or observed by a WebSocket's reader;
\* a call evicts once.
TaskInv ==
    /\ \A g \in Goroutines : \A t \in ToSet(todo[g]) : ~Fresh(t[2])
    /\ \A c \in ToSet(exchanges) : c \in Calls /\ ~Fresh(c)
    /\ ws # None => ~Fresh(ws)
    /\ reading # None => ~Fresh(reading)
    /\ \A c \in Calls : pc[c] \in {"start", "copied"} => todo[c] = <<>>

\* Finish releases what the closed capture had.
FinishInv ==
    /\ closed => exchanges = <<>>
    /\ fpc \in {"releasing", "done"} => closed
    /\ fpc # "releasing" => todo["Finish"] = <<>>

HoldInv ==
    /\ HoldType /\ TaskInv /\ FinishInv
    /\ \A c \in Calls : CallHold(c)

-----------------------------------------------------------------------------
(* What a snapshot shows. *)

Entries == [call : Calls, known : BOOLEAN, body : Nat, size : Nat, whole : BOOLEAN,
            error : Nat]

SnapType ==
    /\ list \in Seq(Calls) /\ diagnostic \in Seq(Entries) /\ cur \in ExchangeRecords
    /\ remaining \in Nat /\ sentBefore \in [Calls -> Nat]

\* Before Finish releases the capture only what was evicted is released, and so no
\* other body loses a byte that was counted.
Unevicted(c) ==
    c \notin evicted =>
        /\ ~ex[c].closed /\ ~sent[c].closed
        /\ sentBefore[c] <= sent[c].size

LiveInv ==
    /\ \A c \in Calls : ~Observed(c) => sent[c].size = 0 /\ sentBefore[c] = 0
    /\ fpc \notin {"releasing", "done"} =>
           /\ ~closed
           /\ \A g \in Goroutines : \A t \in ToSet(todo[g]) : t[2] \in evicted
           /\ \A c \in Calls : Unevicted(c)

\* Where Snapshot is; the copy it took of an exchange knows the request and refers to
\* the body that is being sent.
SnapshotInv ==
    /\ fpc \in {"start", "snapshot"} => diagnostic = <<>>
    /\ fpc \in {"exchange", "body"} => Len(diagnostic) < Len(list)
    /\ fpc = "error" => /\ Len(diagnostic) = 1 /\ Len(list) >= 1
                        /\ diagnostic[1].error = 0
    /\ \A i \in 1..Len(list) : ~Fresh(list[i])
    /\ fpc = "body" /\ list[Index] \notin evicted =>
           cur.known /\ (Observed(list[Index]) => cur.sent)

SnapInv == SnapType /\ LiveInv /\ SnapshotInv /\ HonestSnapshot

-----------------------------------------------------------------------------
(* record's eviction. *)

\* The end of a sequence.
LEMMA Suffix ==
    ASSUME NEW s \in Seq(Calls), NEW k \in 1..(Len(s) + 1)
    PROVE  /\ SubSeq(s, k, Len(s)) \in Seq(Calls) /\ Len(SubSeq(s, k, Len(s))) = Len(s) - k + 1
           /\ \A i \in 1..(Len(s) - k + 1) : SubSeq(s, k, Len(s))[i] = s[k + i - 1]
<1>1. Len(s) \in Nat /\ k \in Int /\ Len(s) \in Int
  OBVIOUS
<1>2. \A i \in k..Len(s) : s[i] \in Calls
  BY <1>1
<1> QED
  BY <1>1, <1>2, SubSeqProperties

\* The second oldest goes.
LEMMA EvictProperties ==
    ASSUME NEW s \in Seq(Calls), Len(s) >= 2
    PROVE  /\ Evict(s) \in Seq(Calls) /\ Len(Evict(s)) = Len(s) - 1
           /\ Evict(s)[1] = s[1]
           /\ \A i \in 2..(Len(s) - 1) : Evict(s)[i] = s[i + 1]
<1> DEFINE n == Len(s)
           a == SubSeq(s, 1, 1)
           b == SubSeq(s, 3, n)
<1>0. n \in Nat /\ n >= 2
  OBVIOUS
<1>1. a \in Seq(Calls) /\ Len(a) = 1 /\ a[1] = s[1]
  BY <1>0
<1>2. /\ b \in Seq(Calls) /\ Len(b) = n - 2
      /\ \A i \in 1..(n - 2) : b[i] = s[i + 2]
  <2>1. 3 \in 1..(n + 1) /\ n - 3 + 1 = n - 2
    BY <1>0
  <2>2. /\ b \in Seq(Calls) /\ Len(b) = n - 3 + 1
        /\ \A i \in 1..(n - 3 + 1) : b[i] = s[3 + i - 1]
    BY <2>1, Suffix
  <2>3. \A i \in 1..(n - 2) : 3 + i - 1 = i + 2
    OBVIOUS
  <2> HIDE DEF b
  <2> QED
    BY <2>1, <2>2, <2>3
<1>3. Evict(s) = a \o b
  BY DEF Evict, RemoveAt
<1> HIDE DEF a, b
<1>4. a \in Seq(Calls) /\ b \in Seq(Calls)
  BY <1>1, <1>2
<1>5. /\ Evict(s) \in Seq(Calls) /\ Len(Evict(s)) = Len(a) + Len(b)
      /\ \A i \in 1..(Len(a) + Len(b)) :
             Evict(s)[i] = IF i <= Len(a) THEN a[i] ELSE b[i - Len(a)]
  BY <1>3, <1>4, ConcatProperties
<1>6. Len(a) = 1 /\ Len(b) = n - 2 /\ Len(a) + Len(b) = n - 1
  BY <1>0, <1>1, <1>2
<1>7. Evict(s)[1] = a[1]
  BY <1>0, <1>5, <1>6
<1>8. ASSUME NEW i \in 2..(n - 1)
      PROVE  Evict(s)[i] = s[i + 1]
  <2>1. i - 1 \in 1..(n - 2) /\ (i - 1) + 2 = i + 1 /\ i \in 1..(n - 1) /\ ~(i <= 1)
    BY <1>0
  <2>2. Evict(s)[i] = b[i - 1]
    BY <2>1, <1>5, <1>6
  <2>3. b[i - 1] = s[(i - 1) + 2]
    BY <2>1, <1>2
  <2> QED
    BY <2>1, <2>2, <2>3
<1> QED
  BY <1>1, <1>5, <1>6, <1>7, <1>8

\* The capture has as many exchanges as it can.
LEMMA KeptLength ==
    ASSUME KeepInv, ~closed
    PROVE  /\ Len(published) \in Nat /\ Len(exchanges) \in Nat
           /\ Len(exchanges) < MaxRequests => Len(published) < MaxRequests
           /\ ~(Len(exchanges) < MaxRequests) =>
                  Len(exchanges) = MaxRequests /\ Len(published) >= MaxRequests
<1>1. /\ exchanges \in Seq(Calls) /\ published \in Seq(Calls)
      /\ Len(published) <= MaxRequests => exchanges = published
      /\ Len(published) >= MaxRequests => Len(exchanges) = MaxRequests
  BY DEF KeepInv
<1>2. Len(published) \in Nat /\ Len(exchanges) \in Nat /\ MaxRequests \in Nat
  BY <1>1, TraceAssumption
<1>3. CASE Len(published) < MaxRequests
  BY <1>1, <1>2, <1>3
<1>4. CASE Len(published) >= MaxRequests
  BY <1>1, <1>2, <1>4
<1> QED
  BY <1>2, <1>3, <1>4

\* A request is published.
LEMMA PublishKeeps ==
    ASSUME KeepInv, NEW c \in Calls, Publish(c)
    PROVE  KeepInv'
<1> DEFINE n == Len(published)
           M == MaxRequests
<1>1. CASE UNCHANGED <<exchanges, published, closed>>
  BY <1>1 DEF KeepInv
<1>2. CASE /\ ~closed /\ UNCHANGED closed /\ published' = Append(published, c)
           /\ Len(exchanges) < M /\ exchanges' = Append(exchanges, c)
  <2>1. n \in Nat /\ n < M /\ exchanges = published /\ published \in Seq(Calls) /\ M \in Nat
    BY <1>2, KeptLength, TraceAssumption DEF KeepInv
  <2>2. /\ published' \in Seq(Calls) /\ exchanges' = published' /\ Len(published') = n + 1
    BY <2>1, <1>2
  <2>3. Len(published') >= M => M = n + 1
    BY <2>1, <2>2
  <2>4. Len(published') >= M => \A i \in 2..M : Len(published') - M + i = i
    BY <2>1, <2>2, <2>3
  <2> QED
    BY <2>1, <2>2, <2>3, <2>4, <1>2 DEF KeepInv
<1>3. CASE /\ ~closed /\ UNCHANGED closed /\ published' = Append(published, c)
           /\ ~(Len(exchanges) < M) /\ exchanges' = Append(Evict(exchanges), c)
  <2>1. /\ n \in Nat /\ n >= M /\ Len(exchanges) = M /\ M \in Nat /\ M >= 2
        /\ published \in Seq(Calls) /\ exchanges \in Seq(Calls)
    BY <1>3, KeptLength, TraceAssumption DEF KeepInv
  <2>2. /\ exchanges[1] = published[1]
        /\ \A i \in 2..M : exchanges[i] = published[n - M + i]
    BY <2>1, <1>3 DEF KeepInv
  <2> DEFINE e == Evict(exchanges)
  <2>3. /\ e \in Seq(Calls) /\ Len(e) = M - 1 /\ e[1] = exchanges[1]
        /\ \A i \in 2..(M - 1) : e[i] = exchanges[i + 1]
    BY <2>1, EvictProperties
  <2> HIDE DEF e
  <2>4. /\ exchanges' \in Seq(Calls) /\ Len(exchanges') = M /\ exchanges'[M] = c
        /\ \A i \in 1..(M - 1) : exchanges'[i] = e[i]
    <3>1. exchanges' = Append(e, c)
      BY <1>3 DEF e
    <3>2. /\ exchanges' \in Seq(Calls) /\ Len(exchanges') = Len(e) + 1
          /\ exchanges'[Len(e) + 1] = c
          /\ \A i \in 1..Len(e) : exchanges'[i] = e[i]
      BY <3>1, <2>3
    <3> QED
      BY <3>2, <2>1, <2>3
  <2>5. /\ published' \in Seq(Calls) /\ Len(published') = n + 1 /\ published'[n + 1] = c
        /\ \A i \in 1..n : published'[i] = published[i]
    BY <1>3, <2>1
  <2>6. exchanges'[1] = published'[1]
    BY <2>1, <2>2, <2>3, <2>4, <2>5
  <2>7. ASSUME NEW i \in 2..M
        PROVE  exchanges'[i] = published'[(n + 1) - M + i]
    <3>1. CASE i = M
      <4>1. (n + 1) - M + i = n + 1
        BY <3>1, <2>1
      <4> QED
        BY <4>1, <3>1, <2>4, <2>5
    <3>2. CASE i # M
      <4>1. /\ i \in 2..(M - 1) /\ i \in 1..(M - 1) /\ i + 1 \in 2..M
            /\ (n + 1) - M + i = n - M + (i + 1) /\ n - M + (i + 1) \in 1..n
        BY <3>2, <2>1
      <4>2. exchanges'[i] = published[n - M + (i + 1)]
        BY <4>1, <2>2, <2>3, <2>4
      <4> QED
        BY <4>1, <4>2, <2>5
    <3> QED
      BY <3>1, <3>2
  <2>8. ~(Len(published') <= M) /\ Len(published') = n + 1
    BY <2>1, <2>5
  <2> QED
    BY <2>4, <2>5, <2>6, <2>7, <2>8, <1>3 DEF KeepInv
<1> QED
  BY <1>1, <1>2, <1>3 DEF Publish, Closed, capVars

\* Every step keeps KeepInv.
LEMMA KeepStep ==
    ASSUME KeepInv, Next
    PROVE  KeepInv'
<1>1. CASE \E c \in Calls : Publish(c)
  BY <1>1, PublishKeeps
<1>2. CASE ReleaseCapture
  <2>1. exchanges' = <<>> /\ closed' = TRUE /\ UNCHANGED published
    BY <1>2 DEF ReleaseCapture
  <2> QED
    BY <2>1 DEF KeepInv
<1>3. ASSUME ~(\E c \in Calls : Publish(c)), ~ReleaseCapture
      PROVE  UNCHANGED <<exchanges, closed, published>>
  BY <1>3 DEF Next, Call, Check, SendBody, Respond, Wrap, ReadBody, ReadEvents, Flush,
     SetExchange, ReadMessage, ObserveMessage, Finish, FinishStep, SnapshotList,
     SnapshotExchange, SnapshotBody, SnapshotError, FinishReturns, Release, calls, capVars
<1> QED
  BY <1>1, <1>2, <1>3 DEF KeepInv

\* In terms of sequences.
LEMMA KeepsFirst ==
    ASSUME KeepInv
    PROVE  KeepsFirstAndLatest
<1> DEFINE n == Len(published)
           M == MaxRequests
<1> SUFFICES ASSUME ~closed
             PROVE  exchanges = IF n <= M THEN published
                                ELSE <<published[1]>> \o SubSeq(published, n - M + 2, n)
  BY DEF KeepsFirstAndLatest
<1>1. CASE n <= M
  BY <1>1 DEF KeepInv
<1>2. CASE ~(n <= M)
  <2>1. /\ exchanges \in Seq(Calls) /\ published \in Seq(Calls)
        /\ n \in Nat /\ M \in Nat /\ M >= 2 /\ n > M
    BY <1>2, TraceAssumption DEF KeepInv
  <2>2. /\ Len(exchanges) = M /\ exchanges[1] = published[1]
        /\ \A i \in 2..M : exchanges[i] = published[n - M + i]
    BY <2>1 DEF KeepInv
  <2> DEFINE a == <<published[1]>>
             b == SubSeq(published, n - M + 2, n)
             t == a \o b
  <2>3. a \in Seq(Calls) /\ Len(a) = 1 /\ a[1] = published[1]
    BY <2>1
  <2>4. /\ b \in Seq(Calls) /\ Len(b) = M - 1
        /\ \A i \in 1..(M - 1) : b[i] = published[(n - M + 2) + i - 1]
    <3>0. n - M + 2 \in Nat
      BY <2>1
    <3>1. PICK k \in Nat : k = n - M + 2
      BY <3>0, Zenon
    <3>2. k \in 1..(n + 1) /\ n - k + 1 = M - 1
      BY <2>1, <3>1
    <3>3. /\ SubSeq(published, k, n) \in Seq(Calls) /\ Len(SubSeq(published, k, n)) = n - k + 1
          /\ \A i \in 1..(n - k + 1) : SubSeq(published, k, n)[i] = published[k + i - 1]
      BY <2>1, <3>2, Suffix
    <3>4. b = SubSeq(published, k, n)
      BY <3>1
    <3> HIDE DEF b
    <3>5. b \in Seq(Calls) /\ Len(b) = M - 1
      BY <3>2, <3>3, <3>4
    <3>6. \A i \in 1..(M - 1) : b[i] = published[k + i - 1]
      BY <3>2, <3>3, <3>4
    <3> QED
      BY <3>1, <3>5, <3>6
  <2> HIDE DEF a, b
  <2>5. /\ t \in Seq(Calls) /\ Len(t) = Len(a) + Len(b)
        /\ \A i \in 1..(Len(a) + Len(b)) :
               t[i] = IF i <= Len(a) THEN a[i] ELSE b[i - Len(a)]
    BY <2>3, <2>4, ConcatProperties
  <2>6. Len(t) = M /\ \A i \in 1..M : t[i] = IF i <= 1 THEN a[i] ELSE b[i - 1]
    BY <2>1, <2>3, <2>4, <2>5
  <2> HIDE DEF t
  <2>7. ASSUME NEW i \in 1..M
        PROVE  exchanges[i] = t[i]
    <3>1. CASE i = 1
      BY <3>1, <2>1, <2>2, <2>3, <2>6
    <3>2. CASE i # 1
      <4>1. /\ i \in 2..M /\ i - 1 \in 1..(M - 1) /\ ~(i <= 1)
            /\ (n - M + 2) + (i - 1) - 1 = n - M + i
        BY <3>2, <2>1
      <4>2. t[i] = published[(n - M + 2) + (i - 1) - 1]
        BY <4>1, <2>4, <2>6
      <4> QED
        BY <4>1, <4>2, <2>2
    <3> QED
      BY <3>1, <3>2
  <2>8. exchanges = t
    BY <2>1, <2>2, <2>5, <2>6, <2>7, SeqEqual
  <2> QED
    BY <2>8, <1>2 DEF t, a, b
<1> QED
  BY <1>1, <1>2

-----------------------------------------------------------------------------
(* Exchanges and buffers. *)

\* The fields of what a call has.
LEMMA HoldFields ==
    ASSUME HoldType, NEW c \in Calls
    PROVE  /\ ex[c] \in ExchangeRecords /\ sent[c] \in Buffers /\ response[c] \in Buffers
           /\ events[c] \in Observers /\ pc[c] \in CallSteps
           /\ Shape[c].ws \in BOOLEAN /\ Shape[c].replayable \in BOOLEAN
           /\ Shape[c].stream \in BOOLEAN /\ Shape[c].size \in Nat
  BY TraceAssumption DEF HoldType

\* A task is about a call.
LEMMA TaskFields ==
    ASSUME HoldType, NEW g \in Goroutines, NEW t \in ToSet(todo[g])
    PROVE  t \in Tasks /\ t[2] \in Calls
<1>1. todo[g] \in Seq(Tasks)
  BY DEF HoldType
<1>2. t \in Tasks
  BY <1>1 DEF ToSet
<1> QED
  BY <1>2 DEF Tasks

\* A new exchange.
LEMMA NewExchangeFields ==
    ASSUME NEW c \in Calls
    PROVE  /\ NewExchange(c) \in ExchangeRecords
           /\ NewExchange(c).known /\ ~NewExchange(c).closed
           /\ NewExchange(c).sent <=> Observed(c)
<1>1. /\ Shape[c].ws \in BOOLEAN /\ Shape[c].replayable \in BOOLEAN /\ Shape[c].size \in Nat
      /\ MaxBody \in Nat
  BY TraceAssumption
<1> QED
  BY <1>1 DEF NewExchange, Blank, ExchangeRecords, Observed

\* What a buffer makes of a byte.
LEMMA BufferWriteFields ==
    ASSUME NEW b \in Buffers
    PROVE  /\ BufferWrite(b, 1) \in Buffers
           /\ BufferWrite(b, 1).closed = b.closed
           /\ b.closed => BufferWrite(b, 1) = b
           /\ ~b.closed => BufferWrite(b, 1).size = b.size + 1
<1>1. CASE b.closed
  BY <1>1 DEF BufferWrite
<1>2. CASE ~b.closed
  <2>1. MaxBody \in Nat /\ b.data \in Nat /\ b.size \in Nat
    BY TraceAssumption DEF Buffers
  <2>2. Min2(MaxBody, b.data + 1) \in Nat
    BY <2>1 DEF Min2
  <2>3. BufferWrite(b, 1) = [data |-> Min2(MaxBody, b.data + 1), size |-> b.size + 1,
                             closed |-> b.closed]
    BY <1>2 DEF BufferWrite, Buffers
  <2>4. PICK m \in Nat, k \in Nat : m = Min2(MaxBody, b.data + 1) /\ k = b.size + 1
    BY <2>1, <2>2
  <2>5. BufferWrite(b, 1) = [data |-> m, size |-> k, closed |-> b.closed]
    BY <2>3, <2>4
  <2>6. b.closed \in BOOLEAN
    BY DEF Buffers
  <2> QED
    BY <1>2, <2>4, <2>5, <2>6 DEF Buffers
<1> QED
  BY <1>1, <1>2

\* What an exchange makes of an event.
LEMMA ObserveEventFields ==
    ASSUME NEW e \in ExchangeRecords
    PROVE  /\ ObserveEvent(e) \in ExchangeRecords
           /\ e.closed => ObserveEvent(e) = e
           /\ ~e.closed => /\ ~ObserveEvent(e).closed
                           /\ ObserveEvent(e).known = e.known /\ ObserveEvent(e).sent = e.sent
                           /\ ObserveEvent(e).response = e.response
                           /\ ObserveEvent(e).events = e.events
  BY DEF ObserveEvent, ExchangeRecords

\* An exchange whose status is set, or that gets a buffer or an observer.
LEMMA ExchangeUpdates ==
    ASSUME NEW e \in ExchangeRecords
    PROVE  /\ LET u == [e EXCEPT !.status = TRUE]
              IN  /\ u \in ExchangeRecords /\ u.closed = e.closed /\ u.known = e.known
                  /\ u.body = e.body /\ u.event = e.event /\ u.sent = e.sent
                  /\ u.response = e.response /\ u.events = e.events
           /\ LET u == [e EXCEPT !.response = TRUE]
              IN  /\ u \in ExchangeRecords /\ u.closed = e.closed /\ u.known = e.known
                  /\ u.body = e.body /\ u.event = e.event /\ u.sent = e.sent
                  /\ u.response /\ u.events = e.events
           /\ LET u == [e EXCEPT !.events = TRUE]
              IN  /\ u \in ExchangeRecords /\ u.closed = e.closed /\ u.known = e.known
                  /\ u.body = e.body /\ u.event = e.event /\ u.sent = e.sent
                  /\ u.response = e.response /\ u.events
  BY DEF ExchangeRecords

\* A released exchange.
LEMMA BlankFields ==
    LET e == [Blank EXCEPT !.closed = TRUE]
    IN  /\ Blank \in ExchangeRecords /\ e \in ExchangeRecords /\ e.closed
        /\ e.body = 0 /\ e.event = 0
        /\ ~Blank.known /\ ~Blank.closed /\ Blank.body = 0 /\ Blank.event = 0
  BY DEF Blank, ExchangeRecords

\* What is in a concatenation.
LEMMA ConcatSet ==
    ASSUME NEW s \in Seq(Tasks), NEW t \in Seq(Tasks)
    PROVE  s \o t \in Seq(Tasks) /\ ToSet(s \o t) = ToSet(s) \cup ToSet(t)
<1>1. s \o t \in Seq(Tasks) /\ Len(s \o t) = Len(s) + Len(t)
      /\ \A i \in 1..(Len(s) + Len(t)) :
             (s \o t)[i] = IF i <= Len(s) THEN s[i] ELSE t[i - Len(s)]
  BY ConcatProperties
<1>2. /\ Len(s) \in Nat /\ Len(t) \in Nat /\ DOMAIN s = 1..Len(s) /\ DOMAIN t = 1..Len(t)
      /\ DOMAIN (s \o t) = 1..(Len(s) + Len(t))
  BY <1>1
<1> DEFINE u == s \o t
<1>3. /\ DOMAIN u = 1..(Len(s) + Len(t))
      /\ \A i \in 1..(Len(s) + Len(t)) : u[i] = IF i <= Len(s) THEN s[i] ELSE t[i - Len(s)]
  BY <1>1, <1>2
<1> HIDE DEF u
<1>4. ToSet(u) \subseteq ToSet(s) \cup ToSet(t)
  <2> SUFFICES ASSUME NEW i \in 1..(Len(s) + Len(t))
               PROVE  u[i] \in ToSet(s) \cup ToSet(t)
    BY <1>3 DEF ToSet
  <2>1. CASE i <= Len(s)
    BY <2>1, <1>2, <1>3 DEF ToSet
  <2>2. CASE ~(i <= Len(s))
    <3>1. i - Len(s) \in 1..Len(t)
      BY <2>2, <1>2
    <3> QED
      BY <3>1, <2>2, <1>2, <1>3 DEF ToSet
  <2> QED
    BY <2>1, <2>2
<1>5. ToSet(s) \subseteq ToSet(u)
  <2> SUFFICES ASSUME NEW i \in 1..Len(s)
               PROVE  s[i] \in ToSet(u)
    BY <1>2 DEF ToSet
  <2>1. i \in 1..(Len(s) + Len(t)) /\ i <= Len(s)
    BY <1>2
  <2> QED
    BY <2>1, <1>3 DEF ToSet
<1>6. ToSet(t) \subseteq ToSet(u)
  <2> SUFFICES ASSUME NEW i \in 1..Len(t)
               PROVE  t[i] \in ToSet(u)
    BY <1>2 DEF ToSet
  <2>1. /\ Len(s) + i \in 1..(Len(s) + Len(t)) /\ ~(Len(s) + i <= Len(s))
        /\ (Len(s) + i) - Len(s) = i
    BY <1>2
  <2>2. u[Len(s) + i] = t[i]
    BY <2>1, <1>3
  <2> QED
    BY <2>1, <2>2, <1>3 DEF ToSet
<1> QED
  BY <1>1, <1>4, <1>5, <1>6 DEF u

\* The tasks a released exchange leaves.
LEMMA PartsProperties ==
    ASSUME HoldType, NEW c \in Calls
    PROVE  /\ Parts(c) \in Seq(Tasks)
           /\ \A t \in ToSet(Parts(c)) : t[2] = c
           /\ ex[c].sent => <<"sent", c>> \in ToSet(Parts(c))
           /\ ex[c].response => <<"response", c>> \in ToSet(Parts(c))
           /\ ex[c].events => <<"events", c>> \in ToSet(Parts(c))
<1> DEFINE a == Part("sent", c)
           b == Part("response", c)
           d == Part("events", c)
<1>1. ASSUME NEW k \in {"sent", "response", "events"}
      PROVE  /\ Part(k, c) \in Seq(Tasks)
             /\ \A i \in 1..Len(Part(k, c)) : Part(k, c)[i][2] = c
             /\ ex[c][k] => Len(Part(k, c)) = 1 /\ Part(k, c)[1] = <<k, c>>
  <2>1. <<k, c>> \in Tasks
    BY DEF Tasks
  <2>2. CASE ex[c][k]
    <3> DEFINE t == <<k, c>>
    <3>1. t \in Tasks /\ t[2] = c /\ Part(k, c) = <<t>>
      BY <2>1, <2>2 DEF Part
    <3> HIDE DEF t
    <3>2. Part(k, c) \in Seq(Tasks) /\ Len(Part(k, c)) = 1 /\ Part(k, c)[1] = t
      BY <3>1
    <3> QED
      BY <3>1, <3>2 DEF t
  <2>3. CASE ~ex[c][k]
    BY <2>3 DEF Part
  <2> QED
    BY <2>2, <2>3
<1>2. /\ a \in Seq(Tasks) /\ b \in Seq(Tasks) /\ d \in Seq(Tasks)
      /\ \A i \in 1..Len(a) : a[i][2] = c
      /\ \A i \in 1..Len(b) : b[i][2] = c
      /\ \A i \in 1..Len(d) : d[i][2] = c
      /\ ex[c].sent => Len(a) = 1 /\ a[1] = <<"sent", c>>
      /\ ex[c].response => Len(b) = 1 /\ b[1] = <<"response", c>>
      /\ ex[c].events => Len(d) = 1 /\ d[1] = <<"events", c>>
  BY <1>1
<1>3. Parts(c) = (a \o b) \o d
  BY DEF Parts
<1> HIDE DEF a, b, d
<1>4. a \o b \in Seq(Tasks) /\ ToSet(a \o b) = ToSet(a) \cup ToSet(b)
  BY <1>2, ConcatSet
<1>5. Parts(c) \in Seq(Tasks) /\ ToSet(Parts(c)) = ToSet(a \o b) \cup ToSet(d)
  BY <1>2, <1>3, <1>4, ConcatSet
<1>6. DOMAIN a = 1..Len(a) /\ DOMAIN b = 1..Len(b) /\ DOMAIN d = 1..Len(d)
  BY <1>2
<1>7. /\ \A t \in ToSet(a) : t[2] = c
      /\ \A t \in ToSet(b) : t[2] = c
      /\ \A t \in ToSet(d) : t[2] = c
  BY <1>2, <1>6 DEF ToSet
<1>8. \A t \in ToSet(Parts(c)) : t[2] = c
  BY <1>4, <1>5, <1>7
<1>9. ASSUME NEW s, NEW x, DOMAIN s = 1..Len(s), Len(s) = 1, s[1] = x
      PROVE  x \in ToSet(s)
  BY <1>9 DEF ToSet
<1>10. ex[c].sent => <<"sent", c>> \in ToSet(a)
  BY <1>2, <1>6, <1>9
<1>11. ex[c].response => <<"response", c>> \in ToSet(b)
  BY <1>2, <1>6, <1>9
<1>12. ex[c].events => <<"events", c>> \in ToSet(d)
  BY <1>2, <1>6, <1>9
<1> QED
  BY <1>4, <1>5, <1>8, <1>10, <1>11, <1>12
-----------------------------------------------------------------------------
(* The steps of the calls: each changes what one call has, and no task. *)

\* A step that leaves a call alone.
Same(d) ==
    /\ ex'[d] = ex[d] /\ sent'[d] = sent[d] /\ response'[d] = response[d]
    /\ events'[d] = events[d] /\ pc'[d] = pc[d]

\* A call nothing happens to, while its tasks stay or it stays in the capture.
LEMMA FrameCall ==
    ASSUME NEW d \in Calls, CallHold(d), Same(d),
           \A k \in {"sent", "response", "events"} : Pending(k, d) => Pending(k, d)',
           d \in ToSet(exchanges) \/ Pending("exchange", d) =>
               d \in ToSet(exchanges)' \/ Pending("exchange", d)'
    PROVE  CallHold(d)'
<1>1. /\ Fresh(d)' <=> Fresh(d)
      /\ FreshCall(d) => FreshCall(d)'
      /\ OpenCall(d) => OpenCall(d)'
      /\ ClosedCall(d) => ClosedCall(d)'
  BY DEF Same, Fresh, FreshCall, OpenCall, ClosedCall, Observed
<1> QED
  BY <1>1 DEF Same, CallHold

\* A step of one call without tasks.
LEMMA OneCall ==
    ASSUME HoldInv, NEW c \in Calls, UNCHANGED <<exchanges, closed, todo, fpc>>,
           HoldType', CallHold(c)', Fresh(c)' => Fresh(c),
           \A d \in Calls \ {c} : Same(d),
           pc'[c] \in {"start", "copied"} => pc[c] \in {"start", "copied"},
           ws' # None => ws' = ws \/ ~Fresh(ws'),
           reading' # None => ~Fresh(reading')
    PROVE  HoldInv'
<1>1. \A d \in Calls : Fresh(d)' => Fresh(d)
  BY DEF Same, Fresh
<1>2. ASSUME NEW d \in Calls \ {c}
      PROVE  CallHold(d)'
  <2>1. /\ \A k \in {"exchange", "sent", "response", "events"} : Pending(k, d) => Pending(k, d)'
        /\ d \in ToSet(exchanges) => d \in ToSet(exchanges)'
    BY DEF Pending
  <2>2. CallHold(d) /\ Same(d)
    BY DEF HoldInv
  <2> QED
    BY <2>1, <2>2, FrameCall
<1>3. TaskInv'
  <2>1. \A g \in Goroutines : \A t \in ToSet(todo[g]) : t[2] \in Calls
    BY TaskFields DEF HoldInv
  <2>2. ws' \in Calls \cup {None} /\ reading' \in Calls \cup {None}
    BY DEF HoldType
  <2>3. ws' # None => ~Fresh(ws')
    BY DEF HoldInv, TaskInv
  <2>4. (ws' # None => ~Fresh(ws)') /\ (reading' # None => ~Fresh(reading)')
    BY <1>1, <2>2, <2>3 DEF Fresh
  <2>5. \A d \in Calls : pc'[d] \in {"start", "copied"} => pc[d] \in {"start", "copied"}
    BY DEF Same
  <2> QED
    BY <1>1, <2>1, <2>4, <2>5 DEF HoldInv, TaskInv
<1>4. FinishInv'
  BY DEF HoldInv, FinishInv
<1> QED
  BY <1>2, <1>3, <1>4 DEF HoldInv

\* Pending tasks are those of todo.
LEMMA SameTasks ==
    ASSUME UNCHANGED todo, NEW c \in Calls
    PROVE  \A k \in {"exchange", "sent", "response", "events"} : Pending(k, c)' <=> Pending(k, c)
  BY DEF Pending

\* record's first look.
LEMMA CheckHolds ==
    ASSUME HoldInv, NEW c \in Calls, Check(c)
    PROVE  HoldInv'
<1>1. /\ pc[c] = "start" /\ pc' = [pc EXCEPT ![c] = IF closed THEN Untraced(c) ELSE "copied"]
      /\ UNCHANGED <<exchanges, closed, ex, sent, response, events, todo, ws, reading, fpc>>
  BY DEF Check, capVars, bufVars
<1>2. HoldType /\ CallHold(c) /\ TaskInv
  BY DEF HoldInv
<1>3. /\ pc \in [Calls -> CallSteps] /\ pc'[c] \in {"copied", "setNil", "done"}
      /\ \A d \in Calls \ {c} : pc'[d] = pc[d]
  BY <1>1, <1>2 DEF HoldType, Untraced
<1>4. HoldType'
  BY <1>1, <1>2, <1>3 DEF HoldType, CallSteps
<1>5. Fresh(c) /\ FreshCall(c) /\ Fresh(c)'
  BY <1>1, <1>2 DEF CallHold, Fresh
<1>6. FreshCall(c)'
  BY <1>1, <1>3, <1>5 DEF FreshCall
<1>7. CallHold(c)'
  BY <1>1, <1>2, <1>3, <1>5, <1>6 DEF CallHold, Fresh
<1>8. \A d \in Calls \ {c} : Same(d)
  BY <1>1, <1>3 DEF Same
<1>9. /\ ws' # None => ws' = ws \/ ~Fresh(ws')
      /\ reading' # None => ~Fresh(reading')
  BY <1>1, <1>2 DEF TaskInv
<1> QED
  BY <1>1, <1>4, <1>5, <1>7, <1>8, <1>9, OneCall

\* A byte of the request body is observed.
LEMMA SendBodyHolds ==
    ASSUME HoldInv, NEW c \in Calls, SendBody(c)
    PROVE  HoldInv'
<1>1. /\ pc[c] \in {"send", "wrap", "read", "observe"} /\ Observed(c)
      /\ sent' = [sent EXCEPT ![c] = BufferWrite(sent[c], 1)]
      /\ UNCHANGED <<exchanges, closed, ex, response, events, pc, todo, ws, reading, fpc>>
  BY DEF SendBody, Observed, capVars
<1>2. HoldType /\ CallHold(c) /\ TaskInv
  BY DEF HoldInv
<1>3. sent \in [Calls -> Buffers] /\ sent[c] \in Buffers
  BY <1>2 DEF HoldType
<1>4. /\ sent' \in [Calls -> Buffers] /\ sent'[c].closed = sent[c].closed
      /\ sent[c].closed => sent'[c] = sent[c]
      /\ \A d \in Calls \ {c} : sent'[d] = sent[d]
  BY <1>1, <1>3, BufferWriteFields
<1>5. HoldType'
  BY <1>1, <1>2, <1>4 DEF HoldType
<1>6. ~Fresh(c) /\ (Fresh(c)' <=> Fresh(c))
  BY <1>1, <1>2 DEF CallHold, Fresh, FreshCall
<1>7. OpenCall(c) => OpenCall(c)'
  BY <1>1, SameTasks DEF OpenCall, Observed
<1>8. ClosedCall(c) => ClosedCall(c)'
  BY <1>1, <1>4, SameTasks DEF ClosedCall, Observed
<1>9. CallHold(c)'
  BY <1>1, <1>2, <1>4, <1>6, <1>7, <1>8 DEF CallHold
<1>10. \A d \in Calls \ {c} : Same(d)
  BY <1>1, <1>4 DEF Same
<1>11. /\ ws' # None => ws' = ws \/ ~Fresh(ws')
       /\ reading' # None => ~Fresh(reading')
  BY <1>1, <1>2 DEF TaskInv
<1> QED
  BY <1>1, <1>5, <1>6, <1>9, <1>10, <1>11, OneCall

\* The response arrives, or does not.
LEMMA RespondHolds ==
    ASSUME HoldInv, NEW c \in Calls, Respond(c)
    PROVE  HoldInv'
<1>1. /\ pc[c] = "send"
      /\ \/ pc' = [pc EXCEPT ![c] = "done"] /\ UNCHANGED ex
         \/ /\ pc' = [pc EXCEPT ![c] = "wrap"]
            /\ ex' = IF ex[c].closed THEN ex ELSE [ex EXCEPT ![c].status = TRUE]
      /\ UNCHANGED <<exchanges, closed, sent, response, events, todo, ws, reading, fpc>>
  BY DEF Respond, capVars, bufVars
<1>2. HoldType /\ CallHold(c) /\ TaskInv
  BY DEF HoldInv
<1>3. /\ pc \in [Calls -> CallSteps] /\ pc'[c] \in {"done", "wrap"}
      /\ pc' \in [Calls -> CallSteps] /\ \A d \in Calls \ {c} : pc'[d] = pc[d]
  BY <1>1, <1>2 DEF HoldType, CallSteps
<1>4. /\ ex' \in [Calls -> ExchangeRecords] /\ \A d \in Calls \ {c} : ex'[d] = ex[d]
      /\ ex'[c].closed = ex[c].closed /\ ex'[c].known = ex[c].known
      /\ ex'[c].body = ex[c].body /\ ex'[c].event = ex[c].event
      /\ ex'[c].sent = ex[c].sent /\ ex'[c].response = ex[c].response
      /\ ex'[c].events = ex[c].events
  <2>1. ex \in [Calls -> ExchangeRecords] /\ ex[c] \in ExchangeRecords
    BY <1>2 DEF HoldType
  <2> DEFINE u == [ex[c] EXCEPT !.status = TRUE]
  <2>2. ex' = ex \/ ex' = [ex EXCEPT ![c] = u]
    BY <1>1
  <2>3. /\ u \in ExchangeRecords /\ u.closed = ex[c].closed /\ u.known = ex[c].known
        /\ u.body = ex[c].body /\ u.event = ex[c].event /\ u.sent = ex[c].sent
        /\ u.response = ex[c].response /\ u.events = ex[c].events
    BY <2>1, ExchangeUpdates
  <2> HIDE DEF u
  <2> QED
    BY <2>1, <2>2, <2>3
<1>5. HoldType'
  BY <1>1, <1>2, <1>3, <1>4 DEF HoldType
<1>6. ~Fresh(c) /\ (Fresh(c)' <=> Fresh(c))
  BY <1>1, <1>2, <1>4 DEF CallHold, Fresh, FreshCall
<1>7. OpenCall(c) => OpenCall(c)'
  BY <1>1, <1>3, <1>4, SameTasks DEF OpenCall, Observed
<1>8. ClosedCall(c) => ClosedCall(c)'
  BY <1>1, <1>3, <1>4, SameTasks DEF ClosedCall, Observed
<1>9. CallHold(c)'
  BY <1>1, <1>2, <1>3, <1>4, <1>6, <1>7, <1>8 DEF CallHold
<1>10. \A d \in Calls \ {c} : Same(d)
  BY <1>1, <1>3, <1>4 DEF Same
<1>11. /\ ws' # None => ws' = ws \/ ~Fresh(ws')
       /\ reading' # None => ~Fresh(reading')
  BY <1>1, <1>2 DEF TaskInv
<1> QED
  BY <1>1, <1>3, <1>5, <1>6, <1>9, <1>10, <1>11, OneCall

\* The exchange gets its buffer or its observer, unless it was released.
LEMMA WrapHolds ==
    ASSUME HoldInv, NEW c \in Calls, Wrap(c)
    PROVE  HoldInv'
<1>1. /\ pc[c] = "wrap"
      /\ UNCHANGED <<exchanges, closed, sent, response, events, todo, ws, reading, fpc>>
  BY DEF Wrap, capVars, bufVars
<1>2. HoldType /\ CallHold(c) /\ TaskInv
  BY DEF HoldInv
<1>3. /\ pc' \in [Calls -> CallSteps] /\ pc'[c] \in {"done", "read"}
      /\ \A d \in Calls \ {c} : pc'[d] = pc[d]
      /\ ex[c].closed => pc'[c] = "done" /\ UNCHANGED ex
  BY <1>2 DEF Wrap, HoldType, CallSteps
<1>4. /\ ex' \in [Calls -> ExchangeRecords] /\ \A d \in Calls \ {c} : ex'[d] = ex[d]
      /\ ex'[c].closed = ex[c].closed /\ ex'[c].known = ex[c].known
      /\ ex'[c].body = ex[c].body /\ ex'[c].event = ex[c].event
      /\ ex'[c].sent = ex[c].sent
      /\ ex[c].response => ex'[c].response
      /\ ex[c].events => ex'[c].events
      /\ ~ex[c].closed => IF Shape[c].stream THEN ex'[c].events ELSE ex'[c].response
  <2>1. ex \in [Calls -> ExchangeRecords] /\ ex[c] \in ExchangeRecords
    BY <1>2 DEF HoldType
  <2> DEFINE u == [ex[c] EXCEPT !.response = TRUE]
             v == [ex[c] EXCEPT !.events = TRUE]
  <2>2. \/ ex[c].closed /\ ex' = ex
        \/ ~ex[c].closed /\ Shape[c].stream /\ ex' = [ex EXCEPT ![c] = v]
        \/ ~ex[c].closed /\ ~Shape[c].stream /\ ex' = [ex EXCEPT ![c] = u]
    BY DEF Wrap
  <2>3. /\ u \in ExchangeRecords /\ u.closed = ex[c].closed /\ u.known = ex[c].known
        /\ u.body = ex[c].body /\ u.event = ex[c].event /\ u.sent = ex[c].sent
        /\ u.response /\ u.events = ex[c].events
    BY <2>1, ExchangeUpdates
  <2>4. /\ v \in ExchangeRecords /\ v.closed = ex[c].closed /\ v.known = ex[c].known
        /\ v.body = ex[c].body /\ v.event = ex[c].event /\ v.sent = ex[c].sent
        /\ v.response = ex[c].response /\ v.events
    BY <2>1, ExchangeUpdates
  <2> HIDE DEF u, v
  <2>5. CASE ex' = ex /\ ex[c].closed
    BY <2>1, <2>5
  <2>6. CASE ~ex[c].closed /\ Shape[c].stream /\ ex' = [ex EXCEPT ![c] = v]
    BY <2>1, <2>4, <2>6
  <2>7. CASE ~ex[c].closed /\ ~Shape[c].stream /\ ex' = [ex EXCEPT ![c] = u]
    BY <2>1, <2>3, <2>7
  <2> QED
    BY <2>2, <2>5, <2>6, <2>7
<1>5. HoldType'
  BY <1>1, <1>2, <1>3, <1>4 DEF HoldType
<1>6. ~Fresh(c) /\ (Fresh(c)' <=> Fresh(c))
  BY <1>1, <1>2, <1>4 DEF CallHold, Fresh, FreshCall
<1>7. ~ex[c].closed /\ OpenCall(c) => OpenCall(c)'
  BY <1>1, <1>3, <1>4, SameTasks DEF OpenCall, Observed
<1>8. ex[c].closed /\ ClosedCall(c) => ClosedCall(c)'
  BY <1>1, <1>3, <1>4, SameTasks DEF ClosedCall, Observed
<1>9. CallHold(c)'
  BY <1>1, <1>2, <1>3, <1>4, <1>6, <1>7, <1>8 DEF CallHold
<1>10. \A d \in Calls \ {c} : Same(d)
  BY <1>1, <1>3, <1>4 DEF Same
<1>11. /\ ws' # None => ws' = ws \/ ~Fresh(ws')
       /\ reading' # None => ~Fresh(reading')
  BY <1>1, <1>2 DEF TaskInv
<1> QED
  BY <1>1, <1>3, <1>5, <1>6, <1>9, <1>10, <1>11, OneCall

\* A byte of a plain response is read.
LEMMA ReadBodyHolds ==
    ASSUME HoldInv, NEW c \in Calls, ReadBody(c)
    PROVE  HoldInv'
<1>1. /\ pc[c] = "read" /\ ~Shape[c].stream
      /\ response' = [response EXCEPT ![c] = BufferWrite(response[c], 1)]
      /\ UNCHANGED <<exchanges, closed, ex, sent, events, pc, todo, ws, reading, fpc>>
  BY DEF ReadBody, capVars
<1>2. HoldType /\ CallHold(c) /\ TaskInv
  BY DEF HoldInv
<1>3. response \in [Calls -> Buffers] /\ response[c] \in Buffers
  BY <1>2 DEF HoldType
<1>4. /\ response' \in [Calls -> Buffers] /\ response'[c].closed = response[c].closed
      /\ response[c].closed => response'[c] = response[c]
      /\ \A d \in Calls \ {c} : response'[d] = response[d]
  BY <1>1, <1>3, BufferWriteFields
<1>5. HoldType'
  BY <1>1, <1>2, <1>4 DEF HoldType
<1>6. ~Fresh(c) /\ (Fresh(c)' <=> Fresh(c))
  BY <1>1, <1>2 DEF CallHold, Fresh, FreshCall
<1>7. OpenCall(c) => OpenCall(c)'
  BY <1>1, SameTasks DEF OpenCall, Observed
<1>8. ClosedCall(c) => ClosedCall(c)'
  BY <1>1, <1>4, SameTasks DEF ClosedCall, Observed
<1>9. CallHold(c)'
  BY <1>1, <1>2, <1>4, <1>6, <1>7, <1>8 DEF CallHold
<1>10. \A d \in Calls \ {c} : Same(d)
  BY <1>1, <1>4 DEF Same
<1>11. /\ ws' # None => ws' = ws \/ ~Fresh(ws')
       /\ reading' # None => ~Fresh(reading')
  BY <1>1, <1>2 DEF TaskInv
<1> QED
  BY <1>1, <1>5, <1>6, <1>9, <1>10, <1>11, OneCall

\* What the steps of an event observer make of it.
LEMMA ObserverUpdates ==
    ASSUME NEW o \in Observers
    PROVE  /\ LET u == Unlocked(o)
              IN  u \in Observers /\ u.closed = o.closed /\ u.data = o.data
           /\ LET u == [o EXCEPT !.data = 1]
              IN  u \in Observers /\ u.closed = o.closed
           /\ LET u == [o EXCEPT !.data = 1, !.locked = TRUE]
              IN  u \in Observers /\ u.closed = o.closed
           /\ LET u == Unlocked([o EXCEPT !.data = 0])
              IN  u \in Observers /\ u.closed = o.closed /\ u.data = 0
           /\ LET u == [o EXCEPT !.closed = TRUE, !.data = 0]
              IN  u \in Observers /\ u.closed /\ u.data = 0
  BY DEF Observers, Unlocked

\* The observer of a stream gets bytes.
LEMMA ReadEventsHolds ==
    ASSUME HoldInv, NEW c \in Calls, ReadEvents(c)
    PROVE  HoldInv'
<1>1. /\ pc[c] = "read" /\ Shape[c].stream
      /\ pc' = pc \/ pc' = [pc EXCEPT ![c] = "observe"]
      /\ UNCHANGED <<exchanges, closed, ex, sent, response, todo, ws, reading, fpc>>
  BY DEF ReadEvents, capVars
<1>2. HoldType /\ CallHold(c) /\ TaskInv
  BY DEF HoldInv
<1>3. /\ pc' \in [Calls -> CallSteps] /\ pc'[c] \in {"read", "observe"}
      /\ \A d \in Calls \ {c} : pc'[d] = pc[d]
  BY <1>1, <1>2 DEF HoldType, CallSteps
<1>4. /\ events' \in [Calls -> Observers] /\ events'[c].closed = events[c].closed
      /\ events[c].closed => events'[c].data = events[c].data
      /\ \A d \in Calls \ {c} : events'[d] = events[d]
  <2>1. events \in [Calls -> Observers] /\ events[c] \in Observers
    BY <1>2 DEF HoldType
  <2> DEFINE u == Unlocked(events[c])
             v == [events[c] EXCEPT !.data = 1]
             w == [events[c] EXCEPT !.data = 1, !.locked = TRUE]
  <2>2. \/ events[c].closed /\ events' = [events EXCEPT ![c] = u]
        \/ ~events[c].closed /\ events' = [events EXCEPT ![c] = v]
        \/ ~events[c].closed /\ events' = [events EXCEPT ![c] = w]
    BY <2>1 DEF ReadEvents
  <2>3. /\ u \in Observers /\ u.closed = events[c].closed /\ u.data = events[c].data
        /\ v \in Observers /\ v.closed = events[c].closed
        /\ w \in Observers /\ w.closed = events[c].closed
    BY <2>1, ObserverUpdates
  <2> HIDE DEF u, v, w
  <2> QED
    BY <2>1, <2>2, <2>3
<1>5. HoldType'
  BY <1>1, <1>2, <1>3, <1>4 DEF HoldType
<1>6. ~Fresh(c) /\ (Fresh(c)' <=> Fresh(c))
  BY <1>1, <1>2 DEF CallHold, Fresh, FreshCall
<1>7. OpenCall(c) => OpenCall(c)'
  BY <1>1, <1>3, SameTasks DEF OpenCall, Observed
<1>8. ClosedCall(c) => ClosedCall(c)'
  BY <1>1, <1>3, <1>4, SameTasks DEF ClosedCall, Observed
<1>9. CallHold(c)'
  BY <1>1, <1>2, <1>3, <1>4, <1>6, <1>7, <1>8 DEF CallHold
<1>10. \A d \in Calls \ {c} : Same(d)
  BY <1>1, <1>3, <1>4 DEF Same
<1>11. /\ ws' # None => ws' = ws \/ ~Fresh(ws')
       /\ reading' # None => ~Fresh(reading')
  BY <1>1, <1>2 DEF TaskInv
<1> QED
  BY <1>1, <1>3, <1>5, <1>6, <1>9, <1>10, <1>11, OneCall

\* An event of an exchange.
LEMMA EventUpdates ==
    ASSUME HoldType, NEW c \in Calls, ex' = [ex EXCEPT ![c] = ObserveEvent(ex[c])]
    PROVE  /\ ex' \in [Calls -> ExchangeRecords] /\ \A d \in Calls \ {c} : ex'[d] = ex[d]
           /\ ex'[c].closed = ex[c].closed /\ ex'[c].known = ex[c].known
           /\ ex[c].closed => ex'[c].body = ex[c].body /\ ex'[c].event = ex[c].event
           /\ ex'[c].sent = ex[c].sent
           /\ ex'[c].response = ex[c].response /\ ex'[c].events = ex[c].events
<1> DEFINE u == ObserveEvent(ex[c])
<1>1. ex \in [Calls -> ExchangeRecords] /\ ex[c] \in ExchangeRecords
  BY DEF HoldType
<1>2. /\ u \in ExchangeRecords /\ (ex[c].closed => u = ex[c])
      /\ ~ex[c].closed => /\ ~u.closed /\ u.known = ex[c].known /\ u.sent = ex[c].sent
                          /\ u.response = ex[c].response /\ u.events = ex[c].events
  BY <1>1, ObserveEventFields
<1>3. ex' = [ex EXCEPT ![c] = u]
  OBVIOUS
<1> HIDE DEF u
<1>4. ex[c].closed \in BOOLEAN /\ u.closed \in BOOLEAN
  BY <1>1, <1>2 DEF ExchangeRecords
<1> QED
  BY <1>1, <1>2, <1>3, <1>4

\* The observer hands an event on.
LEMMA FlushHolds ==
    ASSUME HoldInv, NEW c \in Calls, Flush(c)
    PROVE  HoldInv'
<1>1. /\ pc[c] = "observe" /\ pc' = [pc EXCEPT ![c] = "read"]
      /\ ex' = [ex EXCEPT ![c] = ObserveEvent(ex[c])]
      /\ UNCHANGED <<exchanges, closed, sent, response, todo, ws, reading, fpc>>
  BY DEF Flush, capVars
<1>2. HoldType /\ CallHold(c) /\ TaskInv
  BY DEF HoldInv
<1>3. /\ pc' \in [Calls -> CallSteps] /\ pc'[c] = "read" /\ Shape[c].stream
      /\ \A d \in Calls \ {c} : pc'[d] = pc[d]
  BY <1>1, <1>2 DEF HoldType, CallSteps, CallHold
<1>4. /\ events' \in [Calls -> Observers] /\ events'[c].closed = events[c].closed
      /\ events'[c].data = 0 /\ \A d \in Calls \ {c} : events'[d] = events[d]
  <2>1. events \in [Calls -> Observers] /\ events[c] \in Observers
    BY <1>2 DEF HoldType
  <2> DEFINE u == Unlocked([events[c] EXCEPT !.data = 0])
  <2>2. events' = [events EXCEPT ![c] = u]
    BY <2>1 DEF Flush
  <2>3. u \in Observers /\ u.closed = events[c].closed /\ u.data = 0
    BY <2>1, ObserverUpdates
  <2> HIDE DEF u
  <2> QED
    BY <2>1, <2>2, <2>3
<1>5. /\ ex' \in [Calls -> ExchangeRecords] /\ \A d \in Calls \ {c} : ex'[d] = ex[d]
      /\ ex'[c].closed = ex[c].closed /\ ex'[c].known = ex[c].known
      /\ ex[c].closed => ex'[c].body = ex[c].body /\ ex'[c].event = ex[c].event
      /\ ex'[c].sent = ex[c].sent
      /\ ex'[c].response = ex[c].response /\ ex'[c].events = ex[c].events
  BY <1>1, <1>2, EventUpdates
<1>6. HoldType'
  BY <1>1, <1>2, <1>3, <1>4, <1>5 DEF HoldType
<1>7. ~Fresh(c) /\ (Fresh(c)' <=> Fresh(c))
  BY <1>1, <1>2, <1>5 DEF CallHold, Fresh, FreshCall
<1>8. OpenCall(c) => OpenCall(c)'
  BY <1>1, <1>3, <1>4, <1>5, SameTasks DEF OpenCall, Observed
<1>9. ex[c].closed /\ ClosedCall(c) => ClosedCall(c)'
  BY <1>1, <1>3, <1>4, <1>5, SameTasks DEF ClosedCall, Observed
<1>10. CallHold(c)'
  BY <1>1, <1>2, <1>3, <1>4, <1>5, <1>7, <1>8, <1>9 DEF CallHold
<1>11. \A d \in Calls \ {c} : Same(d)
  BY <1>1, <1>3, <1>4, <1>5 DEF Same
<1>12. /\ ws' # None => ws' = ws \/ ~Fresh(ws')
       /\ reading' # None => ~Fresh(reading')
  BY <1>1, <1>2 DEF TaskInv
<1> QED
  BY <1>1, <1>3, <1>6, <1>7, <1>10, <1>11, <1>12, OneCall

\* The reader of a WebSocket adds its message.
LEMMA ObserveMessageHolds ==
    ASSUME HoldInv, ObserveMessage
    PROVE  HoldInv'
<1>1. /\ reading # None /\ reading' = None
      /\ ex' = [ex EXCEPT ![reading] = ObserveEvent(ex[reading])]
      /\ UNCHANGED <<exchanges, closed, sent, response, events, pc, todo, ws, fpc>>
  BY DEF ObserveMessage, capVars, bufVars
<1>2. HoldType /\ TaskInv
  BY DEF HoldInv
<1>3. PICK c \in Calls : c = reading
  BY <1>1, <1>2 DEF HoldType
<1>4. CallHold(c) /\ ~Fresh(c)
  BY <1>1, <1>2, <1>3 DEF HoldInv, TaskInv
<1>5. /\ ex' \in [Calls -> ExchangeRecords] /\ \A d \in Calls \ {c} : ex'[d] = ex[d]
      /\ ex'[c].closed = ex[c].closed /\ ex'[c].known = ex[c].known
      /\ ex[c].closed => ex'[c].body = ex[c].body /\ ex'[c].event = ex[c].event
      /\ ex'[c].sent = ex[c].sent
      /\ ex'[c].response = ex[c].response /\ ex'[c].events = ex[c].events
  BY <1>1, <1>2, <1>3, EventUpdates
<1>6. HoldType'
  BY <1>1, <1>2, <1>5 DEF HoldType
<1>7. Fresh(c)' <=> Fresh(c)
  BY <1>5 DEF Fresh
<1>8. OpenCall(c) => OpenCall(c)'
  BY <1>1, <1>5, SameTasks DEF OpenCall, Observed
<1>9. ex[c].closed /\ ClosedCall(c) => ClosedCall(c)'
  BY <1>1, <1>5, SameTasks DEF ClosedCall, Observed
<1>10. CallHold(c)'
  BY <1>1, <1>4, <1>5, <1>7, <1>8, <1>9 DEF CallHold
<1>11. \A d \in Calls \ {c} : Same(d)
  BY <1>1, <1>5 DEF Same
<1>12. /\ ws' # None => ws' = ws \/ ~Fresh(ws')
       /\ reading' # None => ~Fresh(reading')
  BY <1>1
<1> QED
  BY <1>1, <1>6, <1>7, <1>10, <1>11, <1>12, OneCall

\* A WebSocket goes to the exchange of its latest message, and its reader reads which
\* it is.
LEMMA SocketHolds ==
    ASSUME HoldInv, (\E c \in Calls : SetExchange(c)) \/ ReadMessage
    PROVE  HoldInv'
<1>1. HoldType /\ TaskInv /\ FinishInv
  BY DEF HoldInv
<1>2. ASSUME NEW c \in Calls, SetExchange(c)
      PROVE  HoldInv'
  <2>1. /\ pc[c] \in {"set", "setNil"} /\ pc' = [pc EXCEPT ![c] = "done"]
        /\ ws' = IF pc[c] = "set" THEN c ELSE None
        /\ UNCHANGED <<exchanges, closed, ex, sent, response, events, todo, reading, fpc>>
    BY <1>2 DEF SetExchange, capVars, bufVars
  <2>2. CallHold(c)
    BY DEF HoldInv
  <2>3. /\ pc' \in [Calls -> CallSteps] /\ pc'[c] = "done"
        /\ \A d \in Calls \ {c} : pc'[d] = pc[d]
    BY <1>1, <2>1 DEF HoldType, CallSteps
  <2>4. HoldType'
    BY <1>1, <2>1, <2>3 DEF HoldType
  <2>5. (Fresh(c)' <=> Fresh(c)) /\ (pc[c] = "set" => ~Fresh(c))
    BY <2>1, <2>2 DEF CallHold, Fresh, FreshCall
  <2>6. FreshCall(c) => FreshCall(c)'
    BY <2>1, <2>3 DEF FreshCall
  <2>7. OpenCall(c) => OpenCall(c)'
    BY <2>1, <2>3, SameTasks DEF OpenCall, Observed
  <2>8. ClosedCall(c) => ClosedCall(c)'
    BY <2>1, <2>3, SameTasks DEF ClosedCall, Observed
  <2>9. CallHold(c)'
    BY <2>1, <2>2, <2>3, <2>5, <2>6, <2>7, <2>8 DEF CallHold
  <2>10. \A d \in Calls \ {c} : Same(d)
    BY <2>1, <2>3 DEF Same
  <2>11. /\ ws' # None => ws' = ws \/ ~Fresh(ws')
         /\ reading' # None => ~Fresh(reading')
    BY <1>1, <2>1, <2>5 DEF TaskInv
  <2> QED
    BY <2>1, <2>3, <2>4, <2>5, <2>9, <2>10, <2>11, OneCall
<1>3. CASE ReadMessage
  <2>1. /\ ws # None /\ reading' = ws
        /\ UNCHANGED <<exchanges, closed, ex, sent, response, events, pc, todo, ws, fpc>>
    BY <1>3 DEF ReadMessage, capVars, bufVars
  <2>2. HoldType' /\ FinishInv'
    BY <1>1, <2>1 DEF HoldType, FinishInv
  <2>3. TaskInv'
    BY <1>1, <2>1 DEF TaskInv, Fresh
  <2>4. ASSUME NEW d \in Calls
        PROVE  CallHold(d)'
    <3>1. CallHold(d) /\ Same(d)
      BY <2>1 DEF HoldInv, Same
    <3> QED
      BY <2>1, <3>1, SameTasks, FrameCall
  <2> QED
    BY <2>2, <2>3, <2>4 DEF HoldInv
<1> QED
  BY <1>2, <1>3

-----------------------------------------------------------------------------
(* Publication, release and Finish. *)

\* The members of a sequence.
LEMMA Members ==
    ASSUME NEW S, NEW s \in Seq(S)
    PROVE  /\ ToSet(s) = {s[i] : i \in 1..Len(s)} /\ ToSet(s) \subseteq S
           /\ \A x \in S : Append(s, x) \in Seq(S) /\ ToSet(Append(s, x)) = ToSet(s) \cup {x}
<1>1. Len(s) \in Nat /\ DOMAIN s = 1..Len(s)
  OBVIOUS
<1>2. ToSet(s) = {s[i] : i \in 1..Len(s)} /\ ToSet(s) \subseteq S
  BY <1>1 DEF ToSet
<1>3. ASSUME NEW x \in S
      PROVE  Append(s, x) \in Seq(S) /\ ToSet(Append(s, x)) = ToSet(s) \cup {x}
  <2> DEFINE t == Append(s, x)
  <2>1. /\ t \in Seq(S) /\ DOMAIN t = 1..(Len(s) + 1) /\ t[Len(s) + 1] = x
        /\ \A i \in 1..Len(s) : t[i] = s[i]
    BY <1>1
  <2> HIDE DEF t
  <2>2. 1..(Len(s) + 1) = 1..Len(s) \cup {Len(s) + 1}
    BY <1>1
  <2>3. ToSet(t) = {t[i] : i \in 1..Len(s) \cup {Len(s) + 1}}
    BY <2>1, <2>2 DEF ToSet
  <2>4. ToSet(t) = {s[i] : i \in 1..Len(s)} \cup {x}
    BY <2>1, <2>3
  <2> QED
    BY <1>2, <2>1, <2>4 DEF t
<1> QED
  BY <1>2, <1>3

\* Only the evicted exchange leaves the capture.
LEMMA EvictMembers ==
    ASSUME NEW s \in Seq(Calls), Len(s) >= 2
    PROVE  /\ Evict(s) \in Seq(Calls) /\ ToSet(Evict(s)) \subseteq ToSet(s)
           /\ ToSet(s) \subseteq ToSet(Evict(s)) \cup {s[2]} /\ s[2] \in ToSet(s)
<1> DEFINE e == Evict(s)
           n == Len(s)
<1>1. /\ e \in Seq(Calls) /\ Len(e) = n - 1 /\ e[1] = s[1] /\ n \in Nat /\ n >= 2
      /\ \A i \in 2..(n - 1) : e[i] = s[i + 1]
  BY EvictProperties
<1> HIDE DEF e
<1>2. ToSet(s) = {s[i] : i \in 1..n} /\ ToSet(e) = {e[i] : i \in 1..(n - 1)}
  BY <1>1, Members
<1>3. ASSUME NEW i \in 1..(n - 1)
      PROVE  e[i] \in ToSet(s)
  <2>1. CASE i = 1
    <3>1. 1 \in 1..n
      BY <1>1
    <3> QED
      BY <2>1, <3>1, <1>1, <1>2
  <2>2. CASE i # 1
    <3>1. i \in 2..(n - 1) /\ i + 1 \in 1..n
      BY <2>2, <1>1
    <3> QED
      BY <3>1, <1>1, <1>2
  <2> QED
    BY <2>1, <2>2
<1>4. ASSUME NEW i \in 1..n
      PROVE  s[i] \in ToSet(e) \cup {s[2]}
  <2>1. CASE i = 1
    <3>1. 1 \in 1..(n - 1)
      BY <1>1
    <3> QED
      BY <2>1, <3>1, <1>1, <1>2
  <2>2. CASE i > 2
    <3>1. i - 1 \in 2..(n - 1) /\ i - 1 \in 1..(n - 1) /\ (i - 1) + 1 = i
      BY <2>2, <1>1
    <3>2. e[i - 1] = s[i]
      BY <3>1, <1>1
    <3> QED
      BY <3>1, <3>2, <1>2
  <2> QED
    BY <2>1, <2>2
<1>5. s[2] \in ToSet(s)
  <2>1. 2 \in 1..n
    BY <1>1
  <2> QED
    BY <2>1, <1>2
<1> QED
  BY <1>1, <1>2, <1>3, <1>4, <1>5 DEF e

\* record publishes an exchange, or finds the capture closed.
LEMMA PublishHolds ==
    ASSUME HoldInv, KeepInv, NEW c \in Calls, Publish(c)
    PROVE  HoldInv'
<1>1. HoldType /\ CallHold(c) /\ TaskInv /\ FinishInv
  BY DEF HoldInv
<1>2. pc[c] = "copied" /\ UNCHANGED <<response, events, ws, reading, fpc>>
  BY DEF Publish
<1>3. Fresh(c) /\ FreshCall(c) /\ todo[c] = <<>>
  BY <1>1, <1>2 DEF CallHold, TaskInv
<1>4. c \in Goroutines /\ "Finish" \in Goroutines /\ c # "Finish"
  BY TraceAssumption DEF Goroutines
<1>5. CASE Closed /\ UNCHANGED <<exchanges, closed, ex, todo>>
  <2>1. pc' = [pc EXCEPT ![c] = Untraced(c)] /\ sent' = [sent EXCEPT ![c] = Released]
    BY <1>3, <1>5 DEF Publish
  <2>2. /\ pc' \in [Calls -> CallSteps] /\ pc'[c] \in {"setNil", "done"}
        /\ \A d \in Calls \ {c} : pc'[d] = pc[d]
    BY <1>1, <2>1 DEF HoldType, CallSteps, Untraced
  <2>3. /\ sent' \in [Calls -> Buffers] /\ sent'[c].closed /\ sent'[c].data = 0
        /\ \A d \in Calls \ {c} : sent'[d] = sent[d]
    BY <1>1, <2>1 DEF HoldType, Buffers, Released
  <2>4. HoldType'
    BY <1>1, <1>2, <1>5, <2>2, <2>3 DEF HoldType
  <2>5. Fresh(c)' /\ FreshCall(c)'
    BY <1>2, <1>3, <1>5, <2>2, <2>3 DEF Fresh, FreshCall
  <2>6. CallHold(c)'
    BY <1>1, <1>2, <1>5, <2>2, <2>3, <2>5 DEF CallHold, Fresh
  <2>7. \A d \in Calls \ {c} : Same(d)
    BY <1>2, <1>5, <2>2, <2>3 DEF Same
  <2>8. /\ ws' # None => ws' = ws \/ ~Fresh(ws')
        /\ reading' # None => ~Fresh(reading')
    BY <1>1, <1>2 DEF TaskInv
  <2> QED
    BY <1>2, <1>3, <1>5, <2>2, <2>4, <2>6, <2>7, <2>8, OneCall
<1>6. CASE /\ ~Closed /\ UNCHANGED <<closed, sent>>
           /\ ex' = [ex EXCEPT ![c] = NewExchange(c)]
  <2>1. /\ pc' \in [Calls -> CallSteps] /\ pc'[c] \in {"set", "send"}
        /\ \A d \in Calls \ {c} : pc'[d] = pc[d]
    <3>1. pc' = [pc EXCEPT ![c] = IF Shape[c].ws THEN "set" ELSE "send"]
      BY <1>6 DEF Publish
    <3> QED
      BY <1>1, <3>1 DEF HoldType, CallSteps
  <2>2. /\ ex' \in [Calls -> ExchangeRecords] /\ ex'[c].known /\ ~ex'[c].closed
        /\ Observed(c) => ex'[c].sent
        /\ \A d \in Calls \ {c} : ex'[d] = ex[d]
    <3> DEFINE u == NewExchange(c)
    <3>1. ex' = [ex EXCEPT ![c] = u] /\ ex \in [Calls -> ExchangeRecords]
      BY <1>1, <1>6 DEF HoldType
    <3>2. u \in ExchangeRecords /\ u.known /\ ~u.closed /\ (u.sent <=> Observed(c))
      BY NewExchangeFields
    <3> HIDE DEF u
    <3> QED
      BY <3>1, <3>2
  <2>3. /\ exchanges \in Seq(Calls) /\ ToSet(exchanges) \subseteq Calls
        /\ \A d \in Calls \ {c} :
               d \in ToSet(exchanges) => d \in ToSet(exchanges') \/ Pending("exchange", d)'
        /\ c \in ToSet(exchanges') /\ ToSet(exchanges') \subseteq ToSet(exchanges) \cup {c}
        /\ \A g \in Goroutines : todo'[g] = todo[g]
                                 \/ ToSet(todo'[g]) \subseteq {<<"exchange", exchanges[2]>>}
        /\ todo'["Finish"] = todo["Finish"] /\ todo' \in [Goroutines -> Seq(Tasks)]
        /\ \A d \in Calls \ {c} : todo'[d] = todo[d]
        /\ todo' = todo \/ exchanges[2] \in ToSet(exchanges)
    <3>1. exchanges \in Seq(Calls) /\ ToSet(exchanges) \subseteq Calls
      BY Members DEF KeepInv
    <3>2. CASE exchanges' = Append(exchanges, c) /\ UNCHANGED todo
      <4>1. ToSet(exchanges') = ToSet(exchanges) \cup {c}
        BY <3>1, <3>2, Members
      <4> QED
        BY <3>1, <3>2, <4>1, <1>1 DEF HoldType
    <3>3. CASE /\ ~(Len(exchanges) < MaxRequests) /\ exchanges' = Append(Evict(exchanges), c)
               /\ todo' = [todo EXCEPT ![c] = <<<<"exchange", exchanges[2]>>>>]
      <4>1. Len(exchanges) >= 2
        BY <1>6, <3>3, KeptLength, TraceAssumption DEF Closed
      <4> DEFINE e == Evict(exchanges)
                 t == <<"exchange", exchanges[2]>>
      <4>2. /\ e \in Seq(Calls) /\ ToSet(e) \subseteq ToSet(exchanges)
            /\ ToSet(exchanges) \subseteq ToSet(e) \cup {exchanges[2]}
            /\ exchanges[2] \in ToSet(exchanges)
        BY <3>1, <4>1, EvictMembers
      <4>3. ToSet(exchanges') = ToSet(e) \cup {c}
        BY <3>3, <4>2, Members
      <4>4. t \in Tasks
        BY <3>1, <4>2 DEF Tasks
      <4>5. <<t>> \in Seq(Tasks) /\ ToSet(<<t>>) = {t}
        <5> HIDE DEF t
        <5>1. <<t>> \in Seq(Tasks) /\ DOMAIN <<t>> = 1..1 /\ <<t>>[1] = t
          BY <4>4
        <5>2. 1..1 = {1}
          OBVIOUS
        <5> QED
          BY <5>1, <5>2 DEF ToSet
      <4>6. todo' = [todo EXCEPT ![c] = <<t>>]
        BY <3>3
      <4> HIDE DEF t, e
      <4>7. /\ todo' \in [Goroutines -> Seq(Tasks)] /\ todo'[c] = <<t>>
            /\ \A g \in Goroutines \ {c} : todo'[g] = todo[g]
        BY <1>1, <1>4, <4>5, <4>6 DEF HoldType
      <4>8. ASSUME NEW d \in Calls, d = exchanges[2]
            PROVE  Pending("exchange", d)'
        <5>1. <<"exchange", d>> \in ToSet(todo'[c])
          BY <4>5, <4>7, <4>8 DEF t
        <5> QED
          BY <5>1, <1>4 DEF Pending
      <4>9. \A d \in Calls \ {c} :
                d \in ToSet(exchanges) => d \in ToSet(exchanges') \/ Pending("exchange", d)'
        BY <4>2, <4>3, <4>8
      <4>10. /\ \A g \in Goroutines : todo'[g] = todo[g] \/ ToSet(todo'[g]) \subseteq {t}
             /\ todo'["Finish"] = todo["Finish"]
             /\ \A d \in Calls \ {c} : todo'[d] = todo[d]
        BY <4>5, <4>7, <1>4 DEF Goroutines
      <4>11. c \in ToSet(exchanges') /\ ToSet(exchanges') \subseteq ToSet(exchanges) \cup {c}
        BY <4>2, <4>3
      <4> QED
        BY <3>1, <4>2, <4>7, <4>9, <4>10, <4>11 DEF t
    <3> QED
      BY <1>6, <3>2, <3>3 DEF Publish
  <2>4. HoldType'
    BY <1>1, <1>2, <1>6, <2>1, <2>2, <2>3 DEF HoldType
  <2>5. ASSUME NEW d \in Calls
        PROVE  Fresh(d)' => Fresh(d)
    BY <2>2 DEF Fresh
  <2>6. ASSUME NEW d \in Calls \ {c}
        PROVE  CallHold(d)'
    <3>1. CallHold(d) /\ Same(d)
      BY <1>2, <1>6, <2>1, <2>2 DEF HoldInv, Same
    <3>2. ASSUME NEW k \in {"exchange", "sent", "response", "events"}, Pending(k, d)
          PROVE  Pending(k, d)'
      <4>1. PICK g \in Goroutines : <<k, d>> \in ToSet(todo[g])
        BY <3>2 DEF Pending
      <4>2. g # c
        BY <1>3, <4>1 DEF ToSet
      <4>3. todo'[g] = todo[g]
        BY <4>2, <2>3 DEF Goroutines
      <4> QED
        BY <4>1, <4>3 DEF Pending
    <3> QED
      BY <2>3, <3>1, <3>2, FrameCall
  <2>7. CallHold(c)'
    <3>1. OpenCall(c)'
      BY <1>2, <1>3, <1>6, <2>1, <2>2, <2>3 DEF OpenCall, FreshCall, Observed
    <3> QED
      BY <1>1, <1>2, <1>6, <2>1, <2>2, <3>1 DEF CallHold, Fresh
  <2>8. TaskInv'
    <3>1. ASSUME NEW g \in Goroutines, NEW t \in ToSet(todo'[g])
          PROVE  ~Fresh(t[2])'
      <4>1. CASE todo'[g] = todo[g]
        <5>1. t[2] \in Calls /\ ~Fresh(t[2])
          BY <4>1, <1>1, TaskFields DEF TaskInv
        <5> QED
          BY <5>1, <2>5
      <4>2. CASE t = <<"exchange", exchanges[2]>> /\ exchanges[2] \in ToSet(exchanges)
        <5>1. t[2] = exchanges[2] /\ t[2] \in Calls /\ ~Fresh(t[2])
          BY <4>2, <1>1 DEF TaskInv
        <5> QED
          BY <5>1, <2>5
      <4> QED
        BY <2>3, <4>1, <4>2
    <3>2. ASSUME NEW d \in ToSet(exchanges')
          PROVE  d \in Calls /\ ~Fresh(d)'
      BY <1>1, <2>2, <2>3, <2>5 DEF TaskInv, Fresh
    <3>3. ws \in Calls \cup {None} /\ reading \in Calls \cup {None}
      BY <1>1 DEF HoldType
    <3>4. (ws' # None => ~Fresh(ws)') /\ (reading' # None => ~Fresh(reading)')
      BY <1>1, <1>2, <2>5, <3>3 DEF TaskInv, Fresh
    <3>5. \A d \in Calls : pc'[d] \in {"start", "copied"} => todo'[d] = <<>>
      BY <1>1, <2>1, <2>3 DEF TaskInv
    <3> QED
      BY <3>1, <3>2, <3>4, <3>5 DEF TaskInv
  <2>9. FinishInv'
    BY <1>1, <1>2, <1>6, <2>3 DEF FinishInv, Closed
  <2> QED
    BY <2>4, <2>6, <2>7, <2>8, <2>9 DEF HoldInv
<1> QED
  BY <1>5, <1>6 DEF Publish, capVars

\* What is left of a release once its first task is done.
LEMMA TailTasks ==
    ASSUME NEW s \in Seq(Tasks), s # <<>>
    PROVE  /\ Tail(s) \in Seq(Tasks) /\ s[1] \in ToSet(s)
           /\ ToSet(s) \subseteq {s[1]} \cup ToSet(Tail(s))
           /\ ToSet(Tail(s)) \subseteq ToSet(s)
<1> DEFINE t == Tail(s)
           n == Len(s)
<1>1. n \in Nat /\ n >= 1 /\ DOMAIN s = 1..n
  BY EmptySeq
<1>2. t \in Seq(Tasks) /\ Len(t) = n - 1 /\ \A i \in 1..(n - 1) : t[i] = s[i + 1]
  BY <1>1, HeadTailProperties
<1> HIDE DEF t
<1>3. ToSet(s) = {s[i] : i \in 1..n} /\ ToSet(t) = {t[i] : i \in 1..(n - 1)}
  BY <1>2, Members
<1>4. ASSUME NEW i \in 1..n
      PROVE  s[i] \in {s[1]} \cup ToSet(t)
  <2>1. CASE i # 1
    <3>1. i - 1 \in 1..(n - 1) /\ (i - 1) + 1 = i
      BY <2>1, <1>1
    <3>2. t[i - 1] = s[i]
      BY <3>1, <1>2
    <3> QED
      BY <3>1, <3>2, <1>3
  <2> QED
    BY <2>1
<1>5. ASSUME NEW i \in 1..(n - 1)
      PROVE  t[i] \in ToSet(s)
  <2>1. i + 1 \in 1..n
    BY <1>1
  <2> QED
    BY <2>1, <1>2, <1>3
<1>6. s[1] \in ToSet(s)
  <2>1. 1 \in 1..n
    BY <1>1
  <2> QED
    BY <2>1, <1>3
<1> QED
  BY <1>2, <1>3, <1>4, <1>5, <1>6 DEF t

\* A release takes its first task.
LEMMA ReleaseHolds ==
    ASSUME HoldInv, NEW g \in Goroutines, Release(g)
    PROVE  HoldInv'
<1>1. HoldType /\ TaskInv /\ FinishInv
  BY DEF HoldInv
<1>2. /\ todo[g] # <<>>
      /\ UNCHANGED <<exchanges, closed, pc, ws, reading, fpc>>
  BY DEF Release, capVars
<1>3. todo \in [Goroutines -> Seq(Tasks)] /\ todo[g] \in Seq(Tasks)
  BY <1>1 DEF HoldType
<1>4. /\ Tail(todo[g]) \in Seq(Tasks) /\ todo[g][1] \in ToSet(todo[g])
      /\ ToSet(todo[g]) \subseteq {todo[g][1]} \cup ToSet(Tail(todo[g]))
      /\ ToSet(Tail(todo[g])) \subseteq ToSet(todo[g])
  BY <1>2, <1>3, TailTasks
<1>5. PICK k \in {"exchange", "sent", "response", "events"}, c \in Calls :
          todo[g][1] = <<k, c>>
  BY <1>1, <1>4, TaskFields DEF Tasks
<1>6. ~Fresh(c)
  <2>1. ~Fresh(todo[g][1][2])
    BY <1>1, <1>4 DEF TaskInv
  <2> QED
    BY <2>1, <1>5
<1>7. CallHold(c)
  BY DEF HoldInv
<1>8. /\ k = "exchange" => ReleaseExchange(g, c)
      /\ k # "exchange" => ReleaseBuffer(g, k, c)
  BY <1>5 DEF Release
\* The effect on todo.
<1>9. /\ todo' \in [Goroutines -> Seq(Tasks)]
      /\ \A h \in Goroutines \ {g} : todo'[h] = todo[h]
      /\ ToSet(Tail(todo[g])) \subseteq ToSet(todo'[g])
      /\ \A t \in ToSet(todo'[g]) : t \in ToSet(todo[g]) \/ (k = "exchange" /\ t[2] = c)
      /\ k = "exchange" => ToSet(Parts(c)) \subseteq ToSet(todo'[g])
  <2>1. CASE k = "exchange"
    <3> DEFINE p == Parts(c)
               r == Tail(todo[g])
    <3>1. todo' = [todo EXCEPT ![g] = p \o r]
      BY <2>1, <1>8 DEF ReleaseExchange
    <3>2. p \in Seq(Tasks) /\ \A t \in ToSet(p) : t[2] = c
      BY <1>1, PartsProperties
    <3>3. r \in Seq(Tasks) /\ ToSet(r) \subseteq ToSet(todo[g])
      BY <1>4
    <3> HIDE DEF p, r
    <3>4. p \o r \in Seq(Tasks) /\ ToSet(p \o r) = ToSet(p) \cup ToSet(r)
      BY <3>2, <3>3, ConcatSet
    <3>5. todo'[g] = p \o r
      BY <1>3, <3>1
    <3>6. todo' \in [Goroutines -> Seq(Tasks)] /\ \A h \in Goroutines \ {g} : todo'[h] = todo[h]
      BY <1>3, <3>1, <3>4
    <3> QED
      BY <2>1, <3>2, <3>3, <3>4, <3>5, <3>6 DEF p, r
  <2>2. CASE k # "exchange"
    <3>1. todo' = [todo EXCEPT ![g] = Tail(todo[g])]
      BY <2>2, <1>8 DEF ReleaseBuffer
    <3>2. todo'[g] = Tail(todo[g])
      BY <1>3, <3>1
    <3>3. todo' \in [Goroutines -> Seq(Tasks)] /\ \A h \in Goroutines \ {g} : todo'[h] = todo[h]
      BY <1>3, <1>4, <3>1
    <3> QED
      BY <2>2, <1>4, <3>2, <3>3
  <2> QED
    BY <2>1, <2>2
\* No other task is lost.
<1>10. ASSUME NEW l \in {"exchange", "sent", "response", "events"}, NEW d \in Calls,
              Pending(l, d), <<l, d>> # <<k, c>>
       PROVE  Pending(l, d)'
  <2>1. PICK h \in Goroutines : <<l, d>> \in ToSet(todo[h])
    BY <1>10 DEF Pending
  <2>2. <<l, d>> \in ToSet(todo'[h])
    <3>1. CASE h = g
      BY <3>1, <2>1, <1>4, <1>5, <1>9, <1>10
    <3>2. CASE h # g
      BY <3>2, <2>1, <1>9
    <3> QED
      BY <3>1, <3>2
  <2> QED
    BY <2>2 DEF Pending
<1>11. ASSUME \A d \in Calls : Fresh(d)' => Fresh(d)
       PROVE  TaskInv' /\ FinishInv'
  <2>1. ASSUME NEW h \in Goroutines, NEW t \in ToSet(todo'[h])
        PROVE  ~Fresh(t[2])'
    <3>1. CASE t \in ToSet(todo[h])
      <4>1. t[2] \in Calls /\ ~Fresh(t[2])
        BY <3>1, <1>1, TaskFields DEF TaskInv
      <4> QED
        BY <4>1, <1>11
    <3>2. CASE t[2] = c
      BY <3>2, <1>6, <1>11
    <3> QED
      BY <1>9, <3>1, <3>2
  <2>2. \A d \in ToSet(exchanges') : d \in Calls /\ ~Fresh(d)'
    BY <1>1, <1>2, <1>11 DEF TaskInv
  <2>3. ws \in Calls \cup {None} /\ reading \in Calls \cup {None}
    BY <1>1 DEF HoldType
  <2>4. (ws' # None => ~Fresh(ws)') /\ (reading' # None => ~Fresh(reading)')
    BY <1>1, <1>2, <1>11, <2>3 DEF TaskInv, Fresh
  <2>5. \A d \in Calls : pc'[d] \in {"start", "copied"} => todo'[d] = <<>>
    BY <1>1, <1>2, <1>9 DEF TaskInv, Goroutines
  <2>6. TaskInv'
    BY <2>1, <2>2, <2>4, <2>5 DEF TaskInv
  <2>7. FinishInv'
    BY <1>1, <1>2, <1>9 DEF FinishInv, Goroutines
  <2> QED
    BY <2>6, <2>7
\* The effect on what the calls have.
<1>12. CASE k = "exchange"
  <2> DEFINE u == [Blank EXCEPT !.closed = TRUE]
  <2>1. ex' = [ex EXCEPT ![c] = u] /\ UNCHANGED <<sent, response, events>>
    BY <1>8, <1>12 DEF ReleaseExchange, bufVars
  <2>2. u \in ExchangeRecords /\ u.closed /\ u.body = 0 /\ u.event = 0
    BY BlankFields
  <2> HIDE DEF u
  <2>3. /\ ex' \in [Calls -> ExchangeRecords] /\ \A d \in Calls \ {c} : ex'[d] = ex[d]
        /\ ex'[c].closed /\ ex'[c].body = 0 /\ ex'[c].event = 0
    BY <1>1, <2>1, <2>2 DEF HoldType
  <2>4. HoldType'
    BY <1>1, <1>2, <1>9, <2>1, <2>3 DEF HoldType
  <2>5. \A d \in Calls : Fresh(d)' => Fresh(d)
    BY <2>3 DEF Fresh
  <2>6. ASSUME NEW d \in Calls \ {c}
        PROVE  CallHold(d)'
    <3>1. CallHold(d) /\ Same(d)
      BY <1>2, <2>1, <2>3 DEF HoldInv, Same
    <3>2. \A l \in {"exchange", "sent", "response", "events"} : Pending(l, d) => Pending(l, d)'
      BY <1>10
    <3> QED
      BY <1>2, <3>1, <3>2, FrameCall
  <2>7. /\ ex[c].sent => Pending("sent", c)'
        /\ ex[c].response => Pending("response", c)'
        /\ ex[c].events => Pending("events", c)'
    <3>1. /\ ex[c].sent => <<"sent", c>> \in ToSet(todo'[g])
          /\ ex[c].response => <<"response", c>> \in ToSet(todo'[g])
          /\ ex[c].events => <<"events", c>> \in ToSet(todo'[g])
      BY <1>1, <1>9, <1>12, PartsProperties
    <3> QED
      BY <3>1 DEF Pending
  <2>8. ClosedCall(c)'
    <3>1. CASE ex[c].closed
      <4>1. ClosedCall(c)
        BY <3>1, <1>7 DEF CallHold
      <4>2. \A l \in {"sent", "response", "events"} : Pending(l, c) => Pending(l, c)'
        BY <1>10, <1>12
      <4> QED
        BY <1>2, <2>1, <2>3, <4>1, <4>2 DEF ClosedCall, Observed
    <3>2. CASE ~ex[c].closed
      <4>1. OpenCall(c)
        BY <3>2, <1>6, <1>7 DEF CallHold, Fresh
      <4> QED
        BY <1>2, <2>1, <2>3, <2>7, <4>1 DEF OpenCall, ClosedCall, Observed
    <3> QED
      BY <3>1, <3>2
  <2>9. CallHold(c)'
    BY <1>2, <1>6, <1>7, <2>1, <2>3, <2>8 DEF CallHold, Fresh
  <2> QED
    BY <1>11, <2>4, <2>5, <2>6, <2>9 DEF HoldInv
<1>13. CASE k # "exchange"
  <2>1. /\ UNCHANGED ex
        /\ sent' = IF k = "sent" THEN [sent EXCEPT ![c] = Released] ELSE sent
        /\ response' = IF k = "response" THEN [response EXCEPT ![c] = Released] ELSE response
        /\ events' = IF k = "events" THEN [events EXCEPT ![c].closed = TRUE, ![c].data = 0]
                     ELSE events
    BY <1>8, <1>13 DEF ReleaseBuffer
  <2>2. /\ sent' \in [Calls -> Buffers] /\ \A d \in Calls \ {c} : sent'[d] = sent[d]
        /\ IF k = "sent" THEN sent'[c].closed /\ sent'[c].data = 0 ELSE sent'[c] = sent[c]
    BY <1>1, <2>1 DEF HoldType, Buffers, Released
  <2>3. /\ response' \in [Calls -> Buffers] /\ \A d \in Calls \ {c} : response'[d] = response[d]
        /\ IF k = "response" THEN response'[c].closed /\ response'[c].data = 0
           ELSE response'[c] = response[c]
    BY <1>1, <2>1 DEF HoldType, Buffers, Released
  <2>4. /\ events' \in [Calls -> Observers] /\ \A d \in Calls \ {c} : events'[d] = events[d]
        /\ IF k = "events" THEN events'[c].closed /\ events'[c].data = 0
           ELSE events'[c] = events[c]
    <3>1. events \in [Calls -> Observers] /\ events[c] \in Observers
      BY <1>1 DEF HoldType
    <3> DEFINE u == [events[c] EXCEPT !.closed = TRUE, !.data = 0]
    <3>2. events' = IF k = "events" THEN [events EXCEPT ![c] = u] ELSE events
      BY <2>1, <3>1
    <3>3. u \in Observers /\ u.closed /\ u.data = 0
      BY <3>1, ObserverUpdates
    <3> HIDE DEF u
    <3> QED
      BY <3>1, <3>2, <3>3
  <2>5. HoldType'
    BY <1>1, <1>2, <1>9, <2>1, <2>2, <2>3, <2>4 DEF HoldType
  <2>6. \A d \in Calls : Fresh(d)' => Fresh(d)
    BY <2>1 DEF Fresh
  <2>7. ASSUME NEW d \in Calls \ {c}
        PROVE  CallHold(d)'
    <3>1. CallHold(d) /\ Same(d)
      BY <1>2, <2>1, <2>2, <2>3, <2>4 DEF HoldInv, Same
    <3>2. \A l \in {"exchange", "sent", "response", "events"} : Pending(l, d) => Pending(l, d)'
      BY <1>10
    <3> QED
      BY <1>2, <3>1, <3>2, FrameCall
  <2>8. \A l \in {"exchange", "sent", "response", "events"} \ {k} :
            Pending(l, c) => Pending(l, c)'
    BY <1>10
  <2>9. OpenCall(c) => OpenCall(c)'
    <3>1. Pending("exchange", c) => Pending("exchange", c)'
      BY <2>8, <1>13
    <3> QED
      BY <1>2, <2>1, <2>2, <2>3, <2>4, <3>1 DEF OpenCall, Observed
  <2>10. ClosedCall(c) => ClosedCall(c)'
    <3>1. /\ Pending("sent", c) => Pending("sent", c)' \/ k = "sent"
          /\ Pending("response", c) => Pending("response", c)' \/ k = "response"
          /\ Pending("events", c) => Pending("events", c)' \/ k = "events"
      BY <2>8
    <3> QED
      BY <1>2, <2>1, <2>2, <2>3, <2>4, <3>1 DEF ClosedCall, Observed
  <2>11. CallHold(c)'
    BY <1>2, <1>6, <1>7, <2>1, <2>2, <2>3, <2>4, <2>9, <2>10 DEF CallHold, Fresh
  <2> QED
    BY <1>11, <2>5, <2>6, <2>7, <2>11 DEF HoldInv
<1> QED
  BY <1>12, <1>13

\* Finish releases the capture.
LEMMA ReleaseCaptureHolds ==
    ASSUME HoldInv, KeepInv, ReleaseCapture
    PROVE  HoldInv'
<1>1. HoldType /\ TaskInv /\ FinishInv /\ exchanges \in Seq(Calls)
  BY DEF HoldInv, KeepInv
<1>2. /\ fpc = "release" /\ fpc' = "releasing" /\ exchanges' = <<>> /\ closed' = TRUE
      /\ UNCHANGED <<ex, sent, response, events, pc, ws, reading>>
  BY DEF ReleaseCapture, bufVars
<1>3. todo["Finish"] = <<>> /\ "Finish" \in Goroutines /\ "Finish" \notin Calls
  BY <1>1, <1>2, TraceAssumption DEF FinishInv, Goroutines
<1> DEFINE n == Len(exchanges)
           s == [i \in 1..n |-> <<"exchange", exchanges[i]>>]
<1>4. n \in Nat /\ \A i \in 1..n : exchanges[i] \in Calls /\ exchanges[i] \in ToSet(exchanges)
  BY <1>1, Members
<1>5. /\ s \in Seq(Tasks) /\ DOMAIN s = 1..n
      /\ \A i \in 1..n : s[i] = <<"exchange", exchanges[i]>>
  BY <1>4 DEF Tasks
<1>6. todo' = [todo EXCEPT !["Finish"] = s]
  BY DEF ReleaseCapture
<1> HIDE DEF s
<1>7. /\ todo' \in [Goroutines -> Seq(Tasks)] /\ todo'["Finish"] = s
      /\ \A g \in Goroutines \ {"Finish"} : todo'[g] = todo[g]
  BY <1>1, <1>3, <1>5, <1>6 DEF HoldType
<1>8. HoldType'
  BY <1>1, <1>2, <1>7 DEF HoldType
<1>9. \A d \in Calls : Fresh(d)' <=> Fresh(d)
  BY <1>2 DEF Fresh
<1>10. ASSUME NEW d \in Calls
       PROVE  CallHold(d)'
  <2>1. CallHold(d) /\ Same(d)
    BY <1>2 DEF HoldInv, Same
  <2>2. ASSUME NEW l \in {"exchange", "sent", "response", "events"}, Pending(l, d)
        PROVE  Pending(l, d)'
    <3>1. PICK g \in Goroutines : <<l, d>> \in ToSet(todo[g])
      BY <2>2 DEF Pending
    <3>2. g # "Finish"
      BY <3>1, <1>3 DEF ToSet
    <3> QED
      BY <3>1, <3>2, <1>7 DEF Pending
  <2>3. d \in ToSet(exchanges) => Pending("exchange", d)'
    <3>1. SUFFICES ASSUME d \in ToSet(exchanges)
                   PROVE  <<"exchange", d>> \in ToSet(s)
      BY <1>3, <1>7 DEF Pending
    <3>2. PICK i \in 1..n : d = exchanges[i]
      BY <3>1, <1>1, Members
    <3> QED
      BY <3>2, <1>5 DEF ToSet
  <2> QED
    BY <2>1, <2>2, <2>3, FrameCall
<1>11. TaskInv'
  <2>1. ASSUME NEW g \in Goroutines, NEW t \in ToSet(todo'[g])
        PROVE  ~Fresh(t[2])'
    <3>1. CASE g = "Finish"
      <4>1. PICK i \in 1..n : t = <<"exchange", exchanges[i]>>
        BY <3>1, <1>5, <1>7 DEF ToSet
      <4> QED
        BY <4>1, <1>1, <1>4, <1>9 DEF TaskInv
    <3>2. CASE g # "Finish"
      <4>1. t[2] \in Calls /\ ~Fresh(t[2])
        BY <3>2, <1>1, <1>7, TaskFields DEF TaskInv
      <4> QED
        BY <4>1, <1>9
    <3> QED
      BY <3>1, <3>2
  <2>2. ToSet(exchanges') = {}
    BY <1>2 DEF ToSet
  <2>3. ws \in Calls \cup {None} /\ reading \in Calls \cup {None}
    BY <1>1 DEF HoldType
  <2>4. (ws' # None => ~Fresh(ws)') /\ (reading' # None => ~Fresh(reading)')
    BY <1>1, <1>2, <1>9, <2>3 DEF TaskInv, Fresh
  <2>5. \A d \in Calls : pc'[d] \in {"start", "copied"} => todo'[d] = <<>>
    BY <1>1, <1>2, <1>3, <1>7 DEF TaskInv, Goroutines
  <2> QED
    BY <2>1, <2>2, <2>4, <2>5 DEF TaskInv
<1>12. FinishInv'
  BY <1>2 DEF FinishInv
<1> QED
  BY <1>8, <1>10, <1>11, <1>12 DEF HoldInv

\* The other steps of Finish leave the calls alone.
LEMMA FinishHolds ==
    ASSUME HoldInv,
           \/ Finish \/ SnapshotList \/ SnapshotExchange \/ SnapshotBody \/ SnapshotError
           \/ FinishReturns
    PROVE  HoldInv'
<1>1. HoldType /\ TaskInv /\ FinishInv
  BY DEF HoldInv
<1>2. /\ UNCHANGED <<exchanges, closed, ex, sent, response, events, pc, todo, ws, reading>>
      /\ \/ fpc # "releasing" /\ fpc' \notin {"releasing", "done"}
         \/ fpc = "releasing" /\ fpc' = "done" /\ todo["Finish"] = <<>>
  BY DEF Finish, SnapshotList, SnapshotExchange, SnapshotBody, SnapshotError, FinishReturns,
     NextExchange, calls, capVars, bufVars
<1>3. HoldType' /\ FinishInv'
  BY <1>1, <1>2 DEF HoldType, FinishInv
<1>4. TaskInv'
  BY <1>1, <1>2 DEF TaskInv, Fresh
<1>5. ASSUME NEW d \in Calls
      PROVE  CallHold(d)'
  <2>1. CallHold(d) /\ Same(d)
    BY <1>2 DEF HoldInv, Same
  <2> QED
    BY <1>2, <2>1, SameTasks, FrameCall
<1> QED
  BY <1>3, <1>4, <1>5 DEF HoldInv

\* Every step keeps HoldInv.
LEMMA HoldStep ==
    ASSUME HoldInv, KeepInv, Next
    PROVE  HoldInv'
  BY CheckHolds, PublishHolds, SendBodyHolds, RespondHolds, WrapHolds, ReadBodyHolds,
     ReadEventsHolds, FlushHolds, SocketHolds, ObserveMessageHolds, ReleaseHolds,
     ReleaseCaptureHolds, FinishHolds
     DEF Next, Call, FinishStep

-----------------------------------------------------------------------------
(* The snapshot. *)

\* A request that is being sent keeps its size, or grows, unless its buffer is closed.
LEMMA BodyGrows ==
    ASSUME NEW b \in Buffers
    PROVE  BufferWrite(b, 1).size >= b.size /\ BufferWrite(b, 1).size \in Nat
<1>1. b.size \in Nat /\ BufferWrite(b, 1) \in Buffers
  BY BufferWriteFields DEF Buffers
<1>2. BufferWrite(b, 1).size = b.size \/ BufferWrite(b, 1).size = b.size + 1
  BY BufferWriteFields
<1> QED
  BY <1>1, <1>2 DEF Buffers

\* What a step can do to a call: nothing is unpublished, and only a release task, or a
\* closed capture, closes something.
Moved(d) ==
    /\ Fresh(d)' => Fresh(d)
    /\ ex'[d].closed => ex[d].closed \/ Pending("exchange", d)
    /\ sent'[d].closed => sent[d].closed \/ closed \/ Pending("sent", d)
    /\ sent'[d].closed \/ sent'[d].size >= sent[d].size
    /\ ~Observed(d) => sent'[d].size \in {0, sent[d].size}

\* What a step does not touch does not move.
LEMMA StillMoved ==
    ASSUME HoldType, NEW d \in Calls,
           ex'[d].closed = ex[d].closed, ex'[d].known = ex[d].known, sent'[d] = sent[d]
    PROVE  Moved(d)
<1>1. sent[d].size \in Nat
  BY DEF HoldType, Buffers
<1> QED
  BY <1>1 DEF Moved, Fresh

\* The steps of the calls and of a WebSocket's reader, but publication.
LEMMA CallMoves ==
    ASSUME HoldInv,
           \/ \E c \in Calls : \/ Check(c) \/ SendBody(c) \/ Respond(c) \/ Wrap(c)
                               \/ ReadBody(c) \/ ReadEvents(c) \/ Flush(c) \/ SetExchange(c)
           \/ ReadMessage \/ ObserveMessage,
           NEW d \in Calls
    PROVE  Moved(d)
<1>1. HoldType
  BY DEF HoldInv
<1>2. ASSUME NEW c \in Calls, SendBody(c)
      PROVE  Moved(d)
  <2>1. Observed(c) /\ sent' = [sent EXCEPT ![c] = BufferWrite(sent[c], 1)] /\ UNCHANGED ex
    BY <1>2 DEF SendBody, Observed
  <2>2. sent \in [Calls -> Buffers] /\ sent[c] \in Buffers
    BY <1>1 DEF HoldType
  <2>3. CASE d = c
    <3>1. sent'[c] = BufferWrite(sent[c], 1)
      BY <2>1, <2>2
    <3>2. sent'[c].closed = sent[c].closed /\ sent'[c].size >= sent[c].size
      BY <2>2, <3>1, BufferWriteFields, BodyGrows
    <3> QED
      BY <2>1, <2>3, <3>2 DEF Moved, Fresh
  <2>4. CASE d # c
    <3>1. sent'[d] = sent[d] /\ ex'[d] = ex[d]
      BY <2>1, <2>2, <2>4
    <3> QED
      BY <1>1, <3>1, StillMoved
  <2> QED
    BY <2>3, <2>4
<1>3. ASSUME NEW c \in Calls, Respond(c) \/ Wrap(c)
      PROVE  Moved(d)
  <2> DEFINE u == [ex[c] EXCEPT !.status = TRUE]
             v == [ex[c] EXCEPT !.response = TRUE]
             w == [ex[c] EXCEPT !.events = TRUE]
  <2>1. /\ UNCHANGED sent
        /\ \/ ex' = ex \/ ex' = [ex EXCEPT ![c] = u]
           \/ ex' = [ex EXCEPT ![c] = v] \/ ex' = [ex EXCEPT ![c] = w]
    BY <1>3 DEF Respond, Wrap, bufVars
  <2>2. ex \in [Calls -> ExchangeRecords] /\ ex[c] \in ExchangeRecords
    BY <1>1 DEF HoldType
  <2>3. /\ u.closed = ex[c].closed /\ u.known = ex[c].known
        /\ v.closed = ex[c].closed /\ v.known = ex[c].known
        /\ w.closed = ex[c].closed /\ w.known = ex[c].known
    BY <2>2, ExchangeUpdates
  <2> HIDE DEF u, v, w
  <2>4. ex'[d].closed = ex[d].closed /\ ex'[d].known = ex[d].known
    BY <2>1, <2>2, <2>3
  <2> QED
    BY <1>1, <2>1, <2>4, StillMoved
<1>4. ASSUME NEW c \in Calls, UNCHANGED sent, ex' = [ex EXCEPT ![c] = ObserveEvent(ex[c])]
      PROVE  Moved(d)
  <2>1. ex'[d].closed = ex[d].closed /\ ex'[d].known = ex[d].known
    BY <1>1, <1>4, EventUpdates
  <2> QED
    BY <1>1, <1>4, <2>1, StillMoved
<1>5. ASSUME NEW c \in Calls, Flush(c)
      PROVE  Moved(d)
  <2>1. UNCHANGED sent /\ ex' = [ex EXCEPT ![c] = ObserveEvent(ex[c])]
    BY <1>5 DEF Flush
  <2> QED
    BY <1>4, <2>1
<1>6. CASE ObserveMessage
  <2>1. /\ UNCHANGED sent /\ ex' = [ex EXCEPT ![reading] = ObserveEvent(ex[reading])]
        /\ reading # None
    BY <1>6 DEF ObserveMessage, bufVars
  <2>2. PICK c \in Calls : c = reading
    BY <1>1, <2>1 DEF HoldType
  <2> QED
    BY <1>4, <2>1, <2>2
<1>7. CASE UNCHANGED <<ex, sent>>
  BY <1>1, <1>7, StillMoved
<1> QED
  BY <1>2, <1>3, <1>5, <1>6, <1>7
     DEF Check, ReadBody, ReadEvents, SetExchange, ReadMessage, bufVars

\* Publication and release.
LEMMA ReleaseMoves ==
    ASSUME HoldInv, NEW d \in Calls,
           (\E c \in Calls : Publish(c)) \/ (\E g \in Goroutines : Release(g))
    PROVE  Moved(d)
<1>1. HoldType
  BY DEF HoldInv
<1>2. ex \in [Calls -> ExchangeRecords] /\ sent \in [Calls -> Buffers]
  BY <1>1 DEF HoldType
<1>3. ASSUME NEW c \in Calls, Publish(c)
      PROVE  Moved(d)
  <2>1. CASE closed /\ UNCHANGED ex /\ sent' = [sent EXCEPT ![c] = Released]
    BY <1>2, <2>1, StillMoved, <1>1 DEF Moved, Fresh, Released
  <2>2. CASE UNCHANGED sent /\ ex' = [ex EXCEPT ![c] = NewExchange(c)]
    <3>1. CASE d = c
      <4>1. ex'[d].known /\ ~ex'[d].closed
        BY <1>2, <2>2, <3>1, NewExchangeFields
      <4>2. sent[d].size \in Nat
        BY <1>2 DEF Buffers
      <4> QED
        BY <2>2, <4>1, <4>2 DEF Moved, Fresh
    <3>2. CASE d # c
      BY <1>1, <1>2, <2>2, <3>2, StillMoved
    <3> QED
      BY <3>1, <3>2
  <2> QED
    BY <1>3, <2>1, <2>2 DEF Publish, Closed
<1>4. ASSUME NEW g \in Goroutines, Release(g)
      PROVE  Moved(d)
  <2>1. todo[g] # <<>> /\ todo[g] \in Seq(Tasks)
    BY <1>1, <1>4 DEF Release, HoldType
  <2>2. todo[g][1] \in ToSet(todo[g])
    BY <2>1, TailTasks
  <2>3. PICK k \in {"exchange", "sent", "response", "events"}, c \in Calls :
            todo[g][1] = <<k, c>>
    BY <1>1, <2>2, TaskFields DEF Tasks
  <2>4. Pending(k, c)
    BY <2>2, <2>3 DEF Pending
  <2>5. /\ k = "exchange" => ReleaseExchange(g, c)
        /\ k # "exchange" => ReleaseBuffer(g, k, c)
    BY <1>4, <2>3 DEF Release
  <2>6. CASE k = "exchange"
    <3> DEFINE u == [Blank EXCEPT !.closed = TRUE]
    <3>1. UNCHANGED sent /\ ex' = [ex EXCEPT ![c] = u] /\ u.closed
      BY <2>5, <2>6, BlankFields DEF ReleaseExchange, bufVars
    <3> HIDE DEF u
    <3>2. CASE d = c
      <4>1. ex'[d].closed /\ sent[d].size \in Nat
        BY <1>2, <3>1, <3>2 DEF Buffers
      <4> QED
        BY <2>4, <2>6, <3>1, <3>2, <4>1 DEF Moved, Fresh
    <3>3. CASE d # c
      BY <1>1, <1>2, <3>1, <3>3, StillMoved
    <3> QED
      BY <3>2, <3>3
  <2>7. CASE k = "sent"
    <3>1. UNCHANGED ex /\ sent' = [sent EXCEPT ![c] = Released]
      BY <2>5, <2>7 DEF ReleaseBuffer
    <3> QED
      BY <1>1, <1>2, <2>4, <2>7, <3>1, StillMoved DEF Moved, Fresh, Released
  <2>8. CASE k \notin {"exchange", "sent"}
    <3>1. UNCHANGED <<ex, sent>>
      BY <2>5, <2>8 DEF ReleaseBuffer
    <3> QED
      BY <1>1, <3>1, StillMoved
  <2> QED
    BY <2>6, <2>7, <2>8
<1> QED
  BY <1>3, <1>4

\* A release makes no task but for the call it is about.
LEMMA ReleaseTasks ==
    ASSUME HoldInv, NEW g \in Goroutines, Release(g)
    PROVE  \A h \in Goroutines : \A t \in ToSet(todo'[h]) :
               \E l \in Goroutines : \E u \in ToSet(todo[l]) : u[2] = t[2]
<1>1. HoldType
  BY DEF HoldInv
<1>2. todo \in [Goroutines -> Seq(Tasks)] /\ todo[g] \in Seq(Tasks) /\ todo[g] # <<>>
  BY <1>1 DEF HoldType, Release
<1>3. /\ Tail(todo[g]) \in Seq(Tasks) /\ todo[g][1] \in ToSet(todo[g])
      /\ ToSet(Tail(todo[g])) \subseteq ToSet(todo[g])
  BY <1>2, TailTasks
<1>4. PICK k \in {"exchange", "sent", "response", "events"}, c \in Calls :
          todo[g][1] = <<k, c>>
  BY <1>1, <1>3, TaskFields DEF Tasks
<1>5. \/ todo' = [todo EXCEPT ![g] = Parts(c) \o Tail(todo[g])]
      \/ todo' = [todo EXCEPT ![g] = Tail(todo[g])]
  BY <1>4 DEF Release, ReleaseExchange, ReleaseBuffer
<1>6. /\ Parts(c) \o Tail(todo[g]) \in Seq(Tasks)
      /\ ToSet(Parts(c) \o Tail(todo[g])) = ToSet(Parts(c)) \cup ToSet(Tail(todo[g]))
      /\ \A t \in ToSet(Parts(c)) : t[2] = c
  BY <1>1, <1>3, PartsProperties, ConcatSet
<1>7. \A h \in Goroutines \ {g} : todo'[h] = todo[h]
  BY <1>2, <1>5
<1>8. \A t \in ToSet(todo'[g]) : t \in ToSet(todo[g]) \/ t[2] = todo[g][1][2]
  <2>1. \/ todo'[g] = Parts(c) \o Tail(todo[g])
        \/ todo'[g] = Tail(todo[g])
    BY <1>2, <1>5
  <2>2. todo[g][1][2] = c
    BY <1>4
  <2> QED
    BY <2>1, <2>2, <1>3, <1>6
<1> QED
  BY <1>3, <1>7, <1>8

\* Until Finish releases the capture a task is about an evicted call.
LEMMA TasksEvicted ==
    ASSUME HoldInv, KeepInv, LiveInv, Next, fpc' \notin {"releasing", "done"}
    PROVE  /\ fpc \notin {"releasing", "done"} /\ evicted \subseteq evicted' /\ ~closed'
           /\ \A g \in Goroutines : \A t \in ToSet(todo'[g]) : t[2] \in evicted'
<1>1. HoldType
  BY DEF HoldInv
<1>2. CASE UNCHANGED <<todo, evicted, closed>> /\ fpc \notin {"releasing", "done"}
  BY <1>2 DEF LiveInv
<1>3. ASSUME NEW c \in Calls, Publish(c)
      PROVE  /\ fpc \notin {"releasing", "done"} /\ evicted \subseteq evicted' /\ ~closed'
             /\ \A g \in Goroutines : \A t \in ToSet(todo'[g]) : t[2] \in evicted'
  <2>1. UNCHANGED <<fpc, closed>>
    BY <1>3 DEF Publish, capVars
  <2>2. /\ fpc \notin {"releasing", "done"} /\ ~closed
        /\ \A g \in Goroutines : \A t \in ToSet(todo[g]) : t[2] \in evicted
    BY <2>1 DEF LiveInv
  <2>3. CASE UNCHANGED <<todo, evicted>>
    BY <2>1, <2>2, <2>3
  <2>4. CASE /\ todo' = [todo EXCEPT ![c] = <<<<"exchange", exchanges[2]>>>>]
             /\ evicted' = evicted \cup {exchanges[2]}
    <3> DEFINE t == <<"exchange", exchanges[2]>>
    <3>1. t[2] = exchanges[2] /\ todo' = [todo EXCEPT ![c] = <<t>>]
      BY <2>4
    <3> HIDE DEF t
    <3>2. ToSet(<<t>>) = {t}
      <4>1. DOMAIN <<t>> = {1} /\ <<t>>[1] = t
        OBVIOUS
      <4> QED
        BY <4>1 DEF ToSet
    <3>3. c \in Goroutines /\ todo'[c] = <<t>> /\ \A g \in Goroutines \ {c} : todo'[g] = todo[g]
      BY <1>1, <3>1 DEF HoldType, Goroutines
    <3> QED
      BY <2>1, <2>2, <2>4, <3>1, <3>2, <3>3
  <2> QED
    BY <1>3, <2>3, <2>4 DEF Publish
<1>4. ASSUME NEW g \in Goroutines, Release(g)
      PROVE  /\ fpc \notin {"releasing", "done"} /\ evicted \subseteq evicted' /\ ~closed'
             /\ \A h \in Goroutines : \A t \in ToSet(todo'[h]) : t[2] \in evicted'
  <2>1. UNCHANGED <<fpc, closed, evicted>>
    BY <1>4 DEF Release, capVars
  <2>2. /\ fpc \notin {"releasing", "done"} /\ ~closed
        /\ \A h \in Goroutines : \A t \in ToSet(todo[h]) : t[2] \in evicted
    BY <2>1 DEF LiveInv
  <2> QED
    BY <1>4, <2>1, <2>2, ReleaseTasks
<1>5. ~ReleaseCapture /\ ~FinishReturns
  BY DEF ReleaseCapture, FinishReturns
<1>6. CASE \E c \in Calls : Call(c) /\ ~Publish(c)
  <2>1. UNCHANGED <<todo, evicted, closed, fpc>>
    BY <1>6 DEF Call, Check, SendBody, Respond, Wrap, ReadBody, ReadEvents, Flush,
       SetExchange, capVars
  <2> QED
    BY <1>2, <2>1
<1>7. CASE ReadMessage \/ ObserveMessage
  <2>1. UNCHANGED <<todo, evicted, closed, fpc>>
    BY <1>7 DEF ReadMessage, ObserveMessage, capVars
  <2> QED
    BY <1>2, <2>1
<1>8. CASE Finish \/ SnapshotList \/ SnapshotExchange \/ SnapshotBody \/ SnapshotError
  <2>1. UNCHANGED <<todo, evicted, closed>> /\ fpc \notin {"releasing", "done"}
    BY <1>8 DEF Finish, SnapshotList, SnapshotExchange, SnapshotBody, SnapshotError, calls,
       capVars
  <2> QED
    BY <1>2, <2>1
<1> QED
  BY <1>3, <1>4, <1>5, <1>6, <1>7, <1>8 DEF Next, FinishStep

\* No call moves but as Moved says.
LEMMA AllMoved ==
    ASSUME HoldInv, Next, NEW d \in Calls
    PROVE  Moved(d)
<1>1. CASE UNCHANGED <<ex, sent>>
  BY <1>1, StillMoved DEF HoldInv
<1>2. CASE Finish \/ FinishStep
  BY <1>1, <1>2 DEF Finish, FinishStep, SnapshotList, SnapshotExchange, SnapshotBody,
     SnapshotError, ReleaseCapture, FinishReturns, calls, bufVars
<1> QED
  BY <1>2, CallMoves, ReleaseMoves DEF Next, Call

\* What was sent before the snapshot: read as it begins, and never again.
LEMMA SentBefore ==
    ASSUME Next
    PROVE  \/ sentBefore' = sentBefore
           \/ SnapshotList /\ sentBefore' = [c \in Calls |-> sent[c].size]
  BY DEF Next, Call, Check, Publish, SendBody, Respond, Wrap, ReadBody, ReadEvents, Flush,
     SetExchange, ReadMessage, ObserveMessage, Finish, FinishStep, SnapshotList,
     SnapshotExchange, SnapshotBody, SnapshotError, ReleaseCapture, FinishReturns, Release

\* Nothing but what is evicted is released before Finish releases.
LEMMA LiveStep ==
    ASSUME HoldInv, KeepInv, SnapType, LiveInv, Next
    PROVE  LiveInv' /\ sentBefore' \in [Calls -> Nat]
<1>1. HoldType /\ sent \in [Calls -> Buffers]
  BY DEF HoldInv, HoldType
<1>2. \A d \in Calls : Moved(d)
  BY AllMoved
<1>3. \A d \in Calls : sent[d].size \in Nat
  BY <1>1 DEF Buffers
<1>4. ASSUME NEW c \in Calls, ~Observed(c)
      PROVE  sent'[c].size = 0 /\ sentBefore'[c] = 0
  <2>1. sent[c].size = 0 /\ sentBefore[c] = 0
    BY <1>4 DEF LiveInv
  <2>2. sent'[c].size = 0
    BY <1>2, <1>4, <2>1 DEF Moved
  <2>3. sentBefore'[c] = 0
    BY <2>1, SentBefore
  <2> QED
    BY <2>2, <2>3
<1>5. ASSUME fpc' \notin {"releasing", "done"}, NEW c \in Calls, c \notin evicted'
      PROVE  ~ex'[c].closed /\ ~sent'[c].closed /\ sentBefore'[c] <= sent'[c].size
  <2>1. /\ fpc \notin {"releasing", "done"} /\ evicted \subseteq evicted'
        /\ \A g \in Goroutines : \A t \in ToSet(todo'[g]) : t[2] \in evicted'
    BY <1>5, TasksEvicted
  <2>2. /\ ~closed /\ Unevicted(c) /\ c \notin evicted
        /\ \A g \in Goroutines : \A t \in ToSet(todo[g]) : t[2] \in evicted
    BY <1>5, <2>1 DEF LiveInv
  <2>3. ~Pending("exchange", c) /\ ~Pending("sent", c)
    <3>1. ASSUME NEW k, Pending(k, c)
          PROVE  FALSE
      <4>1. PICK g \in Goroutines : <<k, c>> \in ToSet(todo[g])
        BY <3>1 DEF Pending
      <4>2. <<k, c>>[2] \in evicted
        BY <4>1, <2>2
      <4> QED
        BY <4>2, <2>2
    <3> QED
      BY <3>1
  <2>4. ~ex'[c].closed /\ ~sent'[c].closed /\ sent'[c].size >= sent[c].size
    BY <1>2, <2>2, <2>3 DEF Moved, Unevicted
  <2>5. sentBefore[c] <= sent[c].size
    BY <2>2 DEF Unevicted
  <2>6. CASE sentBefore' = sentBefore
    <3>1. sentBefore[c] \in Nat /\ sent[c].size \in Nat
      BY <1>3 DEF SnapType
    <3>2. HoldType'
      BY HoldStep DEF HoldInv
    <3>3. sent'[c].size \in Nat
      BY <3>2 DEF HoldType, Buffers
    <3> QED
      BY <2>4, <2>5, <2>6, <3>1, <3>3
  <2>7. CASE SnapshotList /\ sentBefore' = [d \in Calls |-> sent[d].size]
    <3>1. sent' = sent
      BY <2>7 DEF SnapshotList, calls, bufVars
    <3> QED
      BY <1>3, <2>4, <2>7, <3>1
  <2> QED
    BY <2>4, <2>6, <2>7, SentBefore
<1>6. fpc' \notin {"releasing", "done"} => \A c \in Calls : Unevicted(c)'
  BY <1>5 DEF Unevicted
<1>7. LiveInv'
  BY <1>4, <1>6, TasksEvicted DEF LiveInv, Observed
<1>8. sentBefore' \in [Calls -> Nat]
  BY <1>3, SentBefore DEF SnapType
<1> QED
  BY <1>7, <1>8

\* A step that leaves Snapshot alone.
LEMMA SnapshotFrame ==
    ASSUME SnapInv, UNCHANGED <<fpc, list, cur, remaining, diagnostic, sentBefore>>,
           evicted \subseteq evicted', \A d \in Calls : Fresh(d)' => Fresh(d)
    PROVE  SnapType' /\ SnapshotInv' /\ HonestSnapshot'
<1>1. SnapType /\ SnapshotInv /\ BudgetKept
      /\ \A i \in 1..Len(diagnostic) : HonestEntry(diagnostic[i])
  BY DEF SnapInv, HonestSnapshot
<1>2. SnapType'
  BY <1>1 DEF SnapType
<1>3. \A i \in 1..Len(list) : list[i] \in Calls
  BY <1>1 DEF SnapType
<1>4. ASSUME NEW i \in 1..Len(list')
      PROVE  ~Fresh(list[i])'
  <2>1. list'[i] = list[i] /\ list[i] \in Calls /\ ~Fresh(list[i])
    BY <1>1, <1>3 DEF SnapshotInv
  <2>2. ~Fresh(list'[i])
    BY <2>1
  <2> QED
    BY <2>1, <2>2 DEF Fresh
<1>5. SnapshotInv'
  BY <1>1, <1>4 DEF SnapshotInv, Index, Observed
<1>6. BudgetKept'
  BY <1>1 DEF BudgetKept
<1>7. \A i \in 1..Len(diagnostic') : HonestEntry(diagnostic[i])'
  BY <1>1 DEF HonestEntry
<1> QED
  BY <1>2, <1>5, <1>6, <1>7 DEF HonestSnapshot

\* The steps of Finish but for the body and the error.
LEMMA ListHonest ==
    ASSUME SnapInv, HoldInv, KeepInv, Finish \/ SnapshotList \/ ReleaseCapture \/ FinishReturns,
           sentBefore' \in [Calls -> Nat]
    PROVE  SnapType' /\ SnapshotInv' /\ HonestSnapshot'
<1>1. /\ SnapType /\ SnapshotInv /\ BudgetKept
      /\ \A i \in 1..Len(diagnostic) : HonestEntry(diagnostic[i])
  BY DEF SnapInv, HonestSnapshot
<1>2. /\ TaskInv /\ exchanges \in Seq(Calls)
      /\ \A i \in 1..Len(exchanges) : exchanges[i] \in Calls /\ ~Fresh(exchanges[i])
  <2>1. TaskInv /\ exchanges \in Seq(Calls)
    BY DEF HoldInv, KeepInv
  <2>2. \A i \in 1..Len(exchanges) : exchanges[i] \in ToSet(exchanges)
    BY <2>1, Members
  <2> QED
    BY <2>1, <2>2 DEF TaskInv
<1>3. UNCHANGED <<ex, evicted, diagnostic, cur>>
  BY DEF Finish, SnapshotList, ReleaseCapture, FinishReturns, calls, snapVars
<1>4. CASE Finish \/ FinishReturns
  <2>1. /\ UNCHANGED <<list, remaining, sentBefore>>
        /\ \/ fpc = "start" /\ fpc' \in {"snapshot", "release"}
           \/ fpc' = "done"
    BY <1>4 DEF Finish, FinishReturns, snapVars
  <2>2. SnapType'
    BY <1>1, <1>3, <2>1 DEF SnapType
  <2>3. SnapshotInv'
    BY <1>1, <1>3, <2>1 DEF SnapshotInv, Fresh
  <2>4. BudgetKept'
    BY <1>1, <1>3, <2>1 DEF BudgetKept
  <2>5. \A i \in 1..Len(diagnostic') : HonestEntry(diagnostic[i])'
    BY <1>1, <1>3, <2>1 DEF HonestEntry
  <2> QED
    BY <2>2, <2>3, <2>4, <2>5 DEF HonestSnapshot
<1>5. CASE SnapshotList
  <2>1. /\ fpc = "snapshot" /\ list' = exchanges /\ remaining' = MaxBody
        /\ fpc' = IF exchanges = <<>> THEN "release" ELSE "exchange"
    BY <1>5 DEF SnapshotList
  <2>2. diagnostic = <<>> /\ diagnostic' = <<>> /\ Len(diagnostic') = 0
    BY <1>1, <1>3, <2>1 DEF SnapshotInv
  <2>3. MaxBody \in Nat
    BY TraceAssumption
  <2>4. SnapType'
    BY <1>1, <1>2, <1>3, <2>1, <2>3 DEF SnapType
  <2>5. SnapshotInv'
    <3>1. exchanges # <<>> => Len(exchanges) > 0
      BY <1>2, EmptySeq
    <3>2. \A i \in 1..Len(list') : ~Fresh(list[i])'
      BY <1>2, <1>3, <2>1 DEF Fresh
    <3> QED
      BY <2>1, <2>2, <3>1, <3>2 DEF SnapshotInv
  <2>6. BudgetKept'
    <3> DEFINE f == [i \in 0..0 |-> MaxBody]
    <3>1. f \in [0..0 -> 0..MaxBody] /\ f[0] = MaxBody
      BY <2>3
    <3> HIDE DEF f
    <3> QED
      BY <2>1, <2>2, <3>1 DEF BudgetKept
  <2> QED
    BY <2>2, <2>4, <2>5, <2>6 DEF HonestSnapshot
<1>6. CASE ReleaseCapture
  <2>1. /\ fpc' = "releasing" /\ list' = <<>> /\ remaining' = 0 /\ UNCHANGED sentBefore
    BY <1>6 DEF ReleaseCapture
  <2>2. SnapType'
    BY <1>1, <1>3, <2>1 DEF SnapType
  <2>3. SnapshotInv'
    BY <2>1 DEF SnapshotInv
  <2>4. BudgetKept'
    BY <1>1, <1>3, <2>1 DEF BudgetKept
  <2>5. \A i \in 1..Len(diagnostic') : HonestEntry(diagnostic[i])'
    BY <1>1, <1>3, <2>1 DEF HonestEntry
  <2> QED
    BY <2>2, <2>3, <2>4, <2>5 DEF HonestSnapshot
<1> QED
  BY <1>4, <1>5, <1>6

\* Snapshot copies an exchange.
LEMMA ExchangeHonest ==
    ASSUME SnapInv, HoldInv, SnapshotExchange
    PROVE  SnapType' /\ SnapshotInv' /\ HonestSnapshot'
<1>1. /\ SnapType /\ LiveInv /\ SnapshotInv /\ BudgetKept
      /\ \A i \in 1..Len(diagnostic) : HonestEntry(diagnostic[i])
  BY DEF SnapInv, HonestSnapshot
<1>2. /\ fpc = "exchange" /\ fpc' = "body" /\ cur' = ex[list[Index]]
      /\ UNCHANGED <<ex, evicted, list, remaining, diagnostic, sentBefore>>
  BY DEF SnapshotExchange, calls
<1>3. Index \in 1..Len(list)
  BY <1>1, <1>2 DEF SnapType, SnapshotInv, Index
<1>4. PICK c \in Calls : c = list[Index]
  BY <1>1, <1>3 DEF SnapType
<1>5. ~Fresh(c) /\ CallHold(c) /\ ex[c] \in ExchangeRecords /\ Unevicted(c)
  BY <1>1, <1>2, <1>3, <1>4 DEF SnapshotInv, HoldInv, HoldType, LiveInv
<1>6. c \notin evicted => ex[c].known /\ (Observed(c) => ex[c].sent)
  BY <1>5 DEF Unevicted, CallHold, OpenCall, Fresh
<1>7. SnapType'
  BY <1>1, <1>2, <1>4, <1>5 DEF SnapType
<1>8. SnapshotInv'
  <2>1. Index' = Index /\ list'[Index'] = c /\ cur' = ex[c]
    BY <1>2, <1>4 DEF Index
  <2>2. \A i \in 1..Len(list') : ~Fresh(list[i])'
    BY <1>1, <1>2 DEF SnapshotInv, Fresh
  <2>3. Len(diagnostic') < Len(list')
    BY <1>1, <1>2 DEF SnapshotInv
  <2>4. list'[Index'] \notin evicted' => cur'.known /\ (Observed(list'[Index']) => cur'.sent)
    BY <1>2, <1>6, <2>1
  <2> QED
    BY <1>2, <2>2, <2>3, <2>4 DEF SnapshotInv, Observed
<1>9. BudgetKept'
  BY <1>1, <1>2 DEF BudgetKept
<1>10. \A i \in 1..Len(diagnostic') : HonestEntry(diagnostic[i])'
  BY <1>1, <1>2 DEF HonestEntry
<1> QED
  BY <1>7, <1>8, <1>9, <1>10 DEF HonestSnapshot

\* An entry in front of the others.
LEMMA Prepend ==
    ASSUME NEW e \in Entries, NEW s \in Seq(Entries)
    PROVE  /\ <<e>> \o s \in Seq(Entries) /\ Len(<<e>> \o s) = Len(s) + 1
           /\ (<<e>> \o s)[1] = e
           /\ \A i \in 2..(Len(s) + 1) : (<<e>> \o s)[i] = s[i - 1]
<1> DEFINE a == <<e>>
           t == a \o s
<1>1. a \in Seq(Entries) /\ Len(a) = 1 /\ a[1] = e /\ Len(s) \in Nat
  OBVIOUS
<1> HIDE DEF a
<1>2. /\ t \in Seq(Entries) /\ Len(t) = Len(a) + Len(s)
      /\ \A i \in 1..(Len(a) + Len(s)) : t[i] = IF i <= Len(a) THEN a[i] ELSE s[i - Len(a)]
  BY <1>1, ConcatProperties
<1> HIDE DEF t
<1>3. Len(t) = Len(s) + 1 /\ t[1] = e
  <2>1. 1 \in 1..(Len(a) + Len(s))
    BY <1>1
  <2> QED
    BY <1>1, <1>2, <2>1
<1>4. ASSUME NEW i \in 2..(Len(s) + 1)
      PROVE  t[i] = s[i - 1]
  <2>1. i \in 1..(Len(a) + Len(s)) /\ ~(i <= Len(a)) /\ Len(a) = 1
    BY <1>1
  <2> QED
    BY <1>2, <2>1
<1> QED
  BY <1>2, <1>3, <1>4 DEF t, a

\* Snapshot makes the entry of an exchange.
LEMMA BodyHonest ==
    ASSUME SnapInv, HoldInv, SnapshotBody
    PROVE  SnapType' /\ SnapshotInv' /\ HonestSnapshot'
<1>1. /\ SnapType /\ LiveInv /\ SnapshotInv /\ BudgetKept
      /\ \A i \in 1..Len(diagnostic) : HonestEntry(diagnostic[i])
  BY DEF SnapInv, HonestSnapshot
<1>2. /\ fpc = "body" /\ UNCHANGED <<ex, evicted, list, sentBefore>>
  BY DEF SnapshotBody, calls
<1>3. Index \in 1..Len(list) /\ Len(diagnostic) \in Nat /\ Len(list) \in Nat
      /\ Len(diagnostic) < Len(list)
  BY <1>1, <1>2 DEF SnapType, SnapshotInv, Index
<1>4. PICK c \in Calls : c = list[Index]
  BY <1>1, <1>3 DEF SnapType
<1> DEFINE body == IF cur.sent THEN sent[c].data ELSE cur.body
           size == Max2(Max2(cur.size, cur.body), IF cur.sent THEN sent[c].size ELSE 0)
           shown == IF Fits(body, size) THEN body ELSE 0
           entry == [call |-> c, known |-> cur.known, body |-> shown, size |-> size,
                     whole |-> Fits(body, size), error |-> 0]
<1>5. /\ diagnostic' = <<entry>> \o diagnostic /\ remaining' = remaining - shown
      /\ \/ diagnostic = <<>> /\ fpc' = "error" /\ UNCHANGED cur
         \/ diagnostic # <<>> /\ fpc' = NextExchange(diagnostic') /\ cur' = Blank
  BY <1>4 DEF SnapshotBody
<1>6. /\ cur.sent \in BOOLEAN /\ cur.known \in BOOLEAN /\ cur.body \in Nat /\ cur.size \in Nat
      /\ sent[c].data \in Nat /\ sent[c].size \in Nat /\ remaining \in Nat
      /\ sentBefore[c] \in Nat
  BY <1>1 DEF SnapType, ExchangeRecords, HoldInv, HoldType, Buffers
<1>7. body \in Nat /\ size \in Nat /\ (cur.sent => size >= sent[c].size)
  BY <1>6 DEF Max2
<1>8. /\ shown \in Nat /\ shown <= remaining /\ Fits(body, size) \in BOOLEAN
      /\ Fits(body, size) => shown = body /\ shown >= size
  <2> HIDE DEF body, size
  <2> QED
    BY <1>6, <1>7 DEF Fits
<1>9. c \notin evicted => /\ cur.known /\ size >= sentBefore[c]
                          /\ Fits(body, size) => shown >= sentBefore[c]
  <2>1. CASE Observed(c) /\ c \notin evicted
    <3>1. cur.known /\ cur.sent
      BY <1>1, <1>2, <1>4, <2>1 DEF SnapshotInv
    <3>2. sentBefore[c] <= sent[c].size
      BY <1>1, <1>2, <2>1 DEF LiveInv, Unevicted
    <3> HIDE DEF body, size, shown
    <3> QED
      BY <1>6, <1>7, <1>8, <3>1, <3>2
  <2>2. CASE ~Observed(c) /\ c \notin evicted
    <3>1. cur.known /\ sentBefore[c] = 0
      BY <1>1, <1>2, <1>4, <2>2 DEF SnapshotInv, LiveInv
    <3> HIDE DEF body, size, shown
    <3> QED
      BY <1>6, <1>7, <1>8, <3>1
  <2> QED
    BY <2>1, <2>2
<1>10. /\ entry \in Entries /\ entry.body = shown /\ entry.error = 0 /\ entry.call = c
       /\ entry.known = cur.known /\ entry.size = size /\ entry.whole = Fits(body, size)
  <2> DEFINE fits == Fits(body, size)
  <2> HIDE DEF body, size, shown, fits
  <2>1. /\ entry = [call |-> c, known |-> cur.known, body |-> shown, size |-> size,
                    whole |-> fits, error |-> 0]
        /\ fits \in BOOLEAN /\ shown \in Nat /\ size \in Nat
    BY <1>7, <1>8 DEF fits
  <2>2. cur.known \in BOOLEAN
    BY <1>6
  <2> QED
    BY <2>1, <2>2 DEF Entries, fits
<1> HIDE DEF body, size, shown, entry
<1>11. diagnostic \in Seq(Entries)
  BY <1>1 DEF SnapType
<1>12. /\ diagnostic' \in Seq(Entries) /\ Len(diagnostic') = Len(diagnostic) + 1
       /\ diagnostic'[1] = entry
       /\ \A i \in 2..(Len(diagnostic) + 1) : diagnostic'[i] = diagnostic[i - 1]
  BY <1>5, <1>10, <1>11, Prepend
<1>13. SnapType'
  <2>1. remaining' \in Nat
    BY <1>5, <1>6, <1>8
  <2>2. cur' \in ExchangeRecords
    BY <1>1, <1>5, BlankFields DEF SnapType
  <2> QED
    BY <1>1, <1>2, <1>12, <2>1, <2>2 DEF SnapType
<1>14. SnapshotInv'
  <2>1. \A i \in 1..Len(list') : ~Fresh(list[i])'
    BY <1>1, <1>2 DEF SnapshotInv, Fresh
  <2>2. CASE diagnostic = <<>> /\ fpc' = "error"
    <3>1. Len(diagnostic') = 1 /\ Len(list') >= 1 /\ diagnostic'[1].error = 0
      BY <1>2, <1>3, <1>10, <1>12, <2>2
    <3> QED
      BY <2>1, <2>2, <3>1 DEF SnapshotInv
  <2>3. CASE fpc' = NextExchange(diagnostic')
    <3>1. \/ fpc' = "release"
          \/ fpc' = "exchange" /\ Len(diagnostic') # Len(list)
      BY <2>3 DEF NextExchange
    <3>2. fpc' = "exchange" => Len(diagnostic') < Len(list')
      BY <1>2, <1>3, <1>12, <3>1
    <3> QED
      BY <2>1, <3>1, <3>2 DEF SnapshotInv
  <2> QED
    BY <1>5, <2>2, <2>3
<1>15. BudgetKept'
  <2> DEFINE n == Len(diagnostic)
  <2>0. n \in Nat
    BY <1>3
  <2>1. PICK total \in [0..n -> 0..MaxBody] :
            /\ total[0] = remaining
            /\ \A i \in 1..n : total[i] = total[i - 1] + (diagnostic[i].body + diagnostic[i].error)
    BY <1>1, <1>2 DEF BudgetKept
  <2> DEFINE f == [i \in 0..(n + 1) |-> IF i = 0 THEN remaining - shown ELSE total[i - 1]]
  <2>2. f \in [0..(n + 1) -> 0..MaxBody]
    <3>1. ASSUME NEW i \in 0..(n + 1)
          PROVE  f[i] \in 0..MaxBody
      <4>1. CASE i = 0
        <5>1. remaining \in 0..MaxBody
          BY <2>0, <2>1
        <5> QED
          BY <4>1, <5>1, <1>6, <1>8, TraceAssumption
      <4>2. CASE i # 0
        <5>1. i - 1 \in 0..n
          BY <4>2, <2>0
        <5> QED
          BY <4>2, <5>1
      <4> QED
        BY <4>1, <4>2
    <3> QED
      BY <3>1
  <2>3. f[0] = remaining - shown
    BY <2>0
  <2>4. ASSUME NEW i \in 1..(n + 1)
        PROVE  f[i] = f[i - 1] + (diagnostic'[i].body + diagnostic'[i].error)
    <3>1. f[i] = total[i - 1] /\ i - 1 \in 0..(n + 1)
      BY <2>0
    <3>2. CASE i = 1
      <4>1. diagnostic'[i].body = shown /\ diagnostic'[i].error = 0
        BY <1>10, <1>12, <3>2
      <4>2. f[i - 1] = remaining - shown /\ f[i] = remaining
        BY <2>0, <2>1, <3>1, <3>2
      <4> HIDE DEF f
      <4> QED
        BY <1>6, <1>8, <4>1, <4>2
    <3>3. CASE i # 1
      <4>1. i - 1 \in 1..n /\ i \in 2..(n + 1)
        BY <3>3, <2>0
      <4>2. diagnostic'[i] = diagnostic[i - 1]
        BY <1>12, <4>1
      <4>3. total[i - 1] = total[(i - 1) - 1]
                           + (diagnostic[i - 1].body + diagnostic[i - 1].error)
        BY <2>1, <4>1
      <4>4. f[i - 1] = total[(i - 1) - 1]
        BY <3>1, <4>1
      <4> HIDE DEF f
      <4> QED
        BY <3>1, <4>2, <4>3, <4>4
    <3> QED
      BY <3>2, <3>3
  <2> HIDE DEF f
  <2>5. Len(diagnostic') = n + 1 /\ remaining' = remaining - shown
    BY <1>5, <1>12
  <2>6. /\ f \in [0..Len(diagnostic') -> 0..MaxBody] /\ f[0] = remaining'
        /\ \A i \in 1..Len(diagnostic') :
               f[i] = f[i - 1] + (diagnostic'[i].body + diagnostic'[i].error)
    BY <2>2, <2>3, <2>4, <2>5
  <2> QED
    BY <2>6 DEF BudgetKept
<1>16. ASSUME NEW i \in 1..Len(diagnostic')
       PROVE  HonestEntry(diagnostic[i])'
  <2>1. CASE i = 1
    BY <1>2, <1>9, <1>10, <1>12, <2>1 DEF HonestEntry
  <2>2. CASE i # 1
    <3>1. i - 1 \in 1..Len(diagnostic) /\ i \in 2..(Len(diagnostic) + 1)
      BY <1>3, <1>12, <2>2
    <3>2. diagnostic'[i] = diagnostic[i - 1] /\ HonestEntry(diagnostic[i - 1])
      BY <1>1, <1>12, <3>1
    <3> QED
      BY <1>2, <3>2 DEF HonestEntry
  <2> QED
    BY <2>1, <2>2
<1> QED
  BY <1>13, <1>14, <1>15, <1>16 DEF HonestSnapshot

\* The only entry is replaced.
LEMMA ReplaceFirst ==
    ASSUME NEW s \in Seq(Entries), Len(s) = 1, NEW e \in Entries
    PROVE  LET t == [s EXCEPT ![1] = e]
           IN  t \in Seq(Entries) /\ Len(t) = 1 /\ t[1] = e
<1>1. 1 \in 1..Len(s)
  OBVIOUS
<1> QED
  BY <1>1, ExceptSeq

\* Snapshot adds the error of the last exchange.
LEMMA ErrorHonest ==
    ASSUME SnapInv, HoldInv, SnapshotError
    PROVE  SnapType' /\ SnapshotInv' /\ HonestSnapshot'
<1>1. /\ SnapType /\ SnapshotInv /\ BudgetKept
      /\ \A i \in 1..Len(diagnostic) : HonestEntry(diagnostic[i])
  BY DEF SnapInv, HonestSnapshot
<1>2. /\ fpc = "error" /\ UNCHANGED <<ex, evicted, list, sentBefore>> /\ cur' = Blank
      /\ fpc' = NextExchange(diagnostic)
  BY DEF SnapshotError, calls
<1>3. /\ Len(diagnostic) = 1 /\ Len(list) >= 1 /\ diagnostic[1].error = 0
      /\ diagnostic \in Seq(Entries) /\ list \in Seq(Calls) /\ Len(list) \in Nat
  BY <1>1, <1>2 DEF SnapshotInv, SnapType
<1>4. 1 \in 1..Len(diagnostic)
  BY <1>3
<1>5. diagnostic[1] \in Entries
  BY <1>3, <1>4, ElementOfSeq
<1> DEFINE c == Last(list)
           raw == IF ~cur.response THEN cur.event
                  ELSE IF response[c].size > response[c].data THEN 0
                  ELSE response[c].data
           shown == IF raw <= remaining THEN raw ELSE 0
<1>6. /\ diagnostic' = [diagnostic EXCEPT ![1].error = shown]
      /\ remaining' = remaining - shown
  BY DEF SnapshotError
<1>7. shown \in Nat /\ shown <= remaining /\ remaining \in Nat
  <2>1. c \in Calls
    BY <1>3 DEF Last
  <2> HIDE DEF c
  <2>2. cur.event \in Nat /\ response[c].data \in Nat /\ remaining \in Nat
    BY <1>1, <2>1 DEF SnapType, ExchangeRecords, HoldInv, HoldType, Buffers
  <2>3. raw \in Nat
    BY <2>2
  <2> HIDE DEF raw
  <2> QED
    BY <2>2, <2>3
<1> HIDE DEF shown
<1>8. /\ diagnostic' \in Seq(Entries) /\ Len(diagnostic') = 1
      /\ diagnostic'[1].error = shown /\ diagnostic'[1].body = diagnostic[1].body
      /\ diagnostic'[1].call = diagnostic[1].call /\ diagnostic'[1].known = diagnostic[1].known
      /\ diagnostic'[1].size = diagnostic[1].size /\ diagnostic'[1].whole = diagnostic[1].whole
  <2> DEFINE e == [diagnostic[1] EXCEPT !.error = shown]
  <2>1. /\ e \in Entries /\ e.error = shown /\ e.body = diagnostic[1].body
        /\ e.call = diagnostic[1].call /\ e.known = diagnostic[1].known
        /\ e.size = diagnostic[1].size /\ e.whole = diagnostic[1].whole
    BY <1>7, <1>5 DEF Entries
  <2>2. diagnostic' = [diagnostic EXCEPT ![1] = e]
    BY <1>6
  <2> HIDE DEF e
  <2>3. diagnostic' \in Seq(Entries) /\ Len(diagnostic') = 1 /\ diagnostic'[1] = e
    BY <1>3, <2>1, <2>2, ReplaceFirst
  <2> QED
    BY <2>1, <2>3
<1>9. SnapType'
  <2>1. remaining' \in Nat /\ cur' \in ExchangeRecords
    BY <1>2, <1>6, <1>7, BlankFields
  <2> QED
    BY <1>1, <1>2, <1>8, <2>1 DEF SnapType
<1>10. SnapshotInv'
  <2>1. \A i \in 1..Len(list') : ~Fresh(list[i])'
    BY <1>1, <1>2 DEF SnapshotInv, Fresh
  <2>2. \/ fpc' = "release"
        \/ fpc' = "exchange" /\ Len(diagnostic) # Len(list)
    BY <1>2 DEF NextExchange
  <2>3. fpc' = "exchange" => Len(diagnostic') < Len(list')
    BY <1>2, <1>3, <1>8, <2>2
  <2> QED
    BY <2>1, <2>2, <2>3 DEF SnapshotInv
<1>11. BudgetKept'
  <2>1. PICK total \in [0..1 -> 0..MaxBody] :
            /\ total[0] = remaining
            /\ \A i \in 1..1 : total[i] = total[i - 1] + (diagnostic[i].body + diagnostic[i].error)
    BY <1>1, <1>2, <1>3 DEF BudgetKept
  <2>2. /\ total[0] = remaining /\ total[1] = remaining + (diagnostic[1].body + 0)
        /\ total[0] \in 0..MaxBody /\ total[1] \in 0..MaxBody /\ MaxBody \in Nat
    BY <1>3, <2>1, TraceAssumption
  <2> DEFINE f == [i \in 0..1 |-> IF i = 0 THEN remaining - shown ELSE total[1]]
  <2>3. f[0] = remaining - shown /\ f[1] = total[1] /\ f \in [0..1 -> 0..MaxBody]
    BY <1>7, <2>2
  <2> HIDE DEF f
  <2>4. diagnostic[1].body \in Nat
    BY <1>5 DEF Entries
  <2>5. ASSUME NEW i \in 1..1
        PROVE  f[i] = f[i - 1] + (diagnostic'[i].body + diagnostic'[i].error)
    <3>1. i = 1 /\ i - 1 = 0
      OBVIOUS
    <3>2. f[1] = f[0] + (diagnostic'[1].body + diagnostic'[1].error)
      BY <1>7, <1>8, <2>2, <2>3, <2>4
    <3> QED
      BY <3>1, <3>2
  <2>6. /\ f \in [0..Len(diagnostic') -> 0..MaxBody] /\ f[0] = remaining'
        /\ \A i \in 1..Len(diagnostic') :
               f[i] = f[i - 1] + (diagnostic'[i].body + diagnostic'[i].error)
    BY <1>6, <1>8, <2>3, <2>5
  <2> QED
    BY <2>6 DEF BudgetKept
<1>12. ASSUME NEW i \in 1..Len(diagnostic')
       PROVE  HonestEntry(diagnostic[i])'
  <2>1. i = 1 /\ HonestEntry(diagnostic[1])
    BY <1>1, <1>3, <1>8
  <2> QED
    BY <1>2, <1>8, <2>1 DEF HonestEntry
<1> QED
  BY <1>9, <1>10, <1>11, <1>12 DEF HonestSnapshot

\* Every step keeps SnapInv.
LEMMA SnapStep ==
    ASSUME SnapInv, HoldInv, KeepInv, Next
    PROVE  SnapInv'
<1>1. LiveInv' /\ sentBefore' \in [Calls -> Nat]
  BY LiveStep DEF SnapInv
<1>2. \A d \in Calls : Fresh(d)' => Fresh(d)
  BY AllMoved DEF Moved
<1>3. CASE Finish \/ FinishStep
  BY <1>1, <1>3, ListHonest, ExchangeHonest, BodyHonest, ErrorHonest DEF FinishStep, SnapInv
<1>4. CASE ~(Finish \/ FinishStep)
  <2>1. /\ UNCHANGED <<fpc, list, cur, remaining, diagnostic, sentBefore>>
        /\ evicted \subseteq evicted'
    BY <1>4 DEF Next, Call, Check, Publish, SendBody, Respond, Wrap, ReadBody, ReadEvents,
       Flush, SetExchange, ReadMessage, ObserveMessage, Release, snapVars
  <2> QED
    BY <1>1, <1>2, <2>1, SnapshotFrame DEF SnapInv
<1> QED
  BY <1>3, <1>4

-----------------------------------------------------------------------------
(* The invariant and what follows from it. *)

IInv == KeepInv /\ HoldInv /\ SnapInv

\* A new capture.
LEMMA InitInv ==
    ASSUME Init
    PROVE  IInv
<1>1. KeepInv
  <2>1. exchanges = <<>> /\ published = <<>> /\ closed = FALSE
    BY DEF Init
  <2>2. Len(published) = 0 /\ exchanges \in Seq(Calls) /\ published \in Seq(Calls)
    BY <2>1, EmptySeq
  <2>3. ~(Len(published) >= MaxRequests)
    BY <2>2, TraceAssumption
  <2> QED
    BY <2>1, <2>2, <2>3 DEF KeepInv
<1>2. /\ ex = [c \in Calls |-> Blank] /\ sent = [c \in Calls |-> EmptyBuffer]
      /\ response = [c \in Calls |-> EmptyBuffer] /\ events = [c \in Calls |-> NoEvents]
      /\ pc = [c \in Calls |-> "start"] /\ todo = [g \in Goroutines |-> <<>>]
      /\ sentBefore = [c \in Calls |-> 0]
  BY DEF Init
<1>3. \A c \in Calls : Fresh(c) /\ FreshCall(c) /\ pc[c] = "start"
                       /\ ~sent[c].closed /\ ~response[c].closed /\ ~events[c].closed
                       /\ sent[c].size = 0 /\ sentBefore[c] = 0
  BY <1>2 DEF Fresh, FreshCall, Blank, EmptyBuffer, NoEvents
<1>4. \A g \in Goroutines : todo[g] = <<>> /\ ToSet(todo[g]) = {}
  BY <1>2 DEF ToSet
<1>5. HoldType
  <2>1. EmptyBuffer \in Buffers /\ NoEvents \in Observers
    BY DEF EmptyBuffer, Buffers, NoEvents, Observers
  <2>2. ws = None /\ reading = None
    BY DEF Init
  <2> QED
    BY <1>2, <2>1, <2>2, BlankFields DEF HoldType, CallSteps
<1>6. TaskInv
  <2>1. ToSet(exchanges) = {} /\ ws = None /\ reading = None
    BY DEF Init, ToSet
  <2> QED
    BY <1>4, <2>1 DEF TaskInv, Goroutines
<1>7. FinishInv
  BY <1>4 DEF Init, FinishInv, Goroutines
<1>8. \A c \in Calls : CallHold(c)
  BY <1>3 DEF CallHold, Fresh
<1>9. SnapType
  BY <1>2, BlankFields DEF Init, SnapType
<1>10. LiveInv
  <2>1. ~closed
    BY DEF Init
  <2>2. \A c \in Calls : Unevicted(c)
    BY <1>3 DEF Unevicted, Fresh
  <2> QED
    BY <1>3, <1>4, <2>1, <2>2 DEF LiveInv
<1>11. SnapshotInv /\ HonestSnapshot
  <2>1. list = <<>> /\ diagnostic = <<>> /\ fpc = "start"
    BY DEF Init
  <2>2. BudgetKept
    <3> DEFINE f == [i \in 0..0 |-> 0]
    <3>1. f \in [0..0 -> 0..MaxBody]
      BY TraceAssumption
    <3> HIDE DEF f
    <3> QED
      BY <2>1, <3>1 DEF BudgetKept
  <2> QED
    BY <2>1, <2>2 DEF SnapshotInv, HonestSnapshot
<1> QED
  BY <1>1, <1>5, <1>6, <1>7, <1>8, <1>9, <1>10, <1>11 DEF IInv, HoldInv, SnapInv

\* A step that changes nothing.
LEMMA Stutter ==
    ASSUME IInv, UNCHANGED vars
    PROVE  IInv'
<1>1. UNCHANGED <<exchanges, closed, ex, sent, response, events, pc, todo, ws, reading, fpc,
                  list, cur, remaining, diagnostic, published, evicted, sentBefore>>
  BY DEF vars, capVars, bufVars, snapVars
<1>2. KeepInv'
  BY <1>1 DEF IInv, KeepInv
<1>3. HoldInv'
  <2>1. HoldType' /\ TaskInv' /\ FinishInv'
    BY <1>1 DEF IInv, HoldInv, HoldType, TaskInv, FinishInv, Fresh
  <2>2. ASSUME NEW d \in Calls
        PROVE  CallHold(d)'
    <3>1. CallHold(d) /\ Same(d)
      BY <1>1 DEF IInv, HoldInv, Same
    <3> QED
      BY <1>1, <3>1, SameTasks, FrameCall
  <2> QED
    BY <2>1, <2>2 DEF HoldInv
<1>4. SnapInv'
  <2>1. SnapType' /\ SnapshotInv' /\ HonestSnapshot'
    BY <1>1, SnapshotFrame DEF IInv, Fresh
  <2>2. LiveInv'
    BY <1>1 DEF IInv, SnapInv, LiveInv, Unevicted, Observed
  <2> QED
    BY <2>1, <2>2 DEF SnapInv
<1> QED
  BY <1>2, <1>3, <1>4 DEF IInv

\* The inductive invariant of the trace.
THEOREM Invariance == Spec => []IInv
<1>1. Init => IInv
  BY InitInv
<1>2. IInv /\ [Next]_vars => IInv'
  BY KeepStep, HoldStep, SnapStep, Stutter DEF IInv
<1> QED
  BY <1>1, <1>2, PTL DEF Spec

\* An open capture has the first request and the latest ones, in order, however many
\* were made and whatever the limit.
THEOREM FirstAndLatestKept == Spec => []KeepsFirstAndLatest
<1>1. IInv => KeepsFirstAndLatest
  BY KeepsFirst DEF IInv
<1> QED
  BY <1>1, Invariance, PTL

\* Once Finish has returned and evictions are through the trace holds no byte of any
\* request, whatever is sent, read or observed late.
THEOREM NothingHeld == Spec => []NothingHeldAfterFinish
<1>1. ASSUME IInv, fpc = "done", \A c \in Calls : todo[c] = <<>>, NEW c \in Calls
      PROVE  Held(c) = 0
  <2>1. HoldType /\ FinishInv /\ CallHold(c)
    BY <1>1 DEF IInv, HoldInv
  <2>2. exchanges = <<>> /\ \A g \in Goroutines : todo[g] = <<>>
    BY <1>1, <2>1 DEF FinishInv, Goroutines
  <2>3. c \notin ToSet(exchanges) /\ \A k : ~Pending(k, c)
    BY <2>2 DEF ToSet, Pending
  <2>4. ~OpenCall(c)
    BY <2>3 DEF OpenCall
  <2>5. CASE Fresh(c)
    <3>1. FreshCall(c)
      BY <2>1, <2>5 DEF CallHold
    <3> QED
      BY <3>1 DEF FreshCall, Held
  <2>6. CASE ex[c].closed
    <3>1. ClosedCall(c)
      BY <2>1, <2>6 DEF CallHold
    <3>2. /\ ex[c].body = 0 /\ ex[c].event = 0 /\ sent[c].data = 0 /\ response[c].data = 0
          /\ events[c].data = 0
      BY <2>1, <2>3, <3>1 DEF ClosedCall, CallHold
    <3> QED
      BY <3>2 DEF Held
  <2> QED
    BY <2>1, <2>4, <2>5, <2>6 DEF CallHold, Fresh
<1>2. IInv => NothingHeldAfterFinish
  BY <1>1 DEF NothingHeldAfterFinish
<1> QED
  BY <1>2, Invariance, PTL

\* A snapshot stays within its budget and is honest about every request that is not
\* evicted while it is taken, although the calls go on.
THEOREM SnapshotIsHonest == Spec => []HonestSnapshot
<1>1. IInv => HonestSnapshot
  BY DEF IInv, SnapInv
<1> QED
  BY <1>1, Invariance, PTL

-----------------------------------------------------------------------------
(* The SSE observer: its invariant. *)

\* What the observer has after the bytes b, outside of a write.
Lines == Seq(Tokens)
Payloads == Seq(Tokens \cup {"NL"})

ObserverType == [line : Lines, data : Payloads, skipLine : BOOLEAN, skipEvent : BOOLEAN,
                 skipLF : BOOLEAN, event : Payloads]

\* What is kept is within the limits, and the data are whole lines.
Kept(o) ==
    /\ o \in ObserverType
    /\ Len(o.line) <= MaxEventBytes
    /\ Len(o.data) <= MaxEventBytes
    /\ o.data # <<>> => o.data[Len(o.data)] = "NL"
    /\ Len(o.event) < MaxEventBytes

\* The last line end in b and the last blank line, 0 before the first.
LastBreak(b) == LastBefore(Breaks(b), Len(b) + 1)
LastBlank(b) == LastBefore(BlankLines(b), Len(b) + 1)

\* A line of the last event of b is too long.
Overlong(b) ==
    \E j \in LineEnds(b) : LastBlank(b) < j /\ j - LineStart(b, j) > MaxEventBytes

\* o is what b leaves: the line and the data since the last line end and the last
\* blank line, unless they are too long.
Leaves(o, b) ==
    /\ o.skipLine <=> Len(b) - LastBreak(b) > MaxEventBytes
    /\ o.line = IF o.skipLine THEN <<>> ELSE SubSeq(b, LastBreak(b) + 1, Len(b))
    /\ o.skipEvent <=> \/ Overlong(b)
                       \/ Len(b) - LastBreak(b) > MaxEventBytes
                       \/ Len(Data(b, LastBlank(b), LastBreak(b))) > MaxEventBytes
    /\ ~o.skipEvent => o.data = Data(b, LastBlank(b), LastBreak(b))
    /\ o.event = LastEvent(b)

\* An LF that follows belongs to the last line end.
EndsInCR(b) == Len(b) # 0 /\ b[Len(b)] = "CR"

-----------------------------------------------------------------------------
(* Positions: the last one of a set, and counting them. *)

\* A set of natural numbers has a least element.
LEMMA Least ==
    ASSUME NEW T, T \subseteq Nat, T # {}
    PROVE  \E x \in T : \A y \in T : x <= y
<1> DEFINE R == OpToRel(<, Nat)
<1>1. \A x, y \in Nat : x < y => <<x, y>> \in R
  BY DEF OpToRel
<1>2. IsWellFoundedOn(R, Nat)
  BY NatLessThanWellFounded
<1> HIDE DEF R
<1>3. PICK x \in T : \A y \in T : ~(<<y, x>> \in R)
  BY <1>2, WFMin
<1>4. ASSUME NEW y \in T
      PROVE  x <= y
  <2>1. x \in Nat /\ y \in Nat
    BY Zenon
  <2>2. ~(y < x)
    BY <1>1, <1>3, <2>1, Zenon
  <2> QED
    BY <2>1, <2>2
<1> QED
  BY <1>4

\* A set of natural numbers with a bound has a largest element.
LEMMA Largest ==
    ASSUME NEW T, T \subseteq Nat, T # {}, NEW u \in Nat, \A x \in T : x <= u
    PROVE  Max(T) \in T /\ \A y \in T : y <= Max(T)
<1> DEFINE U == {v \in Nat : \A x \in T : x <= v}
<1>1. U \subseteq Nat /\ U # {}
  OBVIOUS
<1>2. PICK m \in U : \A v \in U : m <= v
  <2> HIDE DEF U
  <2> QED
    BY <1>1, Least
<1>3. m \in Nat /\ \A x \in T : x \in Nat /\ x <= m
  OBVIOUS
<1>4. m \in T
  <2> SUFFICES ASSUME m \notin T
               PROVE  FALSE
    OBVIOUS
  <2>1. PICK x \in T : TRUE
    OBVIOUS
  <2>2. m - 1 \in Nat
    BY <1>3, <2>1
  <2>3. \A y \in T : y <= m - 1
    BY <1>3
  <2>4. m - 1 \in U
    BY <2>2, <2>3
  <2> QED
    BY <1>2, <1>3, <2>4
<1>5. \E x \in T : \A y \in T : x >= y
  BY <1>3, <1>4
<1>6. Max(T) \in T /\ \A y \in T : Max(T) >= y
  BY <1>5 DEF Max
<1>7. Max(T) \in Nat /\ \A y \in T : y \in Nat
  BY <1>6, <1>3
<1> QED
  BY <1>6, <1>7

\* LastBefore is a position of S before i, or 0, and none of S is between them.
LEMMA LastBeforeIs ==
    ASSUME NEW S, \A j \in S : j \in Nat /\ j > 0, NEW i \in Nat, i > 0
    PROVE  /\ LastBefore(S, i) = 0 \/ LastBefore(S, i) \in S
           /\ LastBefore(S, i) \in Nat
           /\ LastBefore(S, i) < i
           /\ \A j \in S : j < i => j <= LastBefore(S, i)
<1> DEFINE T == {0} \cup {j \in S : j < i}
<1>5. \A j : j \in T <=> j = 0 \/ (j \in S /\ j < i)
  BY Zenon
<1>1. T \subseteq Nat /\ T # {} /\ \A j \in T : j <= i
  <2>1. \A j \in T : j = 0 \/ (j \in S /\ j < i)
    BY <1>5, Zenon
  <2> HIDE DEF T
  <2>2. \A j \in T : j \in Nat /\ j <= i
    BY <2>1
  <2> QED
    BY <1>5, <2>2
<1>2. Max(T) \in T /\ \A j \in T : j <= Max(T)
  <2> HIDE DEF T
  <2> QED
    BY <1>1, Largest
<1>3. LastBefore(S, i) = Max(T)
  BY Zenon DEF LastBefore
<1>4. LastBefore(S, i) \in T /\ \A j \in T : j <= LastBefore(S, i)
  BY <1>2, <1>3, Zenon
<1> HIDE DEF T
<1>6. \A j \in S : j < i => j <= LastBefore(S, i)
  BY <1>4, <1>5, Zenon
<1>7. LastBefore(S, i) = 0 \/ (LastBefore(S, i) \in S /\ LastBefore(S, i) < i)
  BY <1>4, <1>5, Zenon
<1>8. LastBefore(S, i) \in Nat /\ LastBefore(S, i) < i
  BY <1>7
<1> QED
  BY <1>6, <1>7, <1>8, Zenon

\* Nothing else is.
LEMMA LastIs ==
    ASSUME NEW S, \A j \in S : j \in Nat /\ j > 0, NEW i \in Nat, i > 0,
           NEW m, m = 0 \/ m \in S, m < i, \A j \in S : j < i => j <= m
    PROVE  LastBefore(S, i) = m
<1> DEFINE l == LastBefore(S, i)
<1>1. /\ l = 0 \/ l \in S
      /\ l \in Nat /\ l < i /\ \A j \in S : j < i => j <= l
  BY LastBeforeIs, Zenon
<1> HIDE DEF l
<1>3. m <= l /\ l <= m /\ m \in Nat
  BY <1>1
<1>4. m = l
  BY <1>1, <1>3
<1> QED
  BY <1>4 DEF l

\* The member of S that has n members up to it.
Nth(S, n) == CHOOSE i \in S : Cardinality({j \in S : j <= i}) = n

\* The members of S up to i.
Upto(S, i) == {j \in S : j <= i}

\* The members of a finite set of positions are numbered in their order, without a gap.
LEMMA Numbered ==
    ASSUME NEW S, IsFiniteSet(S), S \subseteq Nat
    PROVE  /\ \A i \in S : Cardinality(Upto(S, i)) \in 1..Cardinality(S)
           /\ \A i, j \in S : Cardinality(Upto(S, i)) = Cardinality(Upto(S, j)) => i = j
           /\ \A n \in 1..Cardinality(S) : \E i \in S : Cardinality(Upto(S, i)) = n
<1> DEFINE N == Cardinality(S)
           r == [i \in S |-> Cardinality(Upto(S, i))]
<1>1. N \in Nat
  BY FS_CardinalityType
<1>2. \A i \in S : IsFiniteSet(Upto(S, i)) /\ r[i] \in Nat /\ r[i] <= N
  <2> TAKE i \in S
  <2>1. Upto(S, i) \in SUBSET S
    BY DEF Upto
  <2>2. IsFiniteSet(Upto(S, i)) /\ Cardinality(Upto(S, i)) <= N
    BY <2>1, FS_Subset
  <2> QED
    BY <2>2, FS_CardinalityType
<1>3. \A i \in S : r[i] \in 1..N
  <2> TAKE i \in S
  <2>0. i \in Nat
    BY Zenon
  <2>1. i \in Upto(S, i)
    BY <2>0 DEF Upto
  <2>2. r[i] # 0
    BY <1>2, <2>1, FS_EmptySet
  <2> QED
    BY <1>1, <1>2, <2>2
<1>4. \A i, j \in S : i < j => r[i] < r[j]
  <2> SUFFICES ASSUME NEW i \in S, NEW j \in S, i < j PROVE r[i] < r[j]
    OBVIOUS
  <2>0. i \in Nat /\ j \in Nat /\ \A k \in S : k \in Nat
    BY Zenon
  <2>1. \A k \in S : k <= i => k <= j
    BY <2>0
  <2>4. Upto(S, i) \in SUBSET Upto(S, j)
    BY <2>1, Zenon DEF Upto
  <2>2. j \in Upto(S, j) /\ j \notin Upto(S, i)
    BY <2>0 DEF Upto
  <2>3. /\ Cardinality(Upto(S, i)) <= Cardinality(Upto(S, j))
        /\ Cardinality(Upto(S, i)) # Cardinality(Upto(S, j))
    BY <1>2, <2>4, <2>2, FS_Subset
  <2> QED
    BY <1>2, <2>3
<1>5. \A i, j \in S : r[i] = r[j] => i = j
  <2> SUFFICES ASSUME NEW i \in S, NEW j \in S, r[i] = r[j] PROVE i = j
    OBVIOUS
  <2>1. r[i] \in Nat /\ r[j] \in Nat
    BY <1>2
  <2>2. ~(i < j) /\ ~(j < i)
    BY <1>4, <2>1
  <2> QED
    BY <2>2
<1>6. r \in Injection(S, 1..N)
  <2>1. r \in [S -> 1..N] /\ DOMAIN r = S
    BY <1>3
  <2> HIDE DEF r, N
  <2> QED
    BY <1>5, <2>1 DEF Injection, IsInjective
<1>7. IsFiniteSet(1..N) /\ Cardinality(1..N) = N
  <2>1. IsFiniteSet(1..N) /\ Cardinality(1..N) = IF 1 > N THEN 0 ELSE N - 1 + 1
    BY <1>1, FS_Interval
  <2> QED
    BY <1>1, <2>1
<1>8. r \in Surjection(S, 1..N)
  BY <1>6, <1>7, FS_Injection
<1>9. \A n \in 1..N : \E i \in S : r[i] = n
  BY <1>8 DEF Surjection
<1> QED
  BY <1>3, <1>5, <1>9

\* Nth undoes Upto.
LEMMA NthOf ==
    ASSUME NEW S, IsFiniteSet(S), S \subseteq Nat
    PROVE  /\ \A n \in 1..Cardinality(S) :
                Nth(S, n) \in S /\ Cardinality(Upto(S, Nth(S, n))) = n
           /\ \A i \in S : Nth(S, Cardinality(Upto(S, i))) = i
<1>1. \A n \in 1..Cardinality(S) :
          Nth(S, n) \in S /\ Cardinality(Upto(S, Nth(S, n))) = n
  <2> TAKE n \in 1..Cardinality(S)
  <2>1. \E i \in S : Cardinality(Upto(S, i)) = n
    BY Numbered, Zenon
  <2>2. Nth(S, n) = CHOOSE i \in S : Cardinality(Upto(S, i)) = n
    BY Zenon DEF Nth, Upto
  <2> QED
    BY <2>1, <2>2, Zenon
<1>2. ASSUME NEW i \in S
      PROVE  Nth(S, Cardinality(Upto(S, i))) = i
  <2> DEFINE n == Cardinality(Upto(S, i))
  <2>1. n \in 1..Cardinality(S)
    BY Numbered, Zenon
  <2>2. \A j \in S : Cardinality(Upto(S, j)) = n => j = i
    BY Numbered, Zenon
  <2> HIDE DEF n
  <2>3. Nth(S, n) = i
    BY <1>1, <2>1, <2>2, Zenon
  <2> QED
    BY <2>3 DEF n
<1> QED
  BY <1>1, <1>2

\* Positions S up to m, and all from there to hi.
Extend(S, m, hi) == S \cup ((m + 1)..hi)

\* An interval after a set of positions continues their numbers.
LEMMA NthGrows ==
    ASSUME NEW S, IsFiniteSet(S), NEW m \in Nat, NEW hi \in Nat, m <= hi,
           S \subseteq 0..m
    PROVE  /\ Cardinality(Extend(S, m, hi)) = Cardinality(S) + (hi - m)
           /\ \A n \in 1..Cardinality(S) : Nth(Extend(S, m, hi), n) = Nth(S, n)
           /\ \A k \in 1..(hi - m) : Nth(Extend(S, m, hi), Cardinality(S) + k) = m + k
<1> DEFINE T == S \cup ((m + 1)..hi)
<1>1. Cardinality(S) \in Nat
  BY FS_CardinalityType
<1>2. \A x \in S : x \in Nat /\ x <= m
  <2>1. \A x \in S : x \in 0..m
    BY Zenon
  <2> QED
    BY <2>1
<1>3. \A x : x \in T <=> x \in S \/ x \in (m + 1)..hi
  BY Zenon
<1>9. T = S \cup ((m + 1)..hi)
  OBVIOUS
<1> HIDE DEF T
<1>4. ASSUME NEW k \in 0..(hi - m)
      PROVE  /\ IsFiniteSet(S \cup ((m + 1)..(m + k)))
             /\ Cardinality(S \cup ((m + 1)..(m + k))) = Cardinality(S) + k
  <2> DEFINE J == (m + 1)..(m + k)
  <2>1. /\ IsFiniteSet(J)
        /\ Cardinality(J) = IF m + 1 > m + k THEN 0 ELSE (m + k) - (m + 1) + 1
    BY FS_Interval
  <2>2. Cardinality(J) = k
    BY <2>1
  <2>3. \A x \in J : x \notin S
    BY <1>2
  <2> HIDE DEF J
  <2>4. S \cap J = {}
    BY <2>3, Zenon
  <2>5. Cardinality(S \cap J) = 0
    BY <2>4, FS_EmptySet
  <2>6. /\ IsFiniteSet(S \cup J)
        /\ Cardinality(S \cup J) = Cardinality(S) + Cardinality(J) - Cardinality(S \cap J)
    BY <2>1, FS_Union
  <2>7. IsFiniteSet(S \cup J) /\ Cardinality(S \cup J) = Cardinality(S) + k
    BY <1>1, <2>2, <2>5, <2>6
  <2> QED
    BY <2>7 DEF J
<1>5. IsFiniteSet(T) /\ Cardinality(T) = Cardinality(S) + (hi - m)
  <2>1. hi - m \in 0..(hi - m) /\ m + (hi - m) = hi
    OBVIOUS
  <2> QED
    BY <1>4, <1>9, <2>1
<1>6. T \subseteq Nat /\ S \subseteq Nat
  <2>1. \A x \in T : x \in Nat
    <3>1. \A x \in (m + 1)..hi : x \in Nat
      OBVIOUS
    <3> QED
      BY <1>2, <1>3, <3>1, Zenon
  <2> QED
    BY <1>2, <2>1, Zenon
<1>7. ASSUME NEW n \in 1..Cardinality(S)
      PROVE  Nth(T, n) = Nth(S, n)
  <2> DEFINE i == Nth(S, n)
  <2>1. i \in S /\ Cardinality(Upto(S, i)) = n
    BY <1>6, NthOf, Zenon
  <2> HIDE DEF i
  <2>2. i \in Nat /\ i <= m
    BY <1>2, <2>1
  <2>3. \A x : x \in Upto(T, i) <=> x \in Upto(S, i)
    <3>1. \A x \in (m + 1)..hi : ~(x <= i)
      BY <2>2
    <3> QED
      BY <1>3, <3>1, Zenon DEF Upto
  <2>4. Upto(T, i) = Upto(S, i)
    BY <2>3, Zenon
  <2>5. i \in T /\ Nth(T, Cardinality(Upto(T, i))) = i
    BY <1>3, <1>5, <1>6, <2>1, NthOf, Zenon
  <2> QED
    BY <2>1, <2>4, <2>5, Zenon DEF i
<1>8. ASSUME NEW k \in 1..(hi - m)
      PROVE  Nth(T, Cardinality(S) + k) = m + k
  <2>1. m + k \in T
    <3>1. m + k \in (m + 1)..hi
      OBVIOUS
    <3> QED
      BY <1>3, <3>1, Zenon
  <2>2. Upto(T, m + k) = S \cup ((m + 1)..(m + k))
    <3>1. \A x \in S : x <= m + k
      BY <1>2
    <3>2. \A x : x \in (m + 1)..hi /\ x <= m + k <=> x \in (m + 1)..(m + k)
      OBVIOUS
    <3>3. \A x : x \in Upto(T, m + k) <=> x \in S \/ x \in (m + 1)..(m + k)
      BY <1>3, <3>1, <3>2, Zenon DEF Upto
    <3> QED
      BY <3>3, Zenon
  <2>3. Cardinality(Upto(T, m + k)) = Cardinality(S) + k
    <3>1. k \in 0..(hi - m)
      OBVIOUS
    <3> QED
      BY <1>4, <2>2, <3>1, Zenon
  <2>4. \A i \in T : Nth(T, Cardinality(Upto(T, i))) = i
    BY <1>5, <1>6, NthOf, Zenon
  <2> QED
    BY <2>1, <2>3, <2>4, Zenon
<1> QED
  BY <1>5, <1>7, <1>8, Zenon DEF Extend, T

\* Positions that agree before i have the same last one.
LEMMA SameLast ==
    ASSUME NEW S, NEW T, NEW i, \A j : j \in S /\ j < i <=> j \in T /\ j < i
    PROVE  LastBefore(S, i) = LastBefore(T, i)
<1>1. {j \in S : j < i} = {j \in T : j < i}
  BY Zenon
<1> QED
  BY <1>1, Zenon DEF LastBefore

-----------------------------------------------------------------------------
(* A response and the bytes it begins with. *)

\* b begins with a.
Prefix(a, b) == Len(a) <= Len(b) /\ \A i \in 1..Len(a) : a[i] = b[i]

\* Line ends and blank lines are positions of b.
LEMMA Places ==
    ASSUME NEW b \in Seq(Tokens)
    PROVE  /\ Len(b) \in Nat
           /\ \A i \in Breaks(b) : i \in Nat /\ i > 0 /\ i <= Len(b)
           /\ \A i \in LineEnds(b) : i \in Breaks(b)
           /\ \A i \in BlankLines(b) : i \in LineEnds(b) /\ i \in Nat /\ i > 0 /\ i <= Len(b)
<1>1. Len(b) \in Nat
  OBVIOUS
<1>2. \A i \in Breaks(b) : i \in Nat /\ i > 0 /\ i <= Len(b)
  BY <1>1 DEF Breaks
<1>3. \A i \in LineEnds(b) : i \in Breaks(b)
  BY Zenon DEF LineEnds
<1>4. \A i \in BlankLines(b) : i \in LineEnds(b)
  BY Zenon DEF BlankLines
<1> QED
  BY <1>1, <1>2, <1>3, <1>4, Zenon

\* The start of a line is after the line end before it.
LEMMA Starts ==
    ASSUME NEW b \in Seq(Tokens), NEW i \in Nat, i > 0
    PROVE  LineStart(b, i) \in Nat /\ LineStart(b, i) > 0 /\ LineStart(b, i) <= i
<1>1. LastBefore(Breaks(b), i) \in Nat /\ LastBefore(Breaks(b), i) < i
  BY Places, LastBeforeIs, Zenon
<1> QED
  BY <1>1 DEF LineStart

\* What comes later changes no line, and no blank line.
LEMMA PrefixLines ==
    ASSUME NEW a \in Seq(Tokens), NEW b \in Seq(Tokens), Prefix(a, b)
    PROVE  /\ \A i \in 1..Len(a) : /\ i \in Breaks(a) <=> i \in Breaks(b)
                                   /\ i \in LineEnds(a) <=> i \in LineEnds(b)
                                   /\ i \in BlankLines(a) <=> i \in BlankLines(b)
                                   /\ InData(a, i) <=> InData(b, i)
           /\ \A i \in 1..(Len(a) + 1) :
                  /\ LastBefore(Breaks(a), i) = LastBefore(Breaks(b), i)
                  /\ LineStart(a, i) = LineStart(b, i)
                  /\ LastBefore(BlankLines(a), i) = LastBefore(BlankLines(b), i)
<1>0. /\ Len(a) \in Nat /\ Len(b) \in Nat /\ Len(a) <= Len(b)
      /\ \A i \in 1..Len(a) : a[i] = b[i]
  BY DEF Prefix
<1>1. \A i \in 1..Len(a) : i \in Breaks(a) <=> i \in Breaks(b)
  BY <1>0 DEF Breaks
<1>2. \A i \in 1..Len(a) : i \in LineEnds(a) <=> i \in LineEnds(b)
  <2> TAKE i \in 1..Len(a)
  <2>1. i = 1 \/ i - 1 \in 1..Len(a)
    BY <1>0
  <2>2. a[i] = b[i] /\ (i = 1 \/ a[i - 1] = b[i - 1])
    BY <1>0, <2>1
  <2> QED
    BY <1>1, <2>2, Zenon DEF LineEnds
<1>3. \A i \in 1..(Len(a) + 1) : LastBefore(Breaks(a), i) = LastBefore(Breaks(b), i)
  <2> TAKE i \in 1..(Len(a) + 1)
  <2>1. \A j \in Nat : j > 0 /\ j < i => j \in 1..Len(a)
    BY <1>0
  <2>2. \A j : j \in Breaks(a) /\ j < i <=> j \in Breaks(b) /\ j < i
    BY <1>1, <2>1, Places, Zenon
  <2> QED
    BY <2>2, SameLast, Zenon
<1>4. \A i \in 1..(Len(a) + 1) : LineStart(a, i) = LineStart(b, i)
  BY <1>3, Zenon DEF LineStart
<1>5. \A i \in 1..Len(a) : i \in 1..(Len(a) + 1)
  BY <1>0
<1>6. \A i \in 1..Len(a) : i \in BlankLines(a) <=> i \in BlankLines(b)
  BY <1>2, <1>4, <1>5, Zenon DEF BlankLines
<1>7. \A i \in 1..(Len(a) + 1) : LastBefore(BlankLines(a), i) = LastBefore(BlankLines(b), i)
  <2> TAKE i \in 1..(Len(a) + 1)
  <2>1. \A j \in Nat : j > 0 /\ j < i => j \in 1..Len(a)
    BY <1>0
  <2>2. \A j : j \in BlankLines(a) /\ j < i <=> j \in BlankLines(b) /\ j < i
    BY <1>6, <2>1, Places, Zenon
  <2> QED
    BY <2>2, SameLast, Zenon
<1>8. \A i \in 1..Len(a) : InData(a, i) <=> InData(b, i)
  <2> TAKE i \in 1..Len(a)
  <2>1. i \in Nat /\ i > 0
    BY <1>0
  <2>4. LineStart(a, i) \in Nat /\ LineStart(a, i) > 0 /\ LineStart(a, i) <= i
    BY <2>1, Starts, Zenon
  <2>5. LineStart(a, i) \in 1..Len(a)
    BY <1>0, <2>1, <2>4
  <2>2. LineStart(a, i) = LineStart(b, i) /\ LineStart(a, i) \in 1..Len(a)
    BY <1>4, <1>5, <2>5, Zenon
  <2>3. a[i] = b[i] /\ a[LineStart(a, i)] = b[LineStart(b, i)]
    BY <1>0, <2>2, Zenon
  <2> QED
    BY <2>2, <2>3, Zenon DEF InData
<1> QED
  BY <1>1, <1>2, <1>3, <1>4, <1>6, <1>7, <1>8, Zenon

\* The positions of the data between two others, and how they are shown.
DataAt(b, from, to) == {i \in (from + 1)..to : InData(b, i)}

\* Every line end is shown as NL.
Shown(b, i) == IF b[i] \in LineBreaks THEN "NL" ELSE b[i]

\* The data in terms of the positions they come from.
LEMMA DataIs ==
    ASSUME NEW b, NEW from, NEW to
    PROVE  Data(b, from, to) = [n \in 1..Cardinality(DataAt(b, from, to)) |->
                                    Shown(b, Nth(DataAt(b, from, to), n))]
BY Zenon DEF Data, DataAt, Shown, Nth

\* These positions are finitely many, and the n-th is one of them.
LEMMA DataPlaces ==
    ASSUME NEW b, NEW from \in Nat, NEW to \in Nat
    PROVE  /\ IsFiniteSet(DataAt(b, from, to)) /\ Cardinality(DataAt(b, from, to)) \in Nat
           /\ DataAt(b, from, to) \subseteq Nat
           /\ \A i \in DataAt(b, from, to) : i \in (from + 1)..to
           /\ \A n \in 1..Cardinality(DataAt(b, from, to)) :
                  Nth(DataAt(b, from, to), n) \in DataAt(b, from, to)
<1> DEFINE D == DataAt(b, from, to)
<1>1. \A i \in D : i \in (from + 1)..to
  BY Zenon DEF DataAt
<1> HIDE DEF D
<1>2. IsFiniteSet((from + 1)..to)
  BY FS_Interval
<1>3. D \in SUBSET ((from + 1)..to)
  BY <1>1, Zenon
<1>4. IsFiniteSet(D)
  BY <1>2, <1>3, FS_Subset
<1>5. Cardinality(D) \in Nat
  BY <1>4, FS_CardinalityType
<1>6. \A i \in D : i \in Nat
  BY <1>1
<1>7. D \subseteq Nat
  BY <1>6, Zenon
<1>8. \A n \in 1..Cardinality(D) : Nth(D, n) \in D
  BY <1>4, <1>7, NthOf, Zenon
<1> QED
  BY <1>1, <1>4, <1>5, <1>7, <1>8 DEF D

\* The data are bytes and line ends.
LEMMA DataType ==
    ASSUME NEW b \in Seq(Tokens), NEW from \in Nat, NEW to \in Nat, to <= Len(b)
    PROVE  /\ Data(b, from, to) \in Seq(Tokens \cup {"NL"})
           /\ Len(Data(b, from, to)) = Cardinality(DataAt(b, from, to))
           /\ Len(Data(b, from, to)) \in Nat
<1> DEFINE D == DataAt(b, from, to)
<1>1. Cardinality(D) \in Nat
  BY DataPlaces, Zenon
<1>2. ASSUME NEW n \in 1..Cardinality(D)
      PROVE  Shown(b, Nth(D, n)) \in Tokens \cup {"NL"}
  <2>1. Nth(D, n) \in (from + 1)..to
    BY DataPlaces, Zenon
  <2>2. Nth(D, n) \in 1..Len(b)
    BY <2>1
  <2>3. b[Nth(D, n)] \in Tokens
    BY <2>2
  <2> QED
    BY <2>3, Zenon DEF Shown
<1>3. Data(b, from, to) = [n \in 1..Cardinality(D) |-> Shown(b, Nth(D, n))]
  BY DataIs, Zenon
<1> HIDE DEF D
<1>4. Data(b, from, to) \in Seq(Tokens \cup {"NL"})
  BY <1>1, <1>2, <1>3
<1>5. Len(Data(b, from, to)) = Cardinality(D)
  BY <1>1, <1>3
<1> QED
  BY <1>1, <1>4, <1>5 DEF D

\* The data up to a position do not depend on what follows.
LEMMA DataPrefix ==
    ASSUME NEW a \in Seq(Tokens), NEW b \in Seq(Tokens), Prefix(a, b),
           NEW from \in Nat, NEW to \in Nat, to <= Len(a)
    PROVE  DataAt(a, from, to) = DataAt(b, from, to) /\ Data(a, from, to) = Data(b, from, to)
<1> DEFINE D == DataAt(a, from, to)
<1>0. \A i \in (from + 1)..to : i \in 1..Len(a)
  OBVIOUS
<1>1. DataAt(b, from, to) = D
  <2>1. \A i \in (from + 1)..to : InData(a, i) <=> InData(b, i)
    BY <1>0, PrefixLines, Zenon
  <2> QED
    BY <2>1, Zenon DEF DataAt
<1>2. \A n \in 1..Cardinality(D) : Shown(a, Nth(D, n)) = Shown(b, Nth(D, n))
  <2> TAKE n \in 1..Cardinality(D)
  <2>1. Nth(D, n) \in 1..Len(a)
    BY <1>0, DataPlaces, Zenon
  <2>2. a[Nth(D, n)] = b[Nth(D, n)]
    BY <2>1, Zenon DEF Prefix
  <2> QED
    BY <2>2, Zenon DEF Shown
<1>3. Data(a, from, to) = Data(b, from, to)
  BY <1>1, <1>2, DataIs, Zenon
<1> QED
  BY <1>1, <1>3

\* The bytes after m up to "to", as they are shown.
Block(b, m, to) == [k \in 1..(to - m) |-> Shown(b, m + k)]

\* All positions of b after m up to "to" are data, and none between mid and m.
Grows(b, from, mid, m, to) ==
    /\ b \in Seq(Tokens) /\ from \in Nat /\ mid \in Nat /\ m \in Nat /\ to \in Nat
    /\ mid <= m /\ m <= to /\ to <= Len(b)
    /\ DataAt(b, from, to) = Extend(DataAt(b, from, mid), m, to)

\* A block of new positions is appended to the data.
LEMMA DataGrows ==
    ASSUME NEW b, NEW from, NEW mid, NEW m, NEW to, Grows(b, from, mid, m, to)
    PROVE  Data(b, from, to) = Data(b, from, mid) \o Block(b, m, to)
<1> DEFINE S == DataAt(b, from, mid)
           T == DataAt(b, from, to)
           c == Cardinality(S)
           block == [k \in 1..(to - m) |-> Shown(b, m + k)]
<1>0. /\ b \in Seq(Tokens) /\ from \in Nat /\ mid \in Nat /\ m \in Nat /\ to \in Nat
      /\ mid <= m /\ m <= to /\ to <= Len(b)
      /\ DataAt(b, from, to) = Extend(DataAt(b, from, mid), m, to)
  BY DEF Grows
<1> USE <1>0
<1>1. IsFiniteSet(S) /\ c \in Nat /\ \A i \in S : i \in (from + 1)..mid
  BY DataPlaces, Zenon
<1>2. \A i \in S : i \in 0..m
  BY <1>1
<1>3. Data(b, from, mid) = [n \in 1..c |-> Shown(b, Nth(S, n))]
      /\ Data(b, from, to) = [n \in 1..Cardinality(T) |-> Shown(b, Nth(T, n))]
  BY DataIs, Zenon
<1>4. T = Extend(S, m, to)
  BY Zenon
<1> HIDE DEF S, T, c
<1>5. /\ Cardinality(T) = c + (to - m)
      /\ \A n \in 1..c : Nth(T, n) = Nth(S, n)
      /\ \A k \in 1..(to - m) : Nth(T, c + k) = m + k
  <2>1. S \subseteq 0..m
    BY <1>2, Zenon
  <2>2. m \in Nat /\ to \in Nat /\ m <= to
    OBVIOUS
  <2> HIDE DEF block
  <2>4. IsFiniteSet(S)
    BY <1>1
  <2>3. /\ Cardinality(T) = Cardinality(S) + (to - m)
        /\ \A n \in 1..Cardinality(S) : Nth(T, n) = Nth(S, n)
        /\ \A k \in 1..(to - m) : Nth(T, Cardinality(S) + k) = m + k
    BY <1>4, <2>1, <2>2, <2>4, NthGrows, Zenon
  <2> QED
    BY <2>3, Zenon DEF c
<1>6. to - m \in Nat
  OBVIOUS
<1>7. Data(b, from, mid) \o block =
          [n \in 1..(c + (to - m)) |->
              IF n <= c THEN Shown(b, Nth(S, n)) ELSE Shown(b, m + (n - c))]
  <2> DEFINE d == Data(b, from, mid)
             whole == [n \in 1..(c + (to - m)) |->
                          IF n <= c THEN Shown(b, Nth(S, n)) ELSE Shown(b, m + (n - c))]
  <2>0. mid <= Len(b)
    OBVIOUS
  <2>1. d \in Seq(Tokens \cup {"NL"}) /\ Len(d) = c
    BY <1>3, <2>0, DataType, Zenon DEF c, S
  <2>2. block \in Seq(Tokens \cup {"NL"}) /\ Len(block) = to - m
    <3>1. \A k \in 1..(to - m) : Shown(b, m + k) \in Tokens \cup {"NL"}
      <4> TAKE k \in 1..(to - m)
      <4>1. m + k \in 1..Len(b)
        OBVIOUS
      <4>2. b[m + k] \in Tokens
        BY <4>1
      <4> QED
        BY <4>2, Zenon DEF Shown
    <3> QED
      BY <1>6, <3>1
  <2>3. \A n \in 1..c : d[n] = Shown(b, Nth(S, n))
    BY <1>3, Zenon
  <2>4. \A k \in 1..(to - m) : block[k] = Shown(b, m + k)
    OBVIOUS
  <2> HIDE DEF d, block
  <2>8. DOMAIN block = 1..(to - m)
    BY <1>6, <2>2
  <2>5. d \o block \in Seq(Tokens \cup {"NL"}) /\ Len(d \o block) = c + (to - m)
    BY <1>1, <1>6, <2>1, <2>2
  <2>6. \A n \in 1..(c + (to - m)) : (d \o block)[n] = whole[n]
    <3> TAKE n \in 1..(c + (to - m))
    <3>1. CASE n <= c
      <4>1. n \in 1..c
        BY <1>1, <3>1
      <4>2. (d \o block)[n] = d[n]
        BY <2>1, <2>2, <4>1
      <4> QED
        BY <2>3, <3>1, <4>1, <4>2
    <3>2. CASE ~(n <= c)
      <4>1. n - c \in 1..(to - m)
        BY <1>1, <1>6, <3>2
      <4>2. (d \o block)[n] = block[n - c]
        BY <1>1, <1>6, <2>1, <2>2, <3>2
      <4> QED
        BY <2>4, <3>2, <4>1, <4>2
    <3> QED
      BY <3>1, <3>2
  <2>7. d \o block = whole
    <3> DEFINE e == d \o block
    <3>1. e \in Seq(Tokens \cup {"NL"}) /\ Len(e) = c + (to - m)
      BY <2>5
    <3> HIDE DEF e
    <3>2. e = [n \in 1..(c + (to - m)) |-> e[n]]
      BY <3>1
    <3> QED
      BY <2>6, <3>2, Zenon DEF e
  <2> QED
    BY <2>7 DEF d
<1>8. [n \in 1..(c + (to - m)) |-> Shown(b, Nth(T, n))] =
          [n \in 1..(c + (to - m)) |->
              IF n <= c THEN Shown(b, Nth(S, n)) ELSE Shown(b, m + (n - c))]
  <2>1. ASSUME NEW n \in 1..(c + (to - m))
        PROVE  Nth(T, n) = IF n <= c THEN Nth(S, n) ELSE m + (n - c)
    <3>1. CASE n <= c
      <4>1. n \in 1..c
        BY <1>1, <3>1
      <4> QED
        BY <1>5, <3>1, <4>1
    <3>2. CASE ~(n <= c)
      <4>1. n - c \in 1..(to - m) /\ c + (n - c) = n
        BY <1>1, <1>6, <3>2
      <4>2. Nth(T, c + (n - c)) = m + (n - c)
        BY <1>5, <4>1
      <4> QED
        BY <3>2, <4>1, <4>2
    <3> QED
      BY <3>1, <3>2
  <2> QED
    BY <2>1
<1> QED
  BY <1>3, <1>5, <1>7, <1>8 DEF S, Block

-----------------------------------------------------------------------------
(* Events. *)

\* The blank lines that end an event to keep.
Events(b) == {i \in BlankLines(b) : Observable(b, i)}

\* The last event in terms of the blank lines that end an event.
LEMMA LastEventIs ==
    ASSUME NEW b
    PROVE  LastEvent(b) =
               IF Events(b) = {} THEN <<>> ELSE Front(EventData(b, Max(Events(b))))
BY Zenon DEF LastEvent, Events, Front

\* What comes after a blank line changes nothing about the event it ends.
LEMMA EventPrefix ==
    ASSUME NEW a \in Seq(Tokens), NEW b \in Seq(Tokens), Prefix(a, b), NEW i \in BlankLines(a)
    PROVE  EventData(a, i) = EventData(b, i) /\ (Observable(a, i) <=> Observable(b, i))
<1> DEFINE z == LastBefore(BlankLines(a), i)
<1>1. i \in Nat /\ i > 0 /\ i <= Len(a) /\ Len(a) \in Nat /\ Len(b) \in Nat /\ Len(a) <= Len(b)
  BY Places, Zenon DEF Prefix
<1>2. i \in 1..Len(a) /\ i \in 1..(Len(a) + 1)
  BY <1>1
<1>3. LastBefore(BlankLines(b), i) = z
  BY <1>2, PrefixLines, Zenon
<1>4. z \in Nat
  BY <1>1, Places, LastBeforeIs, Zenon
<1>5. EventData(a, i) = EventData(b, i)
  <2>1. i - 1 \in Nat /\ i - 1 <= Len(a)
    BY <1>1
  <2>2. Data(a, z, i - 1) = Data(b, z, i - 1)
    BY <1>4, <2>1, DataPrefix, Zenon
  <2> QED
    BY <1>3, <2>2, Zenon DEF EventData
<1>6. \A j \in Nat : j > 0 /\ j < i => /\ j \in LineEnds(a) <=> j \in LineEnds(b)
                                       /\ LineStart(a, j) = LineStart(b, j)
  <2> TAKE j \in Nat
  <2> HAVE j > 0 /\ j < i
  <2>1. j \in 1..Len(a) /\ j \in 1..(Len(a) + 1)
    BY <1>1
  <2> QED
    BY <2>1, PrefixLines, Zenon
<1>7. (\A j \in LineEnds(a) : z < j /\ j < i => j - LineStart(a, j) <= MaxEventBytes)
      <=> (\A j \in LineEnds(b) : z < j /\ j < i => j - LineStart(b, j) <= MaxEventBytes)
  <2>1. \A j \in LineEnds(a) : j \in Nat /\ j > 0
    BY Places, Zenon
  <2>2. \A j \in LineEnds(b) : j \in Nat /\ j > 0
    BY Places, Zenon
  <2> QED
    BY <1>6, <2>1, <2>2, Zenon
<1> QED
  BY <1>3, <1>5, <1>7, Zenon DEF Observable

\* Without a new blank line there is no new event, ...
LEMMA LastEventSame ==
    ASSUME NEW a \in Seq(Tokens), NEW b \in Seq(Tokens), Prefix(a, b), BlankLines(a) = BlankLines(b)
    PROVE  LastEvent(a) = LastEvent(b)
<1>1. \A i : i \in Events(a) <=> i \in Events(b)
  BY EventPrefix, Zenon DEF Events
<1>2. Events(a) = Events(b)
  BY <1>1, Zenon
<1>3. \A i \in Events(a) : i \in BlankLines(a) /\ i \in Nat /\ i <= Len(a)
  BY Places, Zenon DEF Events
<1>4. Events(a) # {} => Max(Events(a)) \in Events(a)
  <2>1. Events(a) \subseteq Nat /\ Len(a) \in Nat
    BY <1>3, Places, Zenon
  <2> QED
    BY <1>3, <2>1, Largest, Zenon
<1>5. Events(a) # {} => EventData(a, Max(Events(a))) = EventData(b, Max(Events(a)))
  BY <1>3, <1>4, EventPrefix, Zenon
<1> QED
  BY <1>2, <1>5, LastEventIs, Zenon

\* ... and with one the event it ends is the last, if it is one.
LEMMA LastEventNew ==
    ASSUME NEW a \in Seq(Tokens), NEW b \in Seq(Tokens), Prefix(a, b),
           NEW n \in Nat, n > Len(a), BlankLines(b) = BlankLines(a) \cup {n}
    PROVE  LastEvent(b) = IF Observable(b, n) THEN Front(EventData(b, n)) ELSE LastEvent(a)
<1>1. \A i : i \in Events(b) <=> i \in Events(a) \/ (i = n /\ Observable(b, n))
  BY EventPrefix, Zenon DEF Events
<1>2. /\ \A i \in Events(a) : i \in BlankLines(a) /\ i \in Nat /\ i <= Len(a)
      /\ \A i \in Events(b) : i \in Nat /\ i <= Len(b)
      /\ Len(a) \in Nat /\ Len(b) \in Nat
  BY Places, Zenon DEF Events
<1>3. CASE Observable(b, n)
  <2>1. n \in Events(b)
    BY <1>1, <1>3, Zenon
  <2>2. Max(Events(b)) \in Events(b) /\ \A i \in Events(b) : i <= Max(Events(b))
    <3>1. Events(b) \subseteq Nat /\ Events(b) # {}
      BY <1>2, <2>1, Zenon
    <3> QED
      BY <1>2, <3>1, Largest, Zenon
  <2>3. Max(Events(b)) = n
    <3>1. n <= Max(Events(b)) /\ Max(Events(b)) \in Nat
      BY <1>2, <2>1, <2>2, Zenon
    <3>2. Max(Events(b)) \notin Events(a)
      BY <1>2, <3>1
    <3> QED
      BY <1>1, <2>2, <3>2, Zenon
  <2> QED
    BY <1>3, <2>1, <2>3, LastEventIs, Zenon
<1>4. CASE ~Observable(b, n)
  <2>1. Events(b) = Events(a)
    BY <1>1, <1>4, Zenon
  <2>2. Events(a) # {} => Max(Events(a)) \in Events(a)
    <3>1. Events(a) \subseteq Nat
      BY <1>2, Zenon
    <3> QED
      BY <1>2, <3>1, Largest, Zenon
  <2>3. Events(a) # {} => EventData(a, Max(Events(a))) = EventData(b, Max(Events(a)))
    BY <1>2, <2>2, EventPrefix, Zenon
  <2> QED
    BY <1>4, <2>1, <2>3, LastEventIs, Zenon
<1> QED
  BY <1>3, <1>4, Zenon
-----------------------------------------------------------------------------
(* What is kept is bounded. *)

\* Nothing is a line and a payload.
LEMMA Nothing ==
    <<>> \in Lines /\ <<>> \in Payloads /\ Len(<<>>) = 0
BY DEF Lines, Payloads

\* What is known of each field of an observer.
LEMMA KeptFields ==
    ASSUME NEW o, Kept(o), ObserverAssumption
    PROVE  /\ o \in ObserverType /\ MaxEventBytes \in Nat /\ MaxEventBytes > 0
           /\ o.line \in Lines /\ o.line \in Seq(Tokens) /\ Len(o.line) \in Nat
           /\ Len(o.line) <= MaxEventBytes
           /\ o.data \in Payloads /\ o.data \in Seq(Tokens \cup {"NL"}) /\ Len(o.data) \in Nat
           /\ Len(o.data) <= MaxEventBytes
           /\ o.data # <<>> => o.data[Len(o.data)] = "NL"
           /\ o.event \in Payloads /\ Len(o.event) < MaxEventBytes
           /\ o.skipLine \in BOOLEAN /\ o.skipEvent \in BOOLEAN /\ o.skipLF \in BOOLEAN
<1>1. o \in ObserverType /\ MaxEventBytes \in Nat /\ MaxEventBytes > 0
  BY DEF Kept, ObserverAssumption
<1>2. /\ o.line \in Lines /\ o.data \in Payloads /\ o.event \in Payloads
      /\ o.skipLine \in BOOLEAN /\ o.skipEvent \in BOOLEAN /\ o.skipLF \in BOOLEAN
  BY <1>1 DEF ObserverType
<1>3. o.line \in Seq(Tokens) /\ o.data \in Seq(Tokens \cup {"NL"})
  BY <1>2, Zenon DEF Lines, Payloads
<1>4. Len(o.line) \in Nat /\ Len(o.data) \in Nat
  BY <1>3
<1> QED
  BY <1>1, <1>2, <1>3, <1>4, Zenon DEF Kept

\* A payload with a line end after other data.
LEMMA AppendBlock ==
    ASSUME NEW T, NEW d \in Seq(T), NEW p \in Seq(T), NEW e \in T
    PROVE  /\ d \o Append(p, e) \in Seq(T) /\ Len(d \o Append(p, e)) = Len(d) + Len(p) + 1
           /\ (d \o Append(p, e))[Len(d \o Append(p, e))] = e
<1> DEFINE q == Append(p, e)
<1>1. /\ q \in Seq(T) /\ Len(q) = Len(p) + 1 /\ q[Len(q)] = e /\ Len(p) \in Nat
      /\ Len(d) \in Nat
  OBVIOUS
<1> HIDE DEF q
<1>2. d \o q \in Seq(T) /\ Len(d \o q) = Len(d) + Len(q)
  BY <1>1
<1>3. (d \o q)[Len(d) + Len(q)] = q[Len(q)]
  BY <1>1
<1>4. Len(d) + Len(q) = Len(d) + Len(p) + 1
  BY <1>1
<1> QED
  BY <1>1, <1>2, <1>3, <1>4 DEF q

\* flush keeps the limits; it leaves no data.
LEMMA FlushKept ==
    ASSUME NEW o, Kept(o), ObserverAssumption
    PROVE  /\ Kept(FlushEvent(o)) /\ FlushEvent(o).data = <<>> /\ FlushEvent(o).skipEvent = FALSE
           /\ FlushEvent(o).line = o.line /\ FlushEvent(o).skipLine = o.skipLine
           /\ FlushEvent(o).event = IF o.skipEvent \/ Front(o.data) \in {<<>>, <<"[DONE]">>}
                               THEN o.event ELSE Front(o.data)
<1> DEFINE e == IF o.skipEvent \/ Front(o.data) \in {<<>>, <<"[DONE]">>}
                THEN o.event ELSE Front(o.data)
<1>1. Front(o.data) \in Payloads /\ Len(Front(o.data)) < MaxEventBytes
  <2>1. /\ o.data \in Seq(Tokens \cup {"NL"}) /\ Len(o.data) \in Nat
        /\ Len(o.data) <= MaxEventBytes /\ MaxEventBytes \in Nat /\ MaxEventBytes > 0
    BY KeptFields, Zenon
  <2>2. Front(o.data) \in Seq(Tokens \cup {"NL"}) /\ Len(Front(o.data)) < MaxEventBytes
    BY <2>1 DEF Front
  <2> QED
    BY <2>2, Zenon DEF Payloads
<1>2. e \in Payloads /\ Len(e) < MaxEventBytes
  BY <1>1, KeptFields, Zenon
<1>3. FlushEvent(o) = [o EXCEPT !.event = e, !.data = <<>>, !.skipEvent = FALSE]
  BY Zenon DEF FlushEvent, Front
<1> HIDE DEF e
<1>5. /\ o \in ObserverType /\ o.line \in Lines /\ Len(o.line) <= MaxEventBytes
      /\ o.skipLine \in BOOLEAN /\ o.skipLF \in BOOLEAN /\ MaxEventBytes \in Nat
  BY KeptFields, Zenon
<1>6. Len(<<>>) <= MaxEventBytes
  BY <1>5
<1>7. /\ Kept(FlushEvent(o)) /\ FlushEvent(o).data = <<>> /\ FlushEvent(o).skipEvent = FALSE
      /\ FlushEvent(o).line = o.line /\ FlushEvent(o).skipLine = o.skipLine
      /\ FlushEvent(o).event = e
  <2> DEFINE n == FlushEvent(o)
  <2> HIDE DEF n
  <2>1. n = [o EXCEPT !.event = e, !.data = <<>>, !.skipEvent = FALSE]
    BY <1>3 DEF n
  <2>2. n \in ObserverType
    BY <1>2, <1>5, <2>1, Nothing DEF ObserverType
  <2>3. /\ n.data = <<>> /\ n.skipEvent = FALSE /\ n.line = o.line
        /\ n.skipLine = o.skipLine /\ n.event = e
    BY <1>5, <2>1 DEF ObserverType
  <2>4. Kept(n)
    BY <1>2, <1>5, <1>6, <2>2, <2>3, Zenon DEF Kept
  <2> QED
    BY <2>3, <2>4 DEF n
<1> QED
  BY <1>7 DEF e

\* consumeData keeps the limits: data that would be too long are dropped with their event.
LEMMA ConsumeDataKept ==
    ASSUME NEW o, Kept(o), ObserverAssumption, NEW payload \in Seq(Tokens)
    PROVE  /\ Kept(ConsumeData(o, payload))
           /\ ConsumeData(o, payload).line = o.line
           /\ ConsumeData(o, payload).skipLine = o.skipLine
           /\ ConsumeData(o, payload).event = o.event
           /\ ConsumeData(o, payload).skipEvent =
                  (o.skipEvent \/ Len(o.data) + Len(payload) + 1 > MaxEventBytes)
           /\ Len(o.data) + Len(payload) + 1 <= MaxEventBytes =>
                  ConsumeData(o, payload).data = o.data \o Append(payload, "NL")
<1> DEFINE d == o.data \o Append(payload, "NL")
           c == ConsumeData(o, payload)
           over == Len(o.data) + Len(payload) + 1 > MaxEventBytes
<1>1. /\ o \in ObserverType /\ o.line \in Lines /\ Len(o.line) <= MaxEventBytes
      /\ o.event \in Payloads /\ Len(o.event) < MaxEventBytes
      /\ o.skipLine \in BOOLEAN /\ o.skipEvent \in BOOLEAN /\ o.skipLF \in BOOLEAN
      /\ MaxEventBytes \in Nat
  BY KeptFields, Zenon
<1>2. o.data \in Seq(Tokens \cup {"NL"}) /\ Len(o.data) \in Nat /\ Len(payload) \in Nat
  <2>1. Len(payload) \in Nat
    OBVIOUS
  <2> QED
    BY <2>1, KeptFields, Zenon
<1>3. /\ d \in Seq(Tokens \cup {"NL"}) /\ Len(d) = Len(o.data) + Len(payload) + 1
      /\ d[Len(d)] = "NL"
  <2>1. payload \in Seq(Tokens \cup {"NL"}) /\ "NL" \in Tokens \cup {"NL"}
    OBVIOUS
  <2> DEFINE T == Tokens \cup {"NL"}
  <2>2. o.data \in Seq(T) /\ payload \in Seq(T) /\ "NL" \in T
    BY <1>2, <2>1, Zenon
  <2> HIDE DEF T
  <2> DEFINE D(q, p, e) == q \o Append(p, e)
  <2>4. \A q, p \in Seq(T) : \A e \in T :
            /\ D(q, p, e) \in Seq(T) /\ Len(D(q, p, e)) = Len(q) + Len(p) + 1
            /\ D(q, p, e)[Len(D(q, p, e))] = e
    BY AppendBlock
  <2>3. d \in Seq(T) /\ Len(d) = Len(o.data) + Len(payload) + 1 /\ d[Len(d)] = "NL"
    <3> HIDE DEF D
    <3>1. /\ D(o.data, payload, "NL") \in Seq(T)
          /\ Len(D(o.data, payload, "NL")) = Len(o.data) + Len(payload) + 1
          /\ D(o.data, payload, "NL")[Len(D(o.data, payload, "NL"))] = "NL"
      BY <2>2, <2>4, Zenon
    <3>2. d = D(o.data, payload, "NL")
      BY Zenon DEF D
    <3> QED
      BY <3>1, <3>2, Zenon
  <2> QED
    BY <2>3 DEF T
<1>4. CASE over
  <2>1. c = [o EXCEPT !.data = <<>>, !.skipEvent = TRUE]
    BY <1>4 DEF ConsumeData
  <2> HIDE DEF c
  <2>2. c \in ObserverType
    BY <1>1, <2>1, Nothing DEF ObserverType
  <2>3. Len(<<>>) <= MaxEventBytes
    BY <1>1
  <2>4. /\ Kept(c) /\ c.line = o.line /\ c.skipLine = o.skipLine /\ c.event = o.event
        /\ c.skipEvent = TRUE
    <3>1. /\ c.line = o.line /\ c.skipLine = o.skipLine /\ c.event = o.event
          /\ c.skipEvent = TRUE /\ c.data = <<>>
      BY <1>1, <2>1 DEF ObserverType
    <3> QED
      BY <1>1, <2>2, <2>3, <3>1, Zenon DEF Kept
  <2>5. ~(Len(o.data) + Len(payload) + 1 <= MaxEventBytes)
    BY <1>1, <1>2, <1>4
  <2> QED
    BY <1>4, <2>4, <2>5, Zenon DEF c
<1>5. CASE ~over
  <2>1. c = [o EXCEPT !.data = d]
    BY <1>5 DEF ConsumeData
  <2>2. d \in Payloads /\ Len(d) <= MaxEventBytes
    <3>1. Len(d) <= MaxEventBytes
      <4> HIDE DEF d, c
      <4> QED
        BY <1>1, <1>2, <1>3, <1>5
    <3> QED
      BY <1>3, <3>1, Zenon DEF Payloads
  <2> HIDE DEF c, d
  <2>3. c \in ObserverType
    BY <1>1, <2>1, <2>2 DEF ObserverType
  <2>4. /\ Kept(c) /\ c.line = o.line /\ c.skipLine = o.skipLine /\ c.event = o.event
        /\ c.skipEvent = o.skipEvent /\ c.data = d
    <3>1. /\ c.line = o.line /\ c.skipLine = o.skipLine /\ c.event = o.event
          /\ c.skipEvent = o.skipEvent /\ c.data = d
      BY <1>1, <2>1 DEF ObserverType
    <3>2. d[Len(d)] = "NL"
      BY <1>3 DEF d
    <3> QED
      BY <1>1, <2>2, <2>3, <3>1, <3>2, Zenon DEF Kept
  <2>5. o.skipEvent = (o.skipEvent \/ over)
    BY <1>1, <1>5, Zenon
  <2> QED
    BY <2>4, <2>5, Zenon DEF c, d
<1> QED
  BY <1>4, <1>5, Zenon

\* The data of a line: what follows its field name and one space.
Value(line) ==
    IF Tail(line) # <<>> /\ Tail(line)[1] = "sp" THEN Tail(Tail(line)) ELSE Tail(line)

\* The value of a line that is not empty.
LEMMA ValueType ==
    ASSUME NEW line \in Seq(Tokens), line # <<>>
    PROVE  Value(line) \in Seq(Tokens)
<1>1. Tail(line) \in Seq(Tokens)
  OBVIOUS
<1>2. Tail(line) # <<>> => Tail(Tail(line)) \in Seq(Tokens)
  BY <1>1
<1> QED
  BY <1>1, <1>2 DEF Value

\* consumeLine keeps the limits.
LEMMA ConsumeLineKept ==
    ASSUME NEW o, Kept(o), ObserverAssumption, NEW line \in Seq(Tokens)
    PROVE  /\ Kept(ConsumeLine(o, line))
           /\ ConsumeLine(o, line).line = o.line
           /\ ConsumeLine(o, line).skipLine = o.skipLine
           /\ line # <<>> => ConsumeLine(o, line).event = o.event
<1>1. CASE line = <<>>
  <2>1. ConsumeLine(o, line) = FlushEvent(o)
    BY <1>1, Zenon DEF ConsumeLine
  <2> QED
    BY <1>1, <2>1, FlushKept, Zenon
<1>2. CASE line # <<>> /\ (line[1] # "data:" \/ o.skipEvent)
  <2>1. ConsumeLine(o, line) = o
    BY <1>2, Zenon DEF ConsumeLine
  <2> QED
    BY <2>1, Zenon
<1>3. CASE line # <<>> /\ ~(line[1] # "data:" \/ o.skipEvent)
  <2>1. ConsumeLine(o, line) = ConsumeData(o, Value(line))
    BY <1>3, Zenon DEF ConsumeLine, Value
  <2>2. Value(line) \in Seq(Tokens)
    BY <1>3, ValueType, Zenon
  <2> QED
    BY <2>1, <2>2, ConsumeDataKept, Zenon
<1> QED
  BY <1>1, <1>2, <1>3, Zenon

\* write keeps a part of a line, or drops a line that would be too long.
LEMMA TakeChunkKept ==
    ASSUME NEW o, Kept(o), ObserverAssumption, NEW chunk \in Seq(Tokens)
    PROVE  LET t == TakeChunk(o, chunk)
               over == ~o.skipLine /\ Len(o.line) + Len(chunk) > MaxEventBytes
           IN  /\ Kept(t) /\ t.data = o.data /\ t.event = o.event
               /\ t.skipLine = (o.skipLine \/ over) /\ t.skipEvent = (o.skipEvent \/ over)
               /\ t.line = IF o.skipLine THEN o.line ELSE IF over THEN <<>> ELSE o.line \o chunk
               /\ t.skipLF = o.skipLF
<1> DEFINE t == TakeChunk(o, chunk)
           over == ~o.skipLine /\ Len(o.line) + Len(chunk) > MaxEventBytes
<1>1. /\ o \in ObserverType /\ o.line \in Seq(Tokens) /\ o.data \in Payloads
      /\ Len(o.data) <= MaxEventBytes /\ (o.data # <<>> => o.data[Len(o.data)] = "NL")
      /\ o.event \in Payloads /\ Len(o.event) < MaxEventBytes
      /\ o.skipLine \in BOOLEAN /\ o.skipEvent \in BOOLEAN /\ o.skipLF \in BOOLEAN
      /\ MaxEventBytes \in Nat /\ Len(o.line) \in Nat
  BY KeptFields, Zenon
<1>2. CASE o.skipLine
  <2>1. t = o
    BY <1>2, Zenon DEF TakeChunk
  <2> QED
    BY <1>1, <1>2, <2>1, Zenon
<1>3. CASE over
  <2>1. t = [o EXCEPT !.line = <<>>, !.skipLine = TRUE, !.skipEvent = TRUE]
    BY <1>3, Zenon DEF TakeChunk
  <2> HIDE DEF t
  <2>2. t \in ObserverType
    BY <1>1, <2>1, Nothing DEF ObserverType
  <2>3. Len(<<>>) <= MaxEventBytes
    BY <1>1
  <2>4. /\ Kept(t) /\ t.data = o.data /\ t.event = o.event /\ t.skipLine = TRUE
        /\ t.skipEvent = TRUE /\ t.line = <<>> /\ t.skipLF = o.skipLF
    <3>1. /\ t.data = o.data /\ t.event = o.event /\ t.skipLine = TRUE
          /\ t.skipEvent = TRUE /\ t.line = <<>> /\ t.skipLF = o.skipLF
      BY <1>1, <2>1 DEF ObserverType
    <3> QED
      BY <1>1, <2>2, <2>3, <3>1, Zenon DEF Kept
  <2> QED
    BY <1>3, <2>4, Zenon DEF t
<1>4. CASE ~o.skipLine /\ ~over
  <2> DEFINE l == o.line \o chunk
  <2>1. t = [o EXCEPT !.line = l]
    BY <1>4, Zenon DEF TakeChunk
  <2>2. l \in Seq(Tokens) /\ Len(l) <= MaxEventBytes
    BY <1>1, <1>4
  <2>3. l \in Lines
    BY <2>2, Zenon DEF Lines
  <2> HIDE DEF t, l
  <2>4. t \in ObserverType
    BY <1>1, <2>1, <2>3 DEF ObserverType
  <2>5. /\ Kept(t) /\ t.data = o.data /\ t.event = o.event /\ t.skipLine = o.skipLine
        /\ t.skipEvent = o.skipEvent /\ t.line = l /\ t.skipLF = o.skipLF
    <3>1. /\ t.data = o.data /\ t.event = o.event /\ t.skipLine = o.skipLine
          /\ t.skipEvent = o.skipEvent /\ t.line = l /\ t.skipLF = o.skipLF
      BY <1>1, <2>1 DEF ObserverType
    <3> QED
      BY <1>1, <2>2, <2>4, <3>1, Zenon DEF Kept
  <2>6. o.skipLine = (o.skipLine \/ over) /\ o.skipEvent = (o.skipEvent \/ over)
    BY <1>1, <1>4, Zenon
  <2> QED
    BY <1>4, <2>5, <2>6, Zenon DEF t, l
<1> QED
  BY <1>2, <1>3, <1>4, Zenon

\* A line end leaves what the line c under way leaves, and no line.
LEMMA EndLineIs ==
    ASSUME NEW o, Kept(o), ObserverAssumption, NEW e, NEW c,
           c = IF o.skipLine THEN o ELSE ConsumeLine(o, o.line)
    PROVE  /\ Kept(c) /\ Kept(EndLine(o, e))
           /\ EndLine(o, e).line = <<>> /\ EndLine(o, e).skipLine = FALSE
           /\ EndLine(o, e).data = c.data /\ EndLine(o, e).event = c.event
           /\ EndLine(o, e).skipEvent = c.skipEvent
<1> DEFINE n == EndLine(o, e)
<1>1. o.line \in Seq(Tokens) /\ MaxEventBytes \in Nat /\ MaxEventBytes > 0
  BY KeptFields, Zenon
<1>2. Kept(c)
  BY <1>1, ConsumeLineKept, Zenon
<1>3. n = [c EXCEPT !.line = <<>>, !.skipLine = FALSE, !.skipLF = (e = "CR")]
  BY Zenon DEF EndLine
<1> HIDE DEF n
<1>4. (e = "CR") \in BOOLEAN
  OBVIOUS
<1>5. /\ c \in ObserverType /\ c.data \in Payloads
      /\ Len(c.data) <= MaxEventBytes /\ (c.data # <<>> => c.data[Len(c.data)] = "NL")
      /\ c.event \in Payloads /\ Len(c.event) < MaxEventBytes /\ c.skipEvent \in BOOLEAN
  BY <1>2, KeptFields, Zenon
<1>6. n \in ObserverType
  BY <1>3, <1>4, <1>5, Nothing DEF ObserverType
<1>7. Len(<<>>) <= MaxEventBytes
  BY <1>1
<1>8. /\ n.line = <<>> /\ n.skipLine = FALSE
      /\ n.data = c.data /\ n.event = c.event /\ n.skipEvent = c.skipEvent
  BY <1>3, <1>5 DEF ObserverType
<1>9. Kept(n)
  BY <1>5, <1>6, <1>7, <1>8, Zenon DEF Kept
<1> QED
  BY <1>2, <1>8, <1>9, Zenon DEF n

\* A line end keeps the limits and remembers a CR.
LEMMA EndLineKept ==
    ASSUME NEW o, Kept(o), ObserverAssumption, NEW e
    PROVE  Kept(EndLine(o, e)) /\ EndLine(o, e).skipLF = (e = "CR")
<1> DEFINE c == IF o.skipLine THEN o ELSE ConsumeLine(o, o.line)
<1>1. c = IF o.skipLine THEN o ELSE ConsumeLine(o, o.line)
  OBVIOUS
<1>2. EndLine(o, e) = [c EXCEPT !.line = <<>>, !.skipLine = FALSE, !.skipLF = (e = "CR")]
  BY Zenon DEF EndLine
<1> HIDE DEF c
<1>3. Kept(c) /\ Kept(EndLine(o, e))
  BY <1>1, EndLineIs, Zenon
<1>4. c \in ObserverType
  BY <1>3, KeptFields, Zenon
<1>5. EndLine(o, e).skipLF = (e = "CR")
  BY <1>2, <1>4 DEF ObserverType
<1> QED
  BY <1>3, <1>5

\* finish keeps the limits and flushes what a last line leaves.
LEMMA FinishKept ==
    ASSUME NEW o, Kept(o), ObserverAssumption
    PROVE  LET l == IF ~o.skipLine /\ o.line # <<>> THEN ConsumeLine(o, o.line) ELSE o
               n == FinishEvent(o)
           IN  /\ Kept(l) /\ Kept(n)
               /\ n.event = IF l.skipEvent \/ Front(l.data) \in {<<>>, <<"[DONE]">>}
                            THEN l.event ELSE Front(l.data)
<1> DEFINE l == IF ~o.skipLine /\ o.line # <<>> THEN ConsumeLine(o, o.line) ELSE o
           m == [l EXCEPT !.line = <<>>]
           n == FinishEvent(o)
<1>1. o.line \in Seq(Tokens) /\ MaxEventBytes \in Nat /\ MaxEventBytes > 0
  BY KeptFields, Zenon
<1>2. Kept(l)
  BY <1>1, ConsumeLineKept, Zenon
<1>3. n = [FlushEvent(m) EXCEPT !.data = <<>>]
  BY Zenon DEF FinishEvent
<1> HIDE DEF l, n
<1>4. /\ l \in ObserverType /\ Len(l.data) <= MaxEventBytes
      /\ (l.data # <<>> => l.data[Len(l.data)] = "NL") /\ Len(l.event) < MaxEventBytes
  BY <1>2, KeptFields, Zenon
<1>5. /\ m \in ObserverType /\ m.line = <<>> /\ m.data = l.data /\ m.event = l.event
      /\ m.skipEvent = l.skipEvent
  BY <1>4, Nothing DEF ObserverType
<1> HIDE DEF m
<1>6. Kept(m)
  <2>1. Len(<<>>) <= MaxEventBytes
    BY <1>1
  <2> QED
    BY <1>4, <1>5, <2>1, Zenon DEF Kept
<1> DEFINE f == FlushEvent(m)
<1>7. /\ Kept(f) /\ f \in ObserverType /\ f.data = <<>>
      /\ f.event = IF l.skipEvent \/ Front(l.data) \in {<<>>, <<"[DONE]">>}
                   THEN l.event ELSE Front(l.data)
  BY <1>5, <1>6, FlushKept, KeptFields, Zenon
<1> HIDE DEF f
<1>8. n = f
  <2>1. n = [f EXCEPT !.data = f.data]
    BY <1>3, <1>7 DEF f
  <2> QED
    BY <1>7, <2>1 DEF ObserverType
<1> QED
  BY <1>2, <1>7, <1>8, Zenon DEF l, n

\* The observer is within its limits, and a write is under way only while the body is open.
KeptInv ==
    /\ Kept(observer)
    /\ rest \in Seq(Tokens) /\ input \in Seq(Tokens)
    /\ state \in {"open", "ended", "released"}
    /\ state # "open" => rest = <<>>
    /\ state = "released" =>
           observer.line = <<>> /\ observer.data = <<>> /\ observer.event = <<>>

\* Forgetting a CR changes nothing else.
LEMMA ClearSkip ==
    ASSUME NEW o, Kept(o), ObserverAssumption
    PROVE  LET c == [o EXCEPT !.skipLF = FALSE]
           IN  /\ Kept(c) /\ c.line = o.line /\ c.data = o.data /\ c.event = o.event
               /\ c.skipLine = o.skipLine /\ c.skipEvent = o.skipEvent /\ c.skipLF = FALSE
<1> DEFINE c == [o EXCEPT !.skipLF = FALSE]
<1>1. o \in ObserverType
  BY KeptFields, Zenon
<1>2. /\ c \in ObserverType /\ c.line = o.line /\ c.data = o.data /\ c.event = o.event
      /\ c.skipLine = o.skipLine /\ c.skipEvent = o.skipEvent /\ c.skipLF = FALSE
  BY <1>1 DEF ObserverType
<1> HIDE DEF c
<1>3. Kept(c)
  BY <1>2, Zenon DEF Kept
<1> QED
  BY <1>2, <1>3, Zenon DEF c

\* A new observer is within its limits.
LEMMA InitKept ==
    ASSUME ObserverAssumption, ObserverInit
    PROVE  KeptInv /\ input = <<>> /\ state = "open"
<1>1. MaxEventBytes \in Nat /\ MaxEventBytes > 0
  BY DEF ObserverAssumption
<1>2. observer \in ObserverType
  BY Nothing DEF ObserverInit, ObserverType
<1>3. observer.line = <<>> /\ observer.data = <<>> /\ observer.event = <<>>
  BY DEF ObserverInit
<1>4. Kept(observer)
  BY <1>1, <1>2, <1>3, Nothing DEF Kept
<1>5. rest \in Seq(Tokens) /\ input \in Seq(Tokens) /\ rest = <<>> /\ input = <<>> /\ state = "open"
  BY DEF ObserverInit
<1> QED
  BY <1>4, <1>5 DEF KeptInv

\* Every step keeps the limits.
LEMMA StepKept ==
    ASSUME ObserverAssumption, KeptInv, [ObserverNext]_observerVars
    PROVE  KeptInv'
<1>1. /\ Kept(observer) /\ rest \in Seq(Tokens) /\ input \in Seq(Tokens)
      /\ state \in {"open", "ended", "released"} /\ (state # "open" => rest = <<>>)
  BY DEF KeptInv
<1>2. ASSUME NEW p \in Reads, Read(p)
      PROVE  KeptInv'
  <2>1. p \in Seq(Tokens)
    <3>1. PICK n \in 1..MaxRead : p \in [1..n -> Tokens]
      BY Zenon DEF Reads
    <3>2. n \in Nat
      BY DEF ObserverAssumption
    <3> QED
      BY <3>1, <3>2
  <2>2. /\ rest' = IF state = "open" THEN p ELSE <<>>
        /\ observer' = observer /\ state' = state /\ input' = input
    BY <1>2, Zenon DEF Read
  <2>3. rest' \in Seq(Tokens) /\ (state' # "open" => rest' = <<>>)
    BY <2>1, <2>2
  <2> QED
    BY <2>2, <2>3, Zenon DEF KeptInv, Kept
<1>3. CASE SwallowLF
  <2>1. /\ observer' = [observer EXCEPT !.skipLF = FALSE] /\ rest' = Tail(rest)
        /\ input' = Append(input, "LF") /\ state' = state /\ rest # <<>>
    BY <1>3, Zenon DEF SwallowLF
  <2>2. rest' \in Seq(Tokens) /\ input' \in Seq(Tokens)
    BY <1>1, <2>1 DEF Tokens
  <2>3. Kept(observer')
    BY <1>1, <2>1, ClearSkip, Zenon
  <2> QED
    BY <1>1, <2>1, <2>2, <2>3 DEF KeptInv, Kept
<1>4. CASE KeepChunk
  <2>1. /\ observer' = TakeChunk([observer EXCEPT !.skipLF = FALSE], rest)
        /\ rest' = <<>> /\ input' = input \o rest /\ state' = state /\ rest # <<>>
    BY <1>4, Zenon DEF KeepChunk
  <2>2. rest' \in Seq(Tokens) /\ input' \in Seq(Tokens)
    BY <1>1, <2>1
  <2>3. Kept(observer')
    BY <1>1, <2>1, ClearSkip, TakeChunkKept, Zenon
  <2> QED
    BY <1>1, <2>1, <2>2, <2>3 DEF KeptInv, Kept
<1>5. CASE CompleteLine
  <2>1. PICK n \in 1..Len(rest) :
            /\ observer' = EndLine(TakeChunk([observer EXCEPT !.skipLF = FALSE],
                                             SubSeq(rest, 1, n - 1)), rest[n])
            /\ rest' = SubSeq(rest, n + 1, Len(rest))
            /\ input' = input \o SubSeq(rest, 1, n)
    BY <1>5, Zenon DEF CompleteLine
  <2>2. state' = state /\ rest # <<>>
    BY <1>5, Zenon DEF CompleteLine
  <2>3. /\ SubSeq(rest, 1, n - 1) \in Seq(Tokens) /\ SubSeq(rest, 1, n) \in Seq(Tokens)
        /\ SubSeq(rest, n + 1, Len(rest)) \in Seq(Tokens)
    BY <1>1
  <2>4. rest' \in Seq(Tokens) /\ input' \in Seq(Tokens)
    <3>1. input \o SubSeq(rest, 1, n) \in Seq(Tokens)
      BY <1>1, <2>3
    <3> QED
      BY <2>1, <2>3, <3>1, Zenon
  <2>5. Kept(observer')
    BY <1>1, <2>1, <2>3, ClearSkip, TakeChunkKept, EndLineKept, Zenon
  <2> QED
    BY <1>1, <2>2, <2>4, <2>5 DEF KeptInv, Kept
<1>6. CASE ReadEnds
  <2>1. /\ observer' = FinishEvent(observer) /\ state' = "ended" /\ rest' = rest /\ input' = input
        /\ rest = <<>>
    BY <1>6, Zenon DEF ReadEnds
  <2>2. Kept(observer')
    BY <1>1, <2>1, FinishKept, Zenon
  <2> QED
    BY <1>1, <2>1, <2>2 DEF KeptInv, Kept
<1>7. CASE ReleaseEvent
  <2>1. /\ observer' = [observer EXCEPT !.line = <<>>, !.data = <<>>, !.event = <<>>]
        /\ state' = "released" /\ input' = <<>> /\ rest' = rest /\ rest = <<>>
    BY <1>7, Zenon DEF ReleaseEvent
  <2>2. /\ observer \in ObserverType /\ MaxEventBytes \in Nat /\ MaxEventBytes > 0
    BY <1>1, KeptFields, Zenon
  <2>3. /\ observer' \in ObserverType /\ observer'.line = <<>> /\ observer'.data = <<>>
        /\ observer'.event = <<>>
    BY <2>1, <2>2, Nothing DEF ObserverType
  <2>4. Kept(observer')
    <3>1. Len(<<>>) <= MaxEventBytes /\ Len(<<>>) < MaxEventBytes
      BY <2>2
    <3> QED
      BY <2>3, <3>1, Zenon DEF Kept
  <2>5. input' \in Seq(Tokens)
    BY <2>1
  <2> QED
    BY <1>1, <2>1, <2>3, <2>4, <2>5 DEF KeptInv, Kept
<1>8. CASE UNCHANGED observerVars
  BY <1>8 DEF KeptInv, Kept, observerVars
<1> QED
  BY <1>2, <1>3, <1>4, <1>5, <1>6, <1>7, <1>8, Zenon DEF ObserverNext

\* Whatever the upstream sends, and after a release, no more is kept of a stream than the
\* limits say, for responses and reads of any length. (maxEventBytes in eventObserver.write
\* and consumeData, and release)
THEOREM ObserverBounded == ObserverSpec => []Bounded
<1>1. ObserverInit => KeptInv
  BY ObserverAssumption, InitKept
<1>2. KeptInv /\ [ObserverNext]_observerVars => KeptInv'
  BY ObserverAssumption, StepKept
<1>3. KeptInv => Bounded
  BY Zenon DEF KeptInv, Kept, Bounded
<1> QED
  BY <1>1, <1>2, <1>3, PTL DEF ObserverSpec
-----------------------------------------------------------------------------
(* The line and the data under way. *)

\* The last line end and the last blank line of b, and their order.
LEMMA LastPlaces ==
    ASSUME NEW b \in Seq(Tokens)
    PROVE  /\ LastBreak(b) \in Nat /\ LastBreak(b) <= Len(b)
           /\ LastBreak(b) = 0 \/ LastBreak(b) \in Breaks(b)
           /\ \A j \in Breaks(b) : j <= LastBreak(b)
           /\ LastBlank(b) \in Nat /\ LastBlank(b) <= LastBreak(b)
           /\ LastBlank(b) = 0 \/ LastBlank(b) \in BlankLines(b)
           /\ \A j \in BlankLines(b) : j <= LastBlank(b)
<1> DEFINE f == LastBefore(Breaks(b), Len(b) + 1)
           z == LastBefore(BlankLines(b), Len(b) + 1)
<1>1. /\ Len(b) \in Nat /\ Len(b) + 1 \in Nat /\ Len(b) + 1 > 0
      /\ \A i \in Nat : i <= Len(b) => i < Len(b) + 1
      /\ \A i \in Nat : i < Len(b) + 1 => i <= Len(b)
  OBVIOUS
<1>2. /\ f = 0 \/ f \in Breaks(b)
      /\ f \in Nat /\ f < Len(b) + 1 /\ \A j \in Breaks(b) : j < Len(b) + 1 => j <= f
  BY <1>1, Places, LastBeforeIs, Zenon
<1>3. /\ z = 0 \/ z \in BlankLines(b)
      /\ z \in Nat /\ z < Len(b) + 1 /\ \A j \in BlankLines(b) : j < Len(b) + 1 => j <= z
  BY <1>1, Places, LastBeforeIs, Zenon
<1> HIDE DEF f, z
<1>4. f <= Len(b) /\ \A j \in Breaks(b) : j <= f
  BY <1>1, <1>2, Places, Zenon
<1>5. \A j \in BlankLines(b) : j <= z
  BY <1>1, <1>3, Places, Zenon
<1>6. z <= f
  <2>1. CASE z = 0
    BY <1>2, <2>1
  <2>2. CASE z \in BlankLines(b)
    BY <1>4, <2>2, Places, Zenon
  <2> QED
    BY <1>3, <2>1, <2>2
<1> QED
  BY <1>2, <1>3, <1>4, <1>5, <1>6, Zenon DEF f, z, LastBreak, LastBlank

\* A line end that no other follows is the last one.
LEMMA LastBreakIs ==
    ASSUME NEW b \in Seq(Tokens), NEW m, m = 0 \/ m \in Breaks(b),
           \A j \in Breaks(b) : j <= m
    PROVE  LastBreak(b) = m
<1>1. /\ LastBreak(b) \in Nat /\ (LastBreak(b) = 0 \/ LastBreak(b) \in Breaks(b))
      /\ \A j \in Breaks(b) : j <= LastBreak(b)
  BY LastPlaces, Zenon
<1>2. m \in Nat /\ \A j \in Breaks(b) : j \in Nat
  BY Places
<1> QED
  BY <1>1, <1>2

\* A blank line that no other follows is the last one.
LEMMA LastBlankIs ==
    ASSUME NEW b \in Seq(Tokens), NEW m, m = 0 \/ m \in BlankLines(b),
           \A j \in BlankLines(b) : j <= m
    PROVE  LastBlank(b) = m
<1>1. /\ LastBlank(b) \in Nat /\ (LastBlank(b) = 0 \/ LastBlank(b) \in BlankLines(b))
      /\ \A j \in BlankLines(b) : j <= LastBlank(b)
  BY LastPlaces, Zenon
<1>2. m \in Nat /\ \A j \in BlankLines(b) : j \in Nat
  BY Places
<1> QED
  BY <1>1, <1>2

\* A line of a whose end comes after the last blank line is as long in b.
LEMMA OverlongPrefix ==
    ASSUME NEW a \in Seq(Tokens), NEW b \in Seq(Tokens), Prefix(a, b), NEW z
    PROVE  (\E j \in LineEnds(a) : z < j /\ j - LineStart(a, j) > MaxEventBytes)
           <=> (\E j \in LineEnds(b) : /\ j \in LineEnds(a)
                                       /\ z < j /\ j - LineStart(b, j) > MaxEventBytes)
<1>1. \A j \in LineEnds(a) : j \in LineEnds(b) /\ LineStart(a, j) = LineStart(b, j)
  <2> TAKE j \in LineEnds(a)
  <2>0. j \in Nat /\ j > 0 /\ j <= Len(a) /\ Len(a) \in Nat
    BY Places, Zenon
  <2>1. j \in 1..Len(a) /\ j \in 1..(Len(a) + 1)
    BY <2>0
  <2> QED
    BY <2>1, PrefixLines, Zenon
<1> QED
  BY <1>1, Zenon

\* Bytes that end no line leave everything but the line as it is.
LEMMA NoNewLine ==
    ASSUME NEW a \in Seq(Tokens), NEW b \in Seq(Tokens), Prefix(a, b),
           \A i \in Breaks(b) : i <= Len(a)
    PROVE  /\ LastBreak(b) = LastBreak(a) /\ LastBlank(b) = LastBlank(a)
           /\ Overlong(b) <=> Overlong(a)
           /\ Data(b, LastBlank(b), LastBreak(b)) = Data(a, LastBlank(a), LastBreak(a))
           /\ LastEvent(b) = LastEvent(a)
<1>0. Len(a) \in Nat /\ Len(b) \in Nat /\ Len(a) <= Len(b)
  BY DEF Prefix
<1>1. \A i \in Breaks(a) : i \in 1..Len(a)
  BY <1>0, Places
<1>2. \A i \in Breaks(b) : i \in 1..Len(a)
  BY <1>0, Places
<1>3. \A i : i \in Breaks(a) <=> i \in Breaks(b)
  BY <1>1, <1>2, PrefixLines, Zenon
<1>4. \A i : i \in LineEnds(a) <=> i \in LineEnds(b)
  BY <1>1, <1>2, Places, PrefixLines, Zenon
<1>5. \A i : i \in BlankLines(a) <=> i \in BlankLines(b)
  BY <1>1, <1>2, Places, PrefixLines, Zenon
<1>6. LastBreak(b) = LastBreak(a)
  BY <1>3, LastPlaces, LastBreakIs, Zenon
<1>7. LastBlank(b) = LastBlank(a)
  BY <1>5, LastPlaces, LastBlankIs, Zenon
<1>8. Overlong(b) <=> Overlong(a)
  BY <1>4, <1>7, OverlongPrefix, Zenon DEF Overlong
<1>9. Data(b, LastBlank(b), LastBreak(b)) = Data(a, LastBlank(a), LastBreak(a))
  <2>1. LastBlank(a) \in Nat /\ LastBreak(a) \in Nat /\ LastBreak(a) <= Len(a)
    BY LastPlaces, Zenon
  <2>2. Data(a, LastBlank(a), LastBreak(a)) = Data(b, LastBlank(a), LastBreak(a))
    BY <2>1, DataPrefix, Zenon
  <2> QED
    BY <1>6, <1>7, <2>2
<1>10. LastEvent(b) = LastEvent(a)
  <2>1. BlankLines(a) = BlankLines(b)
    BY <1>5, Zenon
  <2> QED
    BY <2>1, LastEventSame, Zenon
<1> QED
  BY <1>6, <1>7, <1>8, <1>9, <1>10, Zenon

\* The bytes of a and c, one after the other.
LEMMA ConcatPrefix ==
    ASSUME NEW a \in Seq(Tokens), NEW c \in Seq(Tokens)
    PROVE  /\ a \o c \in Seq(Tokens) /\ Len(a \o c) = Len(a) + Len(c) /\ Prefix(a, a \o c)
           /\ \A i \in 1..Len(c) : (a \o c)[Len(a) + i] = c[i]
<1>1. Len(a) \in Nat /\ Len(c) \in Nat
  OBVIOUS
<1>2. a \o c \in Seq(Tokens) /\ Len(a \o c) = Len(a) + Len(c)
  OBVIOUS
<1>3. \A i \in 1..Len(a) : (a \o c)[i] = a[i]
  OBVIOUS
<1>4. \A i \in 1..Len(c) : (a \o c)[Len(a) + i] = c[i]
  BY <1>1
<1>5. Len(a) <= Len(a \o c)
  BY <1>1, <1>2
<1> QED
  BY <1>2, <1>3, <1>4, <1>5, Zenon DEF Prefix

\* The last line grows by what is appended to it.
LEMMA SuffixConcat ==
    ASSUME NEW a \in Seq(Tokens), NEW c \in Seq(Tokens), NEW f \in Nat, f <= Len(a)
    PROVE  SubSeq(a, f + 1, Len(a)) \o c = SubSeq(a \o c, f + 1, Len(a) + Len(c))
<1> DEFINE s == SubSeq(a, f + 1, Len(a))
           w == a \o c
           r == SubSeq(w, f + 1, Len(a) + Len(c))
<1>1. Len(a) \in Nat /\ Len(c) \in Nat
  OBVIOUS
<1>2. /\ s \in Seq(Tokens) /\ Len(s) = Len(a) - f
      /\ \A i \in 1..(Len(a) - f) : s[i] = a[f + i]
  BY <1>1
<1>3. /\ w \in Seq(Tokens) /\ Len(w) = Len(a) + Len(c)
      /\ \A i \in 1..Len(a) : w[i] = a[i]
      /\ \A i \in 1..Len(c) : w[Len(a) + i] = c[i]
  BY ConcatPrefix DEF Prefix
<1> HIDE DEF s, w
<1>4. /\ r \in Seq(Tokens) /\ Len(r) = Len(a) + Len(c) - f
      /\ \A i \in 1..(Len(a) + Len(c) - f) : r[i] = w[f + i]
  BY <1>1, <1>3
<1>5. /\ s \o c \in Seq(Tokens) /\ Len(s \o c) = Len(a) + Len(c) - f
      /\ \A i \in 1..(Len(a) - f) : (s \o c)[i] = s[i]
      /\ \A i \in 1..Len(c) : (s \o c)[Len(a) - f + i] = c[i]
  <2>1. s \o c \in Seq(Tokens) /\ Len(s \o c) = Len(a) + Len(c) - f
    <3>1. s \o c \in Seq(Tokens) /\ Len(s \o c) = Len(s) + Len(c)
      BY <1>2, ConcatPrefix, Zenon
    <3> QED
      BY <1>1, <1>2, <3>1
  <2>2. \A i \in 1..(Len(a) - f) : (s \o c)[i] = s[i]
    BY <1>1, <1>2
  <2>3. \A i \in 1..Len(c) : (s \o c)[Len(a) - f + i] = c[i]
    BY <1>1, <1>2
  <2> QED
    BY <2>1, <2>2, <2>3
<1> HIDE DEF r
<1>6. \A i \in 1..Len(s \o c) : (s \o c)[i] = r[i]
  <2> DEFINE v == s \o c
  <2> HIDE DEF v
  <2>0. /\ Len(v) = Len(a) + Len(c) - f
        /\ \A i \in 1..(Len(a) - f) : v[i] = s[i]
        /\ \A i \in 1..Len(c) : v[Len(a) - f + i] = c[i]
    BY <1>5 DEF v
  <2>3. ASSUME NEW i \in 1..Len(v) PROVE v[i] = r[i]
    <3>0. r[i] = w[f + i]
      BY <1>4, <2>0
    <3>1. CASE i <= Len(a) - f
      <4>1. i \in 1..(Len(a) - f) /\ f + i \in 1..Len(a)
        BY <1>1, <2>0, <3>1
      <4> QED
        BY <1>2, <1>3, <2>0, <3>0, <4>1
    <3>2. CASE ~(i <= Len(a) - f)
      <4> DEFINE k == i - (Len(a) - f)
      <4>1. k \in 1..Len(c) /\ Len(a) - f + k = i /\ Len(a) + k = f + i
        BY <1>1, <2>0, <3>2
      <4> HIDE DEF k
      <4> QED
        BY <1>3, <2>0, <3>0, <4>1
    <3> QED
      BY <3>1, <3>2
  <2> QED
    BY <2>3 DEF v
<1>7. s \o c = r
  BY <1>4, <1>5, <1>6, SeqEqual
<1> QED
  BY <1>7 DEF s, r, w

\* A chunk without a line end is added to the line, or makes it too long.
LEMMA ChunkLeaves ==
    ASSUME ObserverAssumption, NEW o, Kept(o), NEW a \in Seq(Tokens), Leaves(o, a),
           NEW c \in Seq(Tokens), \A i \in 1..Len(c) : c[i] \notin LineBreaks
    PROVE  Leaves(TakeChunk(o, c), a \o c)
<1> DEFINE b == a \o c
           f == LastBreak(a)
           t == TakeChunk(o, c)
           over == ~o.skipLine /\ Len(o.line) + Len(c) > MaxEventBytes
<1>1. /\ b \in Seq(Tokens) /\ Len(b) = Len(a) + Len(c) /\ Prefix(a, b)
      /\ \A i \in 1..Len(c) : b[Len(a) + i] = c[i]
  BY ConcatPrefix, Zenon
<1>2. Len(a) \in Nat /\ Len(c) \in Nat /\ MaxEventBytes \in Nat
  BY DEF ObserverAssumption
<1>3. f \in Nat /\ f <= Len(a)
  BY LastPlaces, Zenon
<1>4. /\ t.data = o.data /\ t.event = o.event
      /\ t.skipLine = (o.skipLine \/ over) /\ t.skipEvent = (o.skipEvent \/ over)
      /\ t.line = IF o.skipLine THEN o.line ELSE IF over THEN <<>> ELSE o.line \o c
  BY TakeChunkKept, Zenon
<1>5. /\ o.skipLine <=> Len(a) - f > MaxEventBytes
      /\ o.line = IF o.skipLine THEN <<>> ELSE SubSeq(a, f + 1, Len(a))
      /\ o.skipEvent <=> \/ Overlong(a) \/ Len(a) - f > MaxEventBytes
                         \/ Len(Data(a, LastBlank(a), f)) > MaxEventBytes
      /\ (~o.skipEvent => o.data = Data(a, LastBlank(a), f)) /\ o.event = LastEvent(a)
  BY Zenon DEF Leaves
<1> HIDE DEF t, b, f
<1>6. \A i \in Breaks(b) : i <= Len(a)
  <2> SUFFICES ASSUME NEW i \in Breaks(b), ~(i <= Len(a)) PROVE FALSE
    OBVIOUS
  <2>1. i \in Nat /\ i <= Len(b) /\ b[i] \in LineBreaks
    BY <1>1, Places DEF Breaks
  <2>2. i - Len(a) \in 1..Len(c) /\ Len(a) + (i - Len(a)) = i
    BY <1>1, <1>2, <2>1
  <2>3. b[i] = c[i - Len(a)]
    BY <1>1, <2>2
  <2> QED
    BY <2>1, <2>2, <2>3
<1>7. /\ LastBreak(b) = f /\ LastBlank(b) = LastBlank(a) /\ (Overlong(b) <=> Overlong(a))
      /\ Data(b, LastBlank(a), f) = Data(a, LastBlank(a), f) /\ LastEvent(b) = LastEvent(a)
  BY <1>1, <1>6, NoNewLine, Zenon DEF f
<1>8. ~o.skipLine => Len(o.line) = Len(a) - f
  BY <1>2, <1>3, <1>5
<1>9. over => Len(b) - f > MaxEventBytes
  BY <1>1, <1>2, <1>3, <1>8
<1>10. Len(b) - f > MaxEventBytes => o.skipLine \/ over
  BY <1>1, <1>2, <1>3, <1>8
<1>11. Len(a) - f > MaxEventBytes => Len(b) - f > MaxEventBytes
  BY <1>1, <1>2, <1>3
<1>12. t.skipLine <=> Len(b) - f > MaxEventBytes
  BY <1>4, <1>5, <1>9, <1>10, <1>11, Zenon
<1>13. t.line = IF t.skipLine THEN <<>> ELSE SubSeq(b, f + 1, Len(b))
  <2>1. ASSUME ~o.skipLine
        PROVE  o.line \o c = SubSeq(b, f + 1, Len(b))
    <3>1. o.line = SubSeq(a, f + 1, Len(a))
      BY <1>5, <2>1
    <3>2. SubSeq(a, f + 1, Len(a)) \o c = SubSeq(a \o c, f + 1, Len(a) + Len(c))
      BY <1>3, SuffixConcat, Zenon
    <3> QED
      BY <1>1, <3>1, <3>2 DEF b
  <2>2. o.skipLine \in BOOLEAN
    BY KeptFields, Zenon
  <2> QED
    BY <1>4, <1>5, <2>1, <2>2, Zenon
<1>14. t.skipEvent <=> \/ Overlong(b) \/ Len(b) - f > MaxEventBytes
                       \/ Len(Data(b, LastBlank(b), f)) > MaxEventBytes
  BY <1>4, <1>5, <1>7, <1>9, <1>10, <1>11, Zenon
<1>15. ~t.skipEvent => t.data = Data(b, LastBlank(b), f)
  <2>1. o.skipEvent \in BOOLEAN
    BY KeptFields, Zenon
  <2> QED
    BY <1>4, <1>5, <1>7, <2>1, Zenon
<1>16. Leaves(t, b)
  BY <1>4, <1>5, <1>7, <1>12, <1>13, <1>14, <1>15, Zenon DEF Leaves
<1> QED
  BY <1>16 DEF t, b

\* One line end more: what it changes of the positions.
LEMMA AppendPrefix ==
    ASSUME NEW a \in Seq(Tokens), NEW e \in LineBreaks
    PROVE  LET b == Append(a, e)
               n == Len(a) + 1
           IN  /\ b \in Seq(Tokens) /\ Len(b) = n /\ Prefix(a, b) /\ b[n] = e
               /\ n \in Nat /\ n > 0 /\ n \in Breaks(b) /\ LastBreak(b) = n
               /\ LastBefore(Breaks(b), n) = LastBreak(a) /\ LineStart(b, n) = LastBreak(a) + 1
               /\ LastBefore(BlankLines(b), n) = LastBlank(a)
               /\ \A i : i \in Breaks(b) <=> i \in Breaks(a) \/ i = n
               /\ \A i : i # n => (i \in LineEnds(b) <=> i \in LineEnds(a))
               /\ \A i : i # n => (i \in BlankLines(b) <=> i \in BlankLines(a))
               /\ n \notin LineEnds(a) /\ n \notin BlankLines(a)
<1> DEFINE b == Append(a, e)
           n == Len(a) + 1
<1>1. Len(a) \in Nat /\ n \in Nat /\ n > 0 /\ ~(n <= Len(a)) /\ n \in 1..(Len(a) + 1)
  OBVIOUS
<1>2. e \in Tokens
  BY DEF LineBreaks, Tokens
<1>3. /\ b \in Seq(Tokens) /\ Len(b) = n /\ b[n] = e /\ Len(a) <= Len(b)
      /\ \A i \in 1..Len(a) : a[i] = b[i]
  BY <1>2
<1> HIDE DEF b
<1>4. Prefix(a, b)
  BY <1>3, Zenon DEF Prefix
<1>5. n \in Breaks(b)
  BY <1>1, <1>3 DEF Breaks
<1>6. \A i : i \in Breaks(b) \/ i \in LineEnds(b) \/ i \in BlankLines(b) =>
          i = n \/ i \in 1..Len(a)
  <2>1. \A i \in Nat : i > 0 /\ i <= n => i = n \/ i \in 1..Len(a)
    BY <1>1
  <2> QED
    BY <1>3, <2>1, Places, Zenon
<1>7. \A i : i \in Breaks(a) \/ i \in LineEnds(a) \/ i \in BlankLines(a) =>
          i # n /\ i \in 1..Len(a)
  <2>1. \A i \in Nat : i > 0 /\ i <= Len(a) => i # n /\ i \in 1..Len(a)
    BY <1>1
  <2> QED
    BY <2>1, Places, Zenon
<1> DEFINE J == 1..Len(a)
<1>8. /\ \A i \in J : i \in Breaks(a) <=> i \in Breaks(b)
      /\ \A i \in J : i \in LineEnds(a) <=> i \in LineEnds(b)
      /\ \A i \in J : i \in BlankLines(a) <=> i \in BlankLines(b)
  BY <1>3, <1>4, PrefixLines, Zenon
<1> HIDE DEF J
<1>9. \A i : i \in Breaks(b) <=> i \in Breaks(a) \/ i = n
  BY <1>5, <1>6, <1>7, <1>8, Zenon DEF J
<1>10. \A i : i # n => (i \in LineEnds(b) <=> i \in LineEnds(a))
  BY <1>6, <1>7, <1>8, Zenon DEF J
<1>11. \A i : i # n => (i \in BlankLines(b) <=> i \in BlankLines(a))
  BY <1>6, <1>7, <1>8, Zenon DEF J
<1>12. LastBreak(b) = n
  BY <1>3, <1>5, Places, LastBreakIs, Zenon
<1>13. /\ LastBefore(Breaks(b), n) = LastBreak(a)
       /\ LastBefore(BlankLines(b), n) = LastBlank(a)
  BY <1>1, <1>3, <1>4, PrefixLines, Zenon DEF LastBreak, LastBlank
<1>14. LineStart(b, n) = LastBreak(a) + 1
  BY <1>13, Zenon DEF LineStart
<1>15. n \notin LineEnds(a) /\ n \notin BlankLines(a)
  BY <1>7, Zenon
<1> QED
  BY <1>1, <1>3, <1>4, <1>5, <1>9, <1>10, <1>11, <1>12, <1>13, <1>14, <1>15, Zenon DEF b

\* The LF of a CR LF ends no line and is no data.
LEMMA SwallowLeaves ==
    ASSUME ObserverAssumption, NEW o, Kept(o), NEW a \in Seq(Tokens), Leaves(o, a), EndsInCR(a),
           NEW q, q.line = o.line, q.data = o.data, q.event = o.event,
           q.skipLine = o.skipLine, q.skipEvent = o.skipEvent
    PROVE  Leaves(q, Append(a, "LF"))
<1> DEFINE b == Append(a, "LF")
           n == Len(a) + 1
           z == LastBlank(a)
<1>0. Len(a) \in Nat /\ MaxEventBytes \in Nat /\ MaxEventBytes > 0
  BY DEF ObserverAssumption
<1>1. /\ b \in Seq(Tokens) /\ Len(b) = n /\ Prefix(a, b) /\ b[n] = "LF"
      /\ n \in Nat /\ n > 0 /\ n \in Breaks(b) /\ LastBreak(b) = n
      /\ LineStart(b, n) = LastBreak(a) + 1
      /\ \A i : i # n => (i \in LineEnds(b) <=> i \in LineEnds(a))
      /\ \A i : i # n => (i \in BlankLines(b) <=> i \in BlankLines(a))
      /\ n \notin LineEnds(a) /\ n \notin BlankLines(a)
  <2>1. "LF" \in LineBreaks
    BY DEF LineBreaks
  <2> QED
    BY <2>1, AppendPrefix, Zenon
<1> HIDE DEF b
<1>2. Len(a) > 0 /\ a[Len(a)] = "CR" /\ Len(a) \in 1..Len(a) /\ n - 1 = Len(a) /\ n # 1
  BY <1>0 DEF EndsInCR
<1>3. LastBreak(a) = Len(a)
  <2>1. Len(a) \in Breaks(a)
    BY <1>2 DEF Breaks, LineBreaks
  <2> QED
    BY <2>1, Places, LastBreakIs, Zenon
<1>4. n \notin LineEnds(b)
  <2>1. b[n - 1] = "CR"
    BY <1>1, <1>2, Zenon DEF Prefix
  <2>2. b[n] # "CR"
    BY <1>1
  <2> QED
    BY <1>2, <2>1, <2>2, Zenon DEF LineEnds
<1>5. n \notin BlankLines(b)
  BY <1>1, <1>4, Places, Zenon
<1>6. \A i : i \in BlankLines(b) <=> i \in BlankLines(a)
  BY <1>1, <1>5, Zenon
<1>7. \A i : i \in LineEnds(b) <=> i \in LineEnds(a)
  BY <1>1, <1>4, Zenon
<1>8. LastBlank(b) = z
  BY <1>1, <1>6, LastPlaces, LastBlankIs, Zenon
<1>9. Overlong(b) <=> Overlong(a)
  BY <1>1, <1>7, <1>8, OverlongPrefix, Zenon DEF Overlong
<1>10. z \in Nat /\ z <= Len(a)
  BY <1>3, LastPlaces, Zenon
<1>11. Data(b, z, n) = Data(a, z, Len(a))
  <2>1. ~InData(b, n)
    <3>1. ~(LineStart(b, n) < n)
      BY <1>0, <1>1, <1>3
    <3> QED
      BY <3>1, Zenon DEF InData
  <2>2. \A i \in (z + 1)..n : i # n => i \in (z + 1)..Len(a)
    BY <1>0, <1>10
  <2>3. \A i \in (z + 1)..Len(a) : i \in (z + 1)..n
    BY <1>0, <1>10
  <2>4. \A i : i \in DataAt(b, z, n) <=> i \in DataAt(b, z, Len(a))
    BY <2>1, <2>2, <2>3, Zenon DEF DataAt
  <2>5. DataAt(b, z, n) = DataAt(b, z, Len(a))
    BY <2>4, Zenon
  <2>6. Data(b, z, n) = Data(b, z, Len(a))
    BY <2>5, DataIs, Zenon
  <2>7. Len(a) <= Len(a)
    BY <1>0
  <2>8. Data(a, z, Len(a)) = Data(b, z, Len(a))
    <3>1. /\ b \in Seq(Tokens) /\ Prefix(a, b) /\ z \in Nat /\ Len(a) \in Nat
          /\ Len(a) <= Len(a)
      BY <1>0, <1>1, <1>10, <2>7, Zenon
    <3> HIDE DEF z
    <3> QED
      BY <3>1, DataPrefix, Zenon
  <2> QED
    BY <2>6, <2>8
<1>12. LastEvent(b) = LastEvent(a)
  <2>1. BlankLines(a) = BlankLines(b)
    BY <1>6, Zenon
  <2> QED
    BY <1>1, <2>1, LastEventSame, Zenon
<1>13. /\ o.skipLine <=> Len(a) - LastBreak(a) > MaxEventBytes
       /\ o.line = IF o.skipLine THEN <<>> ELSE SubSeq(a, LastBreak(a) + 1, Len(a))
       /\ o.skipEvent <=> \/ Overlong(a) \/ Len(a) - LastBreak(a) > MaxEventBytes
                          \/ Len(Data(a, z, LastBreak(a))) > MaxEventBytes
       /\ (~o.skipEvent => o.data = Data(a, z, LastBreak(a))) /\ o.event = LastEvent(a)
  BY Zenon DEF Leaves
<1>14. ~(Len(a) - LastBreak(a) > MaxEventBytes) /\ ~(Len(b) - LastBreak(b) > MaxEventBytes)
  BY <1>0, <1>1, <1>3
<1>15. ~q.skipLine /\ q.line = <<>>
  BY <1>0, <1>3, <1>13, <1>14
<1>16. SubSeq(b, LastBreak(b) + 1, Len(b)) = <<>>
  BY <1>0, <1>1
<1>17. Leaves(q, b)
  BY <1>1, <1>3, <1>8, <1>9, <1>11, <1>12, <1>13, <1>14, <1>15, <1>16, Zenon DEF Leaves
<1> QED
  BY <1>17 DEF b

\* The end of a, from one position and from the next.
LEMMA TailOfSuffix ==
    ASSUME NEW a \in Seq(Tokens), NEW g \in Nat, g < Len(a)
    PROVE  LET s == SubSeq(a, g + 1, Len(a))
           IN  /\ s \in Seq(Tokens) /\ s # <<>> /\ s[1] = a[g + 1]
               /\ Tail(s) = SubSeq(a, g + 2, Len(a))
               /\ Tail(s) # <<>> <=> g + 1 < Len(a)
<1> DEFINE s == SubSeq(a, g + 1, Len(a))
           t == SubSeq(a, g + 2, Len(a))
<1>1. Len(a) \in Nat
  OBVIOUS
<1>2. /\ s \in Seq(Tokens) /\ Len(s) = Len(a) - g
      /\ \A i \in 1..(Len(a) - g) : s[i] = a[g + i]
  BY <1>1
<1>3. /\ t \in Seq(Tokens) /\ Len(t) = Len(a) - g - 1
      /\ \A i \in 1..(Len(a) - g - 1) : t[i] = a[g + 1 + i]
  BY <1>1
<1> HIDE DEF s, t
<1>4. s # <<>> /\ s[1] = a[g + 1]
  BY <1>1, <1>2
<1>5. /\ Tail(s) \in Seq(Tokens) /\ Len(Tail(s)) = Len(s) - 1
      /\ \A i \in 1..(Len(s) - 1) : Tail(s)[i] = s[i + 1]
  BY <1>2, <1>4
<1>6. \A i \in 1..Len(t) : Tail(s)[i] = t[i]
  <2> TAKE i \in 1..Len(t)
  <2>1. i \in 1..(Len(s) - 1) /\ i + 1 \in 1..(Len(a) - g) /\ g + (i + 1) = g + 1 + i
    BY <1>1, <1>2, <1>3
  <2> QED
    BY <1>2, <1>3, <1>5, <2>1
<1>7. Len(Tail(s)) = Len(t)
  BY <1>1, <1>2, <1>3, <1>5
<1>8. Tail(s) = t
  BY <1>3, <1>5, <1>6, <1>7, SeqEqual
<1>9. t # <<>> <=> g + 1 < Len(a)
  BY <1>1, <1>3
<1> QED
  BY <1>2, <1>4, <1>8, <1>9 DEF s, t

\* The data a line adds: nothing, or its value and a line end.
LEMMA DataOfLine ==
    ASSUME NEW a \in Seq(Tokens), LastBreak(a) < Len(a), NEW e \in LineBreaks
    PROVE  LET line == SubSeq(a, LastBreak(a) + 1, Len(a))
               d == Data(a, LastBlank(a), LastBreak(a))
           IN  /\ line \in Seq(Tokens) /\ line # <<>>
               /\ Data(Append(a, e), LastBlank(a), Len(a) + 1) =
                      IF line[1] = "data:" THEN d \o Append(Value(line), "NL") ELSE d
<1> DEFINE b == Append(a, e)
           n == Len(a) + 1
           f == LastBreak(a)
           z == LastBlank(a)
           line == SubSeq(a, f + 1, Len(a))
<1>1. /\ b \in Seq(Tokens) /\ Len(b) = n /\ Prefix(a, b) /\ b[n] = e /\ n \in Nat
      /\ \A i : i \in Breaks(b) <=> i \in Breaks(a) \/ i = n
  BY AppendPrefix, Zenon
<1>2. /\ f \in Nat /\ (f = 0 \/ f \in Breaks(a)) /\ (\A j \in Breaks(a) : j <= f)
      /\ z \in Nat /\ z <= f
  BY LastPlaces, Zenon
<1>3. Len(a) \in Nat /\ f < Len(a)
  OBVIOUS
<1>4. /\ line \in Seq(Tokens) /\ line # <<>> /\ line[1] = a[f + 1]
      /\ Tail(line) = SubSeq(a, f + 2, Len(a)) /\ (Tail(line) # <<>> <=> f + 1 < Len(a))
  <2> HIDE DEF f
  <2> QED
    BY <1>2, <1>3, TailOfSuffix, Zenon
<1> HIDE DEF b, f, z, line
<1>5. \A i \in Nat : f < i /\ i <= n => LineStart(b, i) = f + 1
  <2> TAKE i \in Nat
  <2> HAVE f < i /\ i <= n
  <2>1. i > 0
    BY <1>2
  <2>2. \A j \in Breaks(b) : j < i => j <= f
    BY <1>1, <1>2
  <2>3. \A j \in Breaks(b) : j \in Nat /\ j > 0
    BY <1>1, Places, Zenon
  <2>4. f = 0 \/ f \in Breaks(b)
    BY <1>1, <1>2, Zenon
  <2>5. LastBefore(Breaks(b), i) = f
    BY <2>1, <2>2, <2>3, <2>4, LastIs, Zenon
  <2> QED
    BY <2>5, Zenon DEF LineStart
<1>6. b[f + 1] = line[1]
  <2>1. f + 1 \in 1..Len(a)
    BY <1>2, <1>3
  <2> QED
    BY <1>1, <1>4, <2>1, Zenon DEF Prefix
<1>7. \A i \in Nat : f < i /\ i <= n =>
          (InData(b, i) <=> f + 1 < i /\ line[1] = "data:" /\ ~(i = f + 1 + 1 /\ b[i] = "sp"))
  BY <1>5, <1>6, Zenon DEF InData
<1>8. Data(b, z, f) = Data(a, z, f)
  <2>1. f <= Len(a)
    BY <1>2, <1>3
  <2> QED
    BY <1>1, <1>2, <2>1, DataPrefix, Zenon
<1>9. \A i : i \in (z + 1)..n <=> i \in (z + 1)..f \/ i \in (f + 1)..n
  BY <1>2, <1>3
<1>10. \A i \in (f + 1)..n : i \in Nat /\ f < i /\ i <= n
  BY <1>2, <1>3
<1>11. CASE line[1] # "data:"
  <2>1. \A i : i \in DataAt(b, z, n) <=> i \in DataAt(b, z, f)
    BY <1>7, <1>9, <1>10, <1>11, Zenon DEF DataAt
  <2>2. DataAt(b, z, n) = DataAt(b, z, f)
    BY <2>1, Zenon
  <2>3. Data(b, z, n) = Data(b, z, f)
    BY <2>2, DataIs, Zenon
  <2>4. Data(b, z, n) = Data(a, z, f)
    BY <1>8, <2>3
  <2> QED
    BY <1>4, <1>11, <2>4 DEF b, f, z, line
<1>12. CASE line[1] = "data:"
  <2> DEFINE space == f + 2 <= Len(a) /\ a[f + 2] = "sp"
             m == IF space THEN f + 2 ELSE f + 1
             v == SubSeq(a, m + 1, Len(a))
             block == Block(b, m, n)
  <2>1. m \in Nat /\ f <= m /\ f < m /\ m <= n /\ m <= Len(a)
    BY <1>2, <1>3
  <2>2. \A i \in (f + 1)..n : InData(b, i) <=> i \in (m + 1)..n
    <3> TAKE i \in (f + 1)..n
    <3>1. InData(b, i) <=> f + 1 < i /\ ~(i = f + 1 + 1 /\ b[i] = "sp")
      BY <1>7, <1>10, <1>12, Zenon
    <3>2. CASE i = f + 2
      <4>1. b[i] = "sp" <=> space
        <5>1. CASE f + 2 <= Len(a)
          <6>1. f + 2 \in 1..Len(a)
            BY <1>2, <1>3, <5>1
          <6>2. a[f + 2] = b[f + 2]
            BY <1>1, <6>1, Zenon DEF Prefix
          <6> QED
            BY <3>2, <5>1, <6>2
        <5>2. CASE ~(f + 2 <= Len(a))
          <6>1. i = n
            BY <1>2, <1>3, <3>2, <5>2
          <6> QED
            BY <1>1, <5>2, <6>1 DEF LineBreaks
        <5> QED
          BY <5>1, <5>2
      <4> HIDE DEF space
      <4> QED
        BY <1>2, <1>3, <3>1, <3>2, <4>1
    <3>3. CASE i # f + 2
      <4> HIDE DEF space
      <4> QED
        BY <1>2, <1>3, <3>1, <3>3
    <3> QED
      BY <3>2, <3>3
  <2>3. \A i \in (m + 1)..n : i \in (f + 1)..n
    BY <1>2, <1>3, <2>1
  <2> HIDE DEF m
  <2>4. DataAt(b, z, n) = Extend(DataAt(b, z, f), m, n)
    <3>1. \A i : i \in DataAt(b, z, n) <=> i \in Extend(DataAt(b, z, f), m, n)
      BY <1>9, <2>2, <2>3, Zenon DEF DataAt, Extend
    <3> QED
      BY <3>1, Zenon DEF Extend
  <2>5. Data(b, z, n) = Data(b, z, f) \o block
    <3>1. /\ b \in Seq(Tokens) /\ z \in Nat /\ f \in Nat /\ m \in Nat /\ n \in Nat
          /\ f <= m /\ m <= n /\ n <= Len(b)
      BY <1>1, <1>2, <2>1
    <3>2. Grows(b, z, f, m, n)
      BY <2>4, <3>1, Zenon DEF Grows
    <3> HIDE DEF n, block
    <3>3. Data(b, z, n) = Data(b, z, f) \o Block(b, m, n)
      BY <3>2, DataGrows
    <3> QED
      BY <3>3 DEF block
  <2>6. Value(line) = v
    <3>1. space <=> Tail(line) # <<>> /\ Tail(line)[1] = "sp"
      <4>1. f + 1 < Len(a) => Tail(line)[1] = a[f + 2]
        <5>1. f + 1 \in Nat /\ (f + 1) + 1 = f + 2
          BY <1>2
        <5>2. f + 1 < Len(a) => SubSeq(a, f + 2, Len(a))[1] = a[f + 2]
          BY <1>2, <1>3
        <5> QED
          BY <1>4, <5>2, Zenon
      <4>2. f + 1 < Len(a) <=> f + 2 <= Len(a)
        BY <1>2, <1>3
      <4> QED
        BY <1>4, <4>1, <4>2
    <3>2. CASE space
      <4>1. f + 1 \in Nat /\ f + 1 < Len(a) /\ f + 1 + 1 = f + 2 /\ f + 1 + 2 = f + 3
        BY <1>2, <1>3, <3>2
      <4>2. Tail(SubSeq(a, f + 2, Len(a))) = SubSeq(a, f + 3, Len(a))
        BY <4>1, TailOfSuffix
      <4>3. m = f + 2 /\ m + 1 = f + 3
        BY <1>2, <3>2 DEF m
      <4>4. Value(line) = Tail(Tail(line))
        BY <3>1, <3>2, Zenon DEF Value
      <4> QED
        BY <1>4, <4>2, <4>3, <4>4
    <3>3. CASE ~space
      <4>1. m = f + 1 /\ m + 1 = f + 2
        BY <1>2, <3>3 DEF m
      <4>2. Value(line) = Tail(line)
        BY <3>1, <3>3, Zenon DEF Value
      <4> QED
        BY <1>4, <4>1, <4>2
    <3> QED
      BY <3>2, <3>3
  <2>7. block = Append(v, "NL")
    <3>1. v \in Seq(Tokens) /\ Len(v) = Len(a) - m /\ \A k \in 1..(Len(a) - m) : v[k] = a[m + k]
      BY <1>3, <2>1
    <3>2. n - m \in Nat /\ n - m = Len(a) - m + 1
      BY <1>3, <2>1
    <3> HIDE DEF v
    <3>3. /\ Append(v, "NL") \in Seq(Tokens \cup {"NL"}) /\ Len(Append(v, "NL")) = n - m
          /\ \A k \in 1..(Len(a) - m) : Append(v, "NL")[k] = v[k]
          /\ Append(v, "NL")[n - m] = "NL"
      BY <1>3, <2>1, <3>1, <3>2
    <3>4. ASSUME NEW k \in 1..(n - m)
          PROVE  Shown(b, m + k) = Append(v, "NL")[k]
      <4>1. CASE k = n - m
        <5>1. m + k = n
          BY <1>3, <2>1, <4>1
        <5> QED
          BY <1>1, <3>3, <4>1, <5>1 DEF Shown
      <4>2. CASE k # n - m
        <5>1. k \in 1..(Len(a) - m) /\ m + k \in 1..Len(a) /\ ~(m + k <= f)
          BY <1>2, <1>3, <2>1, <3>2, <4>2
        <5>2. b[m + k] = a[m + k]
          BY <1>1, <5>1, Zenon DEF Prefix
        <5>3. m + k \notin Breaks(a)
          BY <1>2, <5>1
        <5>4. a[m + k] \notin LineBreaks
          BY <5>1, <5>3 DEF Breaks
        <5>5. Shown(b, m + k) = a[m + k]
          BY <5>2, <5>4, Zenon DEF Shown
        <5>6. Append(v, "NL")[k] = a[m + k]
          BY <3>1, <3>3, <5>1
        <5> QED
          BY <5>5, <5>6
      <4> QED
        BY <4>1, <4>2
    <3> DEFINE w == Append(v, "NL")
    <3> HIDE DEF w
    <3>5. w = [k \in 1..(n - m) |-> w[k]]
      <4>1. w \in Seq(Tokens \cup {"NL"}) /\ Len(w) = n - m
        BY <3>3 DEF w
      <4> QED
        BY <3>2, <4>1
    <3>6. block = w
      BY <3>4, <3>5, Zenon DEF w, Block
    <3> QED
      BY <3>6 DEF w
  <2>8. Data(b, z, n) = Data(a, z, f) \o Append(Value(line), "NL")
    BY <1>8, <2>5, <2>6, <2>7
  <2> QED
    BY <1>4, <1>12, <2>8 DEF b, f, z, line
<1> QED
  BY <1>11, <1>12

\* What the last line end settles: the line is empty again.
LEMMA LeavesAt ==
    ASSUME ObserverAssumption, NEW o, NEW b \in Seq(Tokens), LastBreak(b) = Len(b),
           o.line = <<>>, o.skipLine = FALSE,
           o.skipEvent <=> Overlong(b) \/ Len(Data(b, LastBlank(b), Len(b))) > MaxEventBytes,
           ~o.skipEvent => o.data = Data(b, LastBlank(b), Len(b)),
           o.event = LastEvent(b)
    PROVE  Leaves(o, b)
<1>1. Len(b) \in Nat /\ MaxEventBytes \in Nat
  BY DEF ObserverAssumption
<1>2. ~(Len(b) - LastBreak(b) > MaxEventBytes)
  BY <1>1
<1>3. SubSeq(b, LastBreak(b) + 1, Len(b)) = <<>>
  BY <1>1
<1> QED
  BY <1>2, <1>3, Zenon DEF Leaves

\* What a leaves, field by field.
LEMMA LeavesFields ==
    ASSUME NEW o, NEW a, Leaves(o, a)
    PROVE  /\ o.skipLine <=> Len(a) - LastBreak(a) > MaxEventBytes
           /\ o.line = IF o.skipLine THEN <<>> ELSE SubSeq(a, LastBreak(a) + 1, Len(a))
           /\ o.skipEvent <=> \/ Overlong(a)
                              \/ Len(a) - LastBreak(a) > MaxEventBytes
                              \/ Len(Data(a, LastBlank(a), LastBreak(a))) > MaxEventBytes
           /\ ~o.skipEvent => o.data = Data(a, LastBlank(a), LastBreak(a))
           /\ o.event = LastEvent(a)
BY Zenon DEF Leaves

\* The line that e ends is not blank.
LEMMA LineEnded ==
    ASSUME ObserverAssumption, NEW a \in Seq(Tokens), NEW e \in LineBreaks,
           ~(EndsInCR(a) /\ e = "LF")
    PROVE  LET b == Append(a, e)
           IN  /\ LastBreak(a) < Len(a) =>
                      /\ LastBlank(b) = LastBlank(a) /\ LastEvent(b) = LastEvent(a)
                      /\ Overlong(b) <=> \/ Overlong(a)
                                         \/ Len(a) - LastBreak(a) > MaxEventBytes
               /\ LastBreak(a) = Len(a) =>
                      /\ \A i : i \in BlankLines(b) <=> i \in BlankLines(a) \/ i = Len(b)
                      /\ LastBlank(b) = Len(b) /\ ~Overlong(b)
<1> DEFINE b == Append(a, e)
           n == Len(a) + 1
           f == LastBreak(a)
<1>0. Len(a) \in Nat /\ MaxEventBytes \in Nat /\ f \in Nat /\ f <= Len(a)
  BY LastPlaces DEF ObserverAssumption
<1>1. /\ b \in Seq(Tokens) /\ Len(b) = n /\ Prefix(a, b) /\ b[n] = e
      /\ n \in Nat /\ n > 0 /\ n \in Breaks(b) /\ LastBreak(b) = n
      /\ LineStart(b, n) = f + 1
      /\ \A i : i # n => (i \in LineEnds(b) <=> i \in LineEnds(a))
      /\ \A i : i # n => (i \in BlankLines(b) <=> i \in BlankLines(a))
      /\ n \notin LineEnds(a) /\ n \notin BlankLines(a)
  BY AppendPrefix, Zenon
<1> HIDE DEF b, f
<1>2. n \in LineEnds(b)
  <2>1. CASE n = 1
    BY <1>1, <2>1, Zenon DEF LineEnds
  <2>2. CASE n # 1
    <3>1. Len(a) # 0 /\ Len(a) \in 1..Len(a) /\ n - 1 = Len(a)
      BY <1>0, <2>2
    <3>2. b[n - 1] = a[Len(a)]
      BY <1>1, <3>1, Zenon DEF Prefix
    <3>3. e = "CR" \/ a[Len(a)] # "CR"
      BY <3>1 DEF EndsInCR, LineBreaks
    <3> QED
      BY <1>1, <3>2, <3>3, Zenon DEF LineEnds
  <2> QED
    BY <2>1, <2>2
<1>3. n \in BlankLines(b) <=> f = Len(a)
  <2>1. f + 1 = n <=> f = Len(a)
    BY <1>0
  <2> QED
    BY <1>1, <1>2, <2>1, Zenon DEF BlankLines
<1>4. ASSUME f < Len(a)
      PROVE  /\ LastBlank(b) = LastBlank(a) /\ LastEvent(b) = LastEvent(a)
             /\ Overlong(b) <=> Overlong(a) \/ Len(a) - f > MaxEventBytes
  <2>1. n \notin BlankLines(b)
    BY <1>0, <1>3, <1>4
  <2>2. \A i : i \in BlankLines(b) <=> i \in BlankLines(a)
    BY <1>1, <2>1, Zenon
  <2>3. LastBlank(b) = LastBlank(a)
    BY <1>1, <2>2, LastPlaces, LastBlankIs, Zenon
  <2>4. LastEvent(b) = LastEvent(a)
    <3>1. BlankLines(a) = BlankLines(b)
      BY <2>2, Zenon
    <3> QED
      BY <1>1, <3>1, LastEventSame, Zenon
  <2> DEFINE z == LastBlank(a)
  <2>5. z < n /\ (n - LineStart(b, n) > MaxEventBytes <=> Len(a) - f > MaxEventBytes)
    <3>1. z \in Nat /\ z <= f
      BY LastPlaces, Zenon DEF f
    <3> HIDE DEF z
    <3> QED
      BY <1>0, <1>1, <3>1
  <2> HIDE DEF z
  <2>6. (\E j \in LineEnds(b) : z < j /\ j - LineStart(b, j) > MaxEventBytes)
        <=> \/ \E j \in LineEnds(b) : /\ j \in LineEnds(a)
                                      /\ z < j /\ j - LineStart(b, j) > MaxEventBytes
            \/ Len(a) - f > MaxEventBytes
    BY <1>1, <1>2, <2>5, Zenon
  <2>7. Overlong(b) <=> Overlong(a) \/ Len(a) - f > MaxEventBytes
    BY <1>1, <2>3, <2>6, OverlongPrefix, Zenon DEF Overlong, z
  <2> QED
    BY <2>3, <2>4, <2>7
<1>5. ASSUME f = Len(a)
      PROVE  /\ \A i : i \in BlankLines(b) <=> i \in BlankLines(a) \/ i = Len(b)
             /\ LastBlank(b) = Len(b) /\ ~Overlong(b)
  <2>1. n \in BlankLines(b)
    BY <1>3, <1>5
  <2>2. \A i : i \in BlankLines(b) <=> i \in BlankLines(a) \/ i = n
    BY <1>1, <2>1, Zenon
  <2>3. LastBlank(b) = n
    BY <1>1, <2>1, Places, LastBlankIs, Zenon
  <2>4. \A j \in LineEnds(b) : ~(n < j)
    <3>1. \A j \in LineEnds(b) : j \in Nat /\ j <= n
      BY <1>1, Places, Zenon
    <3> QED
      BY <1>1, <3>1
  <2> QED
    BY <1>1, <2>2, <2>3, <2>4, Zenon DEF Overlong
<1> QED
  BY <1>4, <1>5, Zenon DEF b, f

\* Data are worth keeping unless they are empty or a terminator.
LEMMA FrontIs ==
    ASSUME NEW d \in Seq(Tokens \cup {"NL"}), d # <<>> => d[Len(d)] = "NL"
    PROVE  Front(d) \notin {<<>>, <<"[DONE]">>} <=> Len(d) > 1 /\ d # <<"[DONE]", "NL">>
<1>1. Len(d) \in Nat
  OBVIOUS
<1>2. CASE Len(d) = 0
  <2>1. d = <<>>
    BY <1>2
  <2> QED
    BY <1>2, <2>1 DEF Front
<1>3. CASE Len(d) = 1
  <2>1. Front(d) = <<>>
    BY <1>3 DEF Front
  <2> QED
    BY <1>3, <2>1
<1>4. CASE Len(d) = 2
  <2>1. Front(d) = <<d[1]>>
    <3>1. Front(d) \in Seq(Tokens \cup {"NL"}) /\ Len(Front(d)) = 1 /\ Front(d)[1] = d[1]
      BY <1>4 DEF Front
    <3> QED
      BY <3>1
  <2>2. d = <<d[1], d[2]>>
    BY <1>4
  <2>3. d[2] = "NL"
    BY <1>4
  <2> QED
    BY <1>4, <2>1, <2>2, <2>3
<1>5. CASE Len(d) > 2
  <2>1. Front(d) \in Seq(Tokens \cup {"NL"}) /\ Len(Front(d)) = Len(d) - 1
    BY <1>1, <1>5 DEF Front
  <2>2. Len(Front(d)) > 1
    BY <1>1, <1>5, <2>1
  <2>3. Front(d) # <<>> /\ Front(d) # <<"[DONE]">>
    <3>1. Len(<<>>) = 0 /\ Len(<<"[DONE]">>) = 1
      OBVIOUS
    <3>2. Front(d) = <<>> => ~(Len(Front(d)) > 1)
      BY <3>1
    <3>3. Front(d) = <<"[DONE]">> => ~(Len(Front(d)) > 1)
      BY <3>1
    <3> QED
      BY <2>2, <3>2, <3>3
  <2>4. d # <<"[DONE]", "NL">>
    <3>1. Len(<<"[DONE]", "NL">>) = 2
      OBVIOUS
    <3> QED
      BY <1>1, <1>5, <3>1
  <2> QED
    BY <1>5, <2>3, <2>4
<1> QED
  BY <1>1, <1>2, <1>3, <1>4, <1>5

\* There are no data in between nothing.
LEMMA NoData ==
    ASSUME NEW b \in Seq(Tokens), NEW m \in Nat, m <= Len(b)
    PROVE  Data(b, m, m) = <<>>
<1>1. DataAt(b, m, m) = {}
  BY DEF DataAt
<1>2. Cardinality(DataAt(b, m, m)) = 0
  BY <1>1, FS_EmptySet
<1>3. Len(Data(b, m, m)) = 0 /\ Data(b, m, m) \in Seq(Tokens \cup {"NL"})
  BY <1>2, DataType, Zenon
<1> QED
  BY <1>3

\* A line end after a line that is not blank.
LEMMA LineLeaves ==
    ASSUME ObserverAssumption, NEW o, Kept(o), NEW a \in Seq(Tokens), Leaves(o, a),
           LastBreak(a) < Len(a), NEW e \in LineBreaks, ~(EndsInCR(a) /\ e = "LF")
    PROVE  Leaves(EndLine(o, e), Append(a, e))
<1> DEFINE b == Append(a, e)
           n == EndLine(o, e)
           f == LastBreak(a)
           z == LastBlank(a)
           line == SubSeq(a, f + 1, Len(a))
           d == Data(a, z, f)
           c == IF o.skipLine THEN o ELSE ConsumeLine(o, o.line)
           total == Data(b, z, Len(a) + 1)
<1>0. Len(a) \in Nat /\ MaxEventBytes \in Nat
  BY DEF ObserverAssumption
<1>1. /\ b \in Seq(Tokens) /\ Len(b) = Len(a) + 1 /\ LastBreak(b) = Len(b)
      /\ LastBlank(b) = z /\ LastEvent(b) = LastEvent(a)
      /\ Overlong(b) <=> Overlong(a) \/ Len(a) - f > MaxEventBytes
  <2>1. LastBreak(b) = Len(b) /\ b \in Seq(Tokens) /\ Len(b) = Len(a) + 1
    BY AppendPrefix, Zenon
  <2> QED
    BY <2>1, LineEnded, Zenon
<1>2. /\ Kept(c) /\ n.line = <<>> /\ n.skipLine = FALSE
      /\ n.data = c.data /\ n.event = c.event /\ n.skipEvent = c.skipEvent
  <2>1. c = IF o.skipLine THEN o ELSE ConsumeLine(o, o.line)
    OBVIOUS
  <2> HIDE DEF c
  <2> QED
    BY <2>1, EndLineIs, Zenon
<1>3. /\ line \in Seq(Tokens) /\ line # <<>>
      /\ total = IF line[1] = "data:" THEN d \o Append(Value(line), "NL") ELSE d
  BY DataOfLine, Zenon
<1>4. /\ o.skipLine <=> Len(a) - f > MaxEventBytes
      /\ o.line = IF o.skipLine THEN <<>> ELSE line
      /\ o.skipEvent <=> \/ Overlong(a) \/ Len(a) - f > MaxEventBytes \/ Len(d) > MaxEventBytes
      /\ ~o.skipEvent => o.data = d
      /\ o.event = LastEvent(a)
  BY LeavesFields, Zenon
<1>5. d \in Seq(Tokens \cup {"NL"}) /\ Len(d) \in Nat
  <2>1. z \in Nat /\ f \in Nat /\ f <= Len(a)
    BY LastPlaces, Zenon
  <2> HIDE DEF z, f
  <2> QED
    BY <2>1, DataType, Zenon
<1>6. o.skipEvent \in BOOLEAN /\ o.skipLine \in BOOLEAN /\ Len(o.data) \in Nat
  BY KeptFields, Zenon
<1>7. /\ Value(line) \in Seq(Tokens) /\ Len(Value(line)) \in Nat
      /\ Len(d \o Append(Value(line), "NL")) = Len(d) + Len(Value(line)) + 1
  <2>1. Value(line) \in Seq(Tokens)
    BY <1>3, ValueType, Zenon
  <2> DEFINE v == Value(line)
  <2> HIDE DEF v, d
  <2>2. v \in Seq(Tokens \cup {"NL"}) /\ Len(v) \in Nat
    BY <2>1 DEF v
  <2>3. Len(d \o Append(v, "NL")) = Len(d) + Len(v) + 1
    BY <1>5, <2>2
  <2> QED
    BY <2>1, <2>2, <2>3 DEF v
<1> SUFFICES Leaves(n, b)
  BY DEF n, b
<1> HIDE DEF b, n, f, z, line, d, c, total
<1>8. ASSUME c.skipEvent <=> Overlong(b) \/ Len(total) > MaxEventBytes,
             ~c.skipEvent => c.data = total,
             c.event = o.event
      PROVE  Leaves(n, b)
  <2>1. total = Data(b, LastBlank(b), Len(b))
    BY <1>1, Zenon DEF total
  <2> QED
    BY <1>1, <1>2, <1>4, <1>8, <2>1, LeavesAt, Zenon
<1>9. CASE o.skipLine
  <2>1. c = o
    BY <1>9 DEF c
  <2>2. o.skipEvent /\ Overlong(b)
    BY <1>1, <1>4, <1>9, Zenon
  <2>3. c.skipEvent /\ c.event = o.event
    BY <2>1, <2>2
  <2> QED
    BY <1>8, <2>2, <2>3
<1>10. CASE ~o.skipLine
  <2>0. c = ConsumeLine(o, line) /\ (Overlong(b) <=> Overlong(a))
    BY <1>1, <1>4, <1>10, Zenon DEF c
  <2>1. CASE line[1] # "data:"
    <3>1. c = o /\ total = d
      BY <1>3, <2>0, <2>1, Zenon DEF ConsumeLine
    <3>2. c.skipEvent = o.skipEvent /\ c.event = o.event /\ c.data = o.data
      BY <3>1
    <3>3. c.skipEvent <=> Overlong(b) \/ Len(total) > MaxEventBytes
      BY <1>4, <1>10, <2>0, <3>1, <3>2
    <3>4. ~c.skipEvent => c.data = total
      BY <1>4, <3>1, <3>2
    <3> QED
      BY <1>8, <3>2, <3>3, <3>4
  <2>2. CASE line[1] = "data:" /\ o.skipEvent
    <3>1. c = o /\ total = d \o Append(Value(line), "NL")
      BY <1>3, <2>0, <2>2, Zenon DEF ConsumeLine
    <3>2. Len(d) > MaxEventBytes => Len(total) > MaxEventBytes
      BY <1>0, <1>5, <1>7, <3>1
    <3>3. c.skipEvent /\ c.event = o.event
      BY <2>2, <3>1
    <3>4. Overlong(b) \/ Len(total) > MaxEventBytes
      BY <1>4, <1>10, <2>0, <2>2, <3>2, Zenon
    <3> QED
      BY <1>8, <3>3, <3>4
  <2>3. CASE line[1] = "data:" /\ ~o.skipEvent
    <3>1. c = ConsumeData(o, Value(line)) /\ total = d \o Append(Value(line), "NL")
      BY <1>3, <2>0, <2>3, Zenon DEF ConsumeLine, Value
    <3>2. /\ c.event = o.event
          /\ c.skipEvent = (o.skipEvent \/ Len(o.data) + Len(Value(line)) + 1 > MaxEventBytes)
          /\ Len(o.data) + Len(Value(line)) + 1 <= MaxEventBytes =>
                 c.data = o.data \o Append(Value(line), "NL")
      BY <1>7, <3>1, ConsumeDataKept, Zenon
    <3>3. o.data = d /\ ~Overlong(b)
      BY <1>4, <2>0, <2>3, Zenon
    <3>4. Len(total) = Len(o.data) + Len(Value(line)) + 1
      BY <1>7, <3>1, <3>3
    <3>5. c.skipEvent <=> Len(total) > MaxEventBytes
      BY <2>3, <3>2, <3>4
    <3>6. ~(Len(total) > MaxEventBytes) => c.data = total
      <4>1. ~(Len(total) > MaxEventBytes) => Len(total) <= MaxEventBytes
        BY <1>0, <1>6, <1>7, <3>4
      <4>2. o.data \o Append(Value(line), "NL") = total
        BY <3>1, <3>3, Zenon
      <4> QED
        BY <3>2, <3>4, <4>1, <4>2
    <3>7. c.skipEvent <=> Overlong(b) \/ Len(total) > MaxEventBytes
      BY <3>3, <3>5, Zenon
    <3>8. ~c.skipEvent => c.data = total
      BY <3>5, <3>6, Zenon
    <3> QED
      BY <1>8, <3>2, <3>7, <3>8
  <2> QED
    BY <2>1, <2>2, <2>3
<1> QED
  BY <1>9, <1>10

\* A line end after a line end: a blank line ends the event.
LEMMA BlankLeaves ==
    ASSUME ObserverAssumption, NEW o, Kept(o), NEW a \in Seq(Tokens), Leaves(o, a),
           LastBreak(a) = Len(a), NEW e \in LineBreaks, ~(EndsInCR(a) /\ e = "LF")
    PROVE  Leaves(EndLine(o, e), Append(a, e))
<1> DEFINE b == Append(a, e)
           m == Len(b)
           n == EndLine(o, e)
           z == LastBlank(a)
           d == Data(a, z, Len(a))
<1>0. Len(a) \in Nat /\ MaxEventBytes \in Nat /\ MaxEventBytes > 0
  BY DEF ObserverAssumption
<1>1. /\ b \in Seq(Tokens) /\ Prefix(a, b) /\ m = Len(a) + 1 /\ LastBreak(b) = m
      /\ LastBefore(BlankLines(b), Len(a) + 1) = z
  BY AppendPrefix, Zenon
<1>2. /\ \A i : i \in BlankLines(b) <=> i \in BlankLines(a) \/ i = m
      /\ LastBlank(b) = m /\ ~Overlong(b)
  BY LineEnded, Zenon
<1>3. m \in Nat /\ m > Len(a) /\ m - 1 = Len(a)
  BY <1>0, <1>1
<1>4. z \in Nat /\ z <= Len(a)
  BY LastPlaces, Zenon
<1>5. /\ o.skipLine <=> Len(a) - Len(a) > MaxEventBytes
      /\ o.line = IF o.skipLine THEN <<>> ELSE SubSeq(a, Len(a) + 1, Len(a))
      /\ o.skipEvent <=> \/ Overlong(a) \/ Len(a) - Len(a) > MaxEventBytes
                         \/ Len(d) > MaxEventBytes
      /\ ~o.skipEvent => o.data = d
      /\ o.event = LastEvent(a)
  BY LeavesFields, Zenon
<1>6. /\ ~o.skipLine /\ o.line = <<>>
      /\ o.skipEvent <=> Overlong(a) \/ Len(d) > MaxEventBytes
  <2>1. ~(Len(a) - Len(a) > MaxEventBytes) /\ SubSeq(a, Len(a) + 1, Len(a)) = <<>>
    BY <1>0
  <2> QED
    BY <1>5, <2>1, Zenon
<1>7. d = Data(b, z, Len(a)) /\ d \in Seq(Tokens \cup {"NL"}) /\ Len(d) \in Nat
  <2>1. Len(a) <= Len(a)
    BY <1>0
  <2>2. /\ b \in Seq(Tokens) /\ Prefix(a, b) /\ z \in Nat /\ Len(a) \in Nat
        /\ Len(a) <= Len(a)
    BY <1>0, <1>1, <1>4, <2>1, Zenon
  <2> HIDE DEF b, z
  <2>3. Data(a, z, Len(a)) = Data(b, z, Len(a))
    BY <2>2, DataPrefix, Zenon
  <2>4. /\ Data(a, z, Len(a)) \in Seq(Tokens \cup {"NL"})
        /\ Len(Data(a, z, Len(a))) \in Nat
    BY <2>2, DataType, Zenon
  <2> QED
    BY <2>3, <2>4, Zenon
<1> HIDE DEF b, m, n, z, d
<1>8. EventData(b, m) = d
  BY <1>1, <1>3, <1>7, Zenon DEF EventData, z
<1>9. Observable(b, m) <=> ~Overlong(a) /\ Len(d) \in 2..MaxEventBytes /\ d # <<"[DONE]", "NL">>
  <2>1. LastBefore(BlankLines(b), m) = z
    BY <1>1, Zenon
  <2>2. (\E j \in LineEnds(b) : z < j /\ j < m /\ j - LineStart(b, j) > MaxEventBytes)
        <=> Overlong(a)
    <3>1. \A j \in LineEnds(b) : j < m <=> j \in LineEnds(a)
      <4> TAKE j \in LineEnds(b)
      <4>1. j \in Nat /\ j > 0 /\ j <= m
        BY <1>1, Places, Zenon DEF m
      <4>2. CASE j < m
        <5>1. j # m
          BY <1>3, <4>2
        <5>2. j # Len(a) + 1
          BY <1>1, <5>1
        <5> QED
          BY <4>2, <5>2, AppendPrefix, Zenon DEF b
      <4>3. CASE ~(j < m)
        <5>1. j = Len(a) + 1
          BY <1>1, <1>3, <4>1, <4>3
        <5>2. j \notin LineEnds(a)
          BY <5>1, AppendPrefix, Zenon
        <5> QED
          BY <4>3, <5>2
      <4> QED
        BY <4>2, <4>3
    <3> QED
      BY <1>1, <3>1, OverlongPrefix, Zenon DEF Overlong, z
  <2>3. ASSUME NEW j \in LineEnds(b)
        PROVE  j - LineStart(b, j) <= MaxEventBytes
               <=> ~(j - LineStart(b, j) > MaxEventBytes)
    <3>1. j \in Nat /\ LineStart(b, j) \in Nat
      BY <1>1, Places, Starts, Zenon
    <3> QED
      BY <1>0, <3>1
  <2>4. (\A j \in LineEnds(b) : z < j /\ j < m => j - LineStart(b, j) <= MaxEventBytes)
        <=> ~Overlong(a)
    BY <2>2, <2>3, Zenon
  <2> QED
    BY <1>8, <2>1, <2>4, Zenon DEF Observable
<1>10. LastEvent(b) = IF Observable(b, m) THEN Front(d) ELSE LastEvent(a)
  <2>1. BlankLines(b) = BlankLines(a) \cup {m}
    BY <1>2, Zenon
  <2> QED
    BY <1>1, <1>3, <1>8, <2>1, LastEventNew, Zenon
<1>11. /\ Kept(FlushEvent(o)) /\ FlushEvent(o).data = <<>> /\ FlushEvent(o).skipEvent = FALSE
       /\ FlushEvent(o).event = IF o.skipEvent \/ Front(o.data) \in {<<>>, <<"[DONE]">>}
                           THEN o.event ELSE Front(o.data)
  BY FlushKept, Zenon
<1>12. /\ n.line = <<>> /\ n.skipLine = FALSE
       /\ n.data = <<>> /\ n.event = FlushEvent(o).event /\ n.skipEvent = FALSE
  <2>1. ConsumeLine(o, o.line) = FlushEvent(o)
    BY <1>6, Zenon DEF ConsumeLine
  <2> DEFINE c == IF o.skipLine THEN o ELSE ConsumeLine(o, o.line)
  <2>2. /\ n.line = <<>> /\ n.skipLine = FALSE
        /\ n.data = c.data /\ n.event = c.event /\ n.skipEvent = c.skipEvent
    <3>1. c = IF o.skipLine THEN o ELSE ConsumeLine(o, o.line)
      OBVIOUS
    <3> HIDE DEF c
    <3> QED
      BY <3>1, EndLineIs, Zenon DEF n
  <2>3. c = FlushEvent(o)
    BY <1>6, <2>1
  <2> HIDE DEF c
  <2> QED
    BY <1>11, <2>2, <2>3
<1>13. n.event = LastEvent(b)
  <2>1. CASE o.skipEvent
    <3>1. ~Observable(b, m)
      BY <1>0, <1>6, <1>7, <1>9, <2>1
    <3> QED
      BY <1>5, <1>10, <1>11, <1>12, <2>1, <3>1
  <2>2. CASE ~o.skipEvent
    <3>1. /\ o.data = d /\ ~Overlong(a) /\ ~(Len(d) > MaxEventBytes)
          /\ (d # <<>> => d[Len(d)] = "NL")
      BY <1>5, <1>6, <2>2, KeptFields, Zenon
    <3>2. Front(d) \notin {<<>>, <<"[DONE]">>} <=> Len(d) > 1 /\ d # <<"[DONE]", "NL">>
      BY <1>7, <3>1, FrontIs, Zenon
    <3>3. Len(d) > 1 <=> Len(d) \in 2..MaxEventBytes
      BY <1>0, <1>7, <3>1
    <3>4. Observable(b, m) <=> Front(d) \notin {<<>>, <<"[DONE]">>}
      BY <1>9, <3>1, <3>2, <3>3, Zenon
    <3> QED
      BY <1>5, <1>10, <1>11, <1>12, <2>2, <3>1, <3>4
  <2> QED
    BY <2>1, <2>2
<1>14. Data(b, m, m) = <<>>
  <2>1. m <= Len(b)
    BY <1>3 DEF m
  <2> QED
    BY <1>1, <1>3, <2>1, NoData, Zenon
<1>15. Leaves(n, b)
  <2>1. ~(Len(<<>>) > MaxEventBytes)
    BY <1>0
  <2>2. /\ LastBreak(b) = Len(b) /\ Data(b, LastBlank(b), Len(b)) = <<>>
    BY <1>1, <1>2, <1>14, Zenon DEF m
  <2> QED
    BY <1>1, <1>2, <1>12, <1>13, <2>1, <2>2, LeavesAt, Zenon
<1> QED
  BY <1>15 DEF n, b

\* A line end, whatever the line was.
LEMMA EndLeaves ==
    ASSUME ObserverAssumption, NEW o, Kept(o), NEW a \in Seq(Tokens), Leaves(o, a),
           NEW e \in LineBreaks, ~(EndsInCR(a) /\ e = "LF")
    PROVE  Leaves(EndLine(o, e), Append(a, e))
<1>1. LastBreak(a) < Len(a) \/ LastBreak(a) = Len(a)
  <2>1. LastBreak(a) \in Nat /\ LastBreak(a) <= Len(a) /\ Len(a) \in Nat
    BY LastPlaces
  <2> QED
    BY <2>1
<1> QED
  BY <1>1, LineLeaves, BlankLeaves, Zenon

\* At the end of the body the event is the one that two more line ends would leave.
LEMMA FinishIs ==
    ASSUME ObserverAssumption, NEW o, Kept(o), NEW a \in Seq(Tokens), Leaves(o, a)
    PROVE  FinishEvent(o).event = LastEvent(a \o <<"CR", "CR">>)
<1> DEFINE once == EndLine(o, "CR")
           twice == EndLine(once, "CR")
           c == IF o.skipLine THEN o ELSE ConsumeLine(o, o.line)
           l == IF ~o.skipLine /\ o.line # <<>> THEN ConsumeLine(o, o.line) ELSE o
           b == Append(a, "CR")
<1>0. "CR" \in LineBreaks /\ "CR" \in Tokens /\ "CR" # "LF"
  BY DEF LineBreaks, Tokens
<1>1. b \in Seq(Tokens) /\ Append(b, "CR") = a \o <<"CR", "CR">>
  BY <1>0
<1>2. Kept(once)
  BY EndLineKept, Zenon
<1> HIDE DEF b
<1>3. Leaves(once, b)
  BY <1>0, EndLeaves, Zenon DEF b
<1> HIDE DEF once
<1>4. Leaves(twice, Append(b, "CR"))
  BY <1>0, <1>1, <1>2, <1>3, EndLeaves, Zenon
<1> HIDE DEF twice
<1>5. twice.event = LastEvent(a \o <<"CR", "CR">>)
  BY <1>1, <1>4, LeavesFields, Zenon
<1>6. /\ Kept(c) /\ once.line = <<>> /\ once.skipLine = FALSE
      /\ once.data = c.data /\ once.event = c.event /\ once.skipEvent = c.skipEvent
  <2>1. c = IF o.skipLine THEN o ELSE ConsumeLine(o, o.line)
    OBVIOUS
  <2> HIDE DEF c
  <2> QED
    BY <2>1, EndLineIs, Zenon DEF once
<1> DEFINE g == FlushEvent(once)
<1>7. g = IF once.skipLine THEN once ELSE ConsumeLine(once, once.line)
  BY <1>6, Zenon DEF ConsumeLine
<1>8. g.event = IF once.skipEvent \/ Front(once.data) \in {<<>>, <<"[DONE]">>}
                THEN once.event ELSE Front(once.data)
  BY <1>2, FlushKept, Zenon
<1> HIDE DEF g
<1>9. twice.event = g.event
  BY <1>2, <1>7, EndLineIs, Zenon DEF twice
<1>10. FinishEvent(o).event = IF l.skipEvent \/ Front(l.data) \in {<<>>, <<"[DONE]">>}
                         THEN l.event ELSE Front(l.data)
  BY FinishKept, Zenon
<1>11. CASE o.skipLine \/ o.line # <<>>
  <2>1. c = l
    BY <1>11
  <2> HIDE DEF c, l
  <2>2. once.data = l.data /\ once.event = l.event /\ once.skipEvent = l.skipEvent
    BY <1>6, <2>1
  <2> QED
    BY <1>5, <1>8, <1>9, <1>10, <2>2
<1>12. CASE ~o.skipLine /\ o.line = <<>>
  <2>1. c = FlushEvent(o) /\ l = o
    BY <1>12 DEF ConsumeLine
  <2> HIDE DEF c, l
  <2>2. /\ FlushEvent(o).data = <<>> /\ FlushEvent(o).skipEvent = FALSE
        /\ FlushEvent(o).event = IF o.skipEvent \/ Front(o.data) \in {<<>>, <<"[DONE]">>}
                            THEN o.event ELSE Front(o.data)
    BY FlushKept, Zenon
  <2>3. FinishEvent(o).event = FlushEvent(o).event
    BY <1>10, <2>1, <2>2
  <2>4. once.data = <<>> /\ once.skipEvent = FALSE /\ once.event = FlushEvent(o).event
    BY <1>6, <2>1, <2>2
  <2>5. Front(<<>>) = <<>>
    BY DEF Front
  <2>6. g.event = FlushEvent(o).event
    BY <1>8, <2>4, <2>5
  <2> QED
    BY <1>5, <1>9, <2>3, <2>6
<1> QED
  BY <1>11, <1>12

-----------------------------------------------------------------------------
(* The steps: the observer is always what the bytes read so far leave. *)

\* The inductive invariant: until the body ends the observer is what the bytes leave,
\* and knows whether they end in a CR.
ParseInv ==
    /\ KeptInv
    /\ state = "open" => Leaves(observer, input) /\ (observer.skipLF <=> EndsInCR(input))
    /\ state = "ended" => observer.event = LastEvent(input \o <<"CR", "CR">>)

\* No bytes leave a new observer.
LEMMA InitLeaves ==
    ASSUME ObserverAssumption, NEW o, o.line = <<>>, o.data = <<>>, o.event = <<>>,
           o.skipLine = FALSE, o.skipEvent = FALSE
    PROVE  Leaves(o, <<>>)
<1> DEFINE b == <<>>
<1>0. MaxEventBytes \in Nat /\ b \in Seq(Tokens) /\ Len(b) = 0
  BY DEF ObserverAssumption
<1> HIDE DEF b
<1>1. LastBreak(b) = 0 /\ LastBlank(b) = 0
  <2>1. /\ LastBreak(b) \in Nat /\ LastBreak(b) <= Len(b)
        /\ LastBlank(b) \in Nat /\ LastBlank(b) <= LastBreak(b)
    BY <1>0, LastPlaces, Zenon
  <2> QED
    BY <1>0, <2>1
<1>2. \A i : i \notin LineEnds(b) /\ i \notin BlankLines(b)
  <2>1. \A i \in Nat : ~(i > 0 /\ i <= Len(b))
    BY <1>0
  <2> QED
    BY <1>0, <2>1, Places, Zenon
<1>3. ~Overlong(b)
  BY <1>2, Zenon DEF Overlong
<1>4. LastEvent(b) = <<>>
  <2>1. Events(b) = {}
    BY <1>2, Zenon DEF Events
  <2> QED
    BY <2>1, LastEventIs, Zenon
<1>5. Data(b, 0, 0) = <<>> /\ ~(Len(<<>>) > MaxEventBytes)
  <2>1. 0 \in Nat /\ 0 <= Len(b) /\ ~(Len(<<>>) > MaxEventBytes)
    BY <1>0
  <2> QED
    BY <1>0, <2>1, NoData, Zenon
<1>6. Leaves(o, b)
  <2>1. LastBreak(b) = Len(b) /\ Data(b, LastBlank(b), Len(b)) = <<>>
    BY <1>0, <1>1, <1>5, Zenon
  <2> QED
    BY <1>0, <1>3, <1>4, <1>5, <2>1, LeavesAt, Zenon
<1> QED
  BY <1>6 DEF b

\* Whether an LF is to be skipped does not matter.
LEMMA LeavesSame ==
    ASSUME NEW o, NEW q, NEW a, Leaves(o, a),
           q.line = o.line, q.data = o.data, q.event = o.event,
           q.skipLine = o.skipLine, q.skipEvent = o.skipEvent
    PROVE  Leaves(q, a)
BY Zenon DEF Leaves

\* It begins with what no bytes leave.
LEMMA InitParse ==
    ASSUME ObserverAssumption, ObserverInit
    PROVE  ParseInv
<1>1. KeptInv /\ input = <<>> /\ state = "open"
  BY InitKept, Zenon
<1>2. /\ observer.line = <<>> /\ observer.data = <<>> /\ observer.event = <<>>
      /\ observer.skipLine = FALSE /\ observer.skipEvent = FALSE /\ observer.skipLF = FALSE
  BY DEF ObserverInit
<1>3. Leaves(observer, input)
  BY <1>1, <1>2, InitLeaves, Zenon
<1>4. ~EndsInCR(input)
  BY <1>1 DEF EndsInCR
<1> QED
  BY <1>1, <1>2, <1>3, <1>4 DEF ParseInv

\* Every step keeps it.
LEMMA StepParse ==
    ASSUME ObserverAssumption, ParseInv, [ObserverNext]_observerVars
    PROVE  ParseInv'
<1>1. /\ KeptInv /\ Kept(observer) /\ rest \in Seq(Tokens) /\ input \in Seq(Tokens)
      /\ (rest # <<>> => state = "open")
  BY DEF ParseInv, KeptInv
<1>2. KeptInv'
  BY <1>1, StepKept, Zenon
<1>3. state = "open" => Leaves(observer, input) /\ (observer.skipLF <=> EndsInCR(input))
  BY Zenon DEF ParseInv
<1> DEFINE o == [observer EXCEPT !.skipLF = FALSE]
<1>4. /\ Kept(o) /\ o.line = observer.line /\ o.data = observer.data
      /\ o.event = observer.event /\ o.skipLine = observer.skipLine
      /\ o.skipEvent = observer.skipEvent /\ o.skipLF = FALSE
  BY <1>1, ClearSkip, Zenon
<1> HIDE DEF o
<1>5. state = "open" => Leaves(o, input)
  BY <1>3, <1>4, LeavesSame, Zenon
<1>6. ASSUME state' = "open", Leaves(observer', input'),
             observer'.skipLF <=> EndsInCR(input')
      PROVE  ParseInv'
  <2>1. state' # "ended"
    BY <1>6
  <2> QED
    BY <1>2, <1>6, <2>1 DEF ParseInv, Leaves, EndsInCR
<1>7. ASSUME NEW p \in Reads, Read(p)
      PROVE  ParseInv'
  <2>1. observer' = observer /\ state' = state /\ input' = input
    BY <1>7, Zenon DEF Read
  <2> QED
    BY <1>2, <2>1 DEF ParseInv, Leaves, EndsInCR
<1>8. CASE SwallowLF
  <2>1. /\ observer' = o /\ input' = Append(input, "LF") /\ state' = state
        /\ rest # <<>> /\ observer.skipLF
    BY <1>8, Zenon DEF SwallowLF, o
  <2>2. state = "open" /\ state' = "open" /\ EndsInCR(input)
    BY <1>1, <1>3, <2>1
  <2>3. Leaves(o, Append(input, "LF"))
    BY <1>1, <1>3, <1>4, <2>2, SwallowLeaves, Zenon
  <2>4. ~EndsInCR(Append(input, "LF"))
    BY <1>1 DEF EndsInCR
  <2>5. Leaves(observer', input') /\ (observer'.skipLF <=> EndsInCR(input'))
    BY <1>4, <2>1, <2>3, <2>4
  <2> QED
    BY <1>6, <2>2, <2>5
<1>9. CASE KeepChunk
  <2>1. /\ observer' = TakeChunk(o, rest) /\ input' = input \o rest /\ state' = state
        /\ rest # <<>> /\ \A i \in 1..Len(rest) : rest[i] \notin LineBreaks
    BY <1>9, Zenon DEF KeepChunk, o
  <2>2. state = "open" /\ state' = "open"
    BY <1>1, <2>1
  <2>3. Leaves(TakeChunk(o, rest), input \o rest)
    BY <1>1, <1>4, <1>5, <2>1, <2>2, ChunkLeaves, Zenon
  <2>4. TakeChunk(o, rest).skipLF = FALSE
    BY <1>1, <1>4, TakeChunkKept, Zenon
  <2>5. ~EndsInCR(input \o rest)
    <3>1. Len(rest) \in 1..Len(rest)
      BY <1>1, <2>1
    <3>2. rest[Len(rest)] # "CR"
      BY <2>1, <3>1 DEF LineBreaks
    <3>3. Len(input \o rest) = Len(input) + Len(rest)
      BY <1>1
    <3>4. (input \o rest)[Len(input) + Len(rest)] = rest[Len(rest)]
      BY <1>1, <3>1, ConcatPrefix, Zenon
    <3> QED
      BY <3>2, <3>3, <3>4, Zenon DEF EndsInCR
  <2>6. Leaves(observer', input') /\ (observer'.skipLF <=> EndsInCR(input'))
    BY <2>1, <2>3, <2>4, <2>5
  <2> QED
    BY <1>6, <2>2, <2>6
<1>10. CASE CompleteLine
  <2>1. PICK n \in 1..Len(rest) :
            /\ rest[n] \in LineBreaks /\ \A i \in 1..(n - 1) : rest[i] \notin LineBreaks
            /\ observer' = EndLine(TakeChunk(o, SubSeq(rest, 1, n - 1)), rest[n])
            /\ input' = input \o SubSeq(rest, 1, n)
    BY <1>10, Zenon DEF CompleteLine, o
  <2>2. state' = state /\ rest # <<>> /\ ~(observer.skipLF /\ rest[1] = "LF")
    BY <1>10, Zenon DEF CompleteLine
  <2>3. state = "open" /\ state' = "open"
    BY <1>1, <2>2
  <2> DEFINE c == SubSeq(rest, 1, n - 1)
             a == input \o c
             q == TakeChunk(o, c)
             e == rest[n]
  <2>4. /\ c \in Seq(Tokens) /\ Len(c) = n - 1 /\ n - 1 \in Nat /\ e \in Tokens
        /\ \A i \in 1..(n - 1) : c[i] = rest[i]
    BY <1>1
  <2>5. input' = Append(a, e)
    <3>1. SubSeq(rest, 1, n) = Append(c, e)
      BY <1>1
    <3> HIDE DEF c, e
    <3>2. input \o Append(c, e) = Append(input \o c, e)
      BY <1>1, <2>4
    <3> QED
      BY <2>1, <3>1, <3>2
  <2> HIDE DEF c
  <2>6. \A i \in 1..Len(c) : c[i] \notin LineBreaks
    BY <2>1, <2>4
  <2>7. Leaves(q, a) /\ Kept(q)
    BY <1>4, <1>1, <1>5, <2>3, <2>4, <2>6, ChunkLeaves, TakeChunkKept, Zenon
  <2>8. /\ a \in Seq(Tokens) /\ Len(a) = Len(input) + Len(c) /\ Len(input) \in Nat
        /\ \A i \in 1..Len(c) : a[Len(input) + i] = c[i]
    <3>1. Len(input) \in Nat
      BY <1>1
    <3> QED
      BY <1>1, <2>4, <3>1, ConcatPrefix, Zenon
  <2>9. ~(EndsInCR(a) /\ e = "LF")
    <3>1. CASE n = 1
      <4>1. c = <<>>
        BY <2>4, <3>1
      <4>2. a = input
        BY <1>1, <4>1
      <4> QED
        BY <1>3, <2>2, <2>3, <3>1, <4>2
    <3>2. CASE n # 1
      <4>1. n - 1 \in 1..Len(c) /\ Len(a) = Len(input) + (n - 1)
        BY <2>4, <2>8, <3>2
      <4> HIDE DEF a
      <4>2. a[Len(a)] \notin LineBreaks
        BY <2>6, <2>8, <4>1
      <4> QED
        BY <4>2 DEF EndsInCR, LineBreaks
    <3> QED
      BY <3>1, <3>2
  <2> HIDE DEF q, a
  <2>10. Leaves(EndLine(q, e), Append(a, e))
    <3>1. e \in LineBreaks
      BY <2>1
    <3> HIDE DEF e
    <3> QED
      BY <2>7, <2>8, <2>9, <3>1, EndLeaves, Zenon
  <2>11. EndLine(q, e).skipLF = (e = "CR")
    <3> HIDE DEF e
    <3> QED
      BY <2>7, EndLineKept
  <2>12. EndsInCR(Append(a, e)) <=> e = "CR"
    <3>1. Len(Append(a, e)) = Len(a) + 1 /\ Append(a, e)[Len(a) + 1] = e /\ Len(a) + 1 # 0
      BY <2>4, <2>8
    <3> QED
      BY <3>1, Zenon DEF EndsInCR
  <2>13. observer' = EndLine(q, e)
    BY <2>1 DEF q, c
  <2>14. Leaves(observer', input') /\ (observer'.skipLF <=> EndsInCR(input'))
    <3> HIDE DEF e
    <3> QED
      BY <2>5, <2>10, <2>11, <2>12, <2>13
  <2> QED
    BY <1>6, <2>3, <2>14
<1>11. CASE ReadEnds
  <2>1. observer' = FinishEvent(observer) /\ state = "open" /\ state' = "ended" /\ input' = input
    BY <1>11, Zenon DEF ReadEnds
  <2>2. FinishEvent(observer).event = LastEvent(input \o <<"CR", "CR">>)
    BY <1>1, <1>3, <2>1, FinishIs, Zenon
  <2>3. observer'.event = LastEvent(input' \o <<"CR", "CR">>)
    BY <2>1, <2>2
  <2> QED
    BY <1>2, <2>1, <2>3 DEF ParseInv
<1>12. CASE ReleaseEvent
  <2>1. state' = "released"
    BY <1>12, Zenon DEF ReleaseEvent
  <2> QED
    BY <1>2, <2>1 DEF ParseInv
<1>13. CASE UNCHANGED observerVars
  BY <1>2, <1>13 DEF ParseInv, Leaves, EndsInCR, observerVars
<1> QED
  BY <1>7, <1>8, <1>9, <1>10, <1>11, <1>12, <1>13, Zenon DEF ObserverNext

\* However a response of any length is cut into reads of any length, its exchange has
\* the last event of the bytes read so far, and at the end of the body the one that is
\* not terminated. (eventObserver.write, consumeLine, consumeData, flush and finish)
THEOREM ObserverEvent == ObserverSpec => []EventIsLast
<1>1. ObserverInit => ParseInv
  BY ObserverAssumption, InitParse
<1>2. ParseInv /\ [ObserverNext]_observerVars => ParseInv'
  BY ObserverAssumption, StepParse
<1>3. ParseInv => EventIsLast
  <2> SUFFICES ASSUME ParseInv PROVE EventIsLast
    OBVIOUS
  <2>1. state = "open" => observer.event = LastEvent(input)
    BY LeavesFields, Zenon DEF ParseInv
  <2> QED
    BY <2>1, Zenon DEF ParseInv, EventIsLast
<1> QED
  BY <1>1, <1>2, <1>3, PTL DEF ObserverSpec
=============================================================================
