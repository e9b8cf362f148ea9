------------------------- MODULE ForwardStreamProofs -------------------------
(***************************************************************************)
(* Proofs about ForwardStream for every chunk size, window, number and     *)
(* size of writes, and every set of plugin verdicts.                       *)
(*                                                                         *)
(* The inductive invariant IInv says where each byte is.  The bytes        *)
(* 1..written are, in this order: delivered, held by the client (cpc =     *)
(* "write"), on the wire message after message, in the tail, and in the    *)
(* argument of the Write in progress.  Only a failed Send leaves a gap,    *)
(* and after it nothing is sent.                                           *)
(***************************************************************************)
EXTENDS ForwardStream, SequenceTheorems, TLAPS

\* s holds the consecutive bytes that follow byte a.
Run(s, a) == \A j \in 1..Len(s) : s[j] = a + j

Ended == pc \in {"ok", "error"}

Closing == completing /\ written > announced

\* What the streamWriter holds: the tail, then the rest of Write's argument.
WriterInv ==
    /\ swErr => completionTail = <<>> /\ ~InWrite
    /\ ~InWrite => data = <<>> /\ sendBytes = 0
    /\ Len(completionTail) + Len(data) <= written
    /\ Run(completionTail, SentSoFar)
    /\ Run(data, SentSoFar + Len(completionTail))
    /\ ~completing => completionTail = <<>>
    /\ Len(completionTail) <= ChunkSize
    /\ pc = "writeEmpty" => data = <<>> /\ sendBytes = 0 /\ ~completing
    /\ pc = "write" /\ ~completing => sendBytes = Len(data)
    /\ pc = "write" /\ completing =>
           sendBytes = Max2(0, Len(completionTail) + Len(data) - ChunkSize)
    /\ pc = "finish" \/ Ended => returned \in Returns

\* The client's bytes and where the wire begins and ends.
Base == Len(delivered) + (IF cpc = "write" THEN Len(chunk.data) ELSE 0)

End(m) == m.off + Len(m.data)

WireEnd == IF wire = <<>> THEN Base ELSE End(wire[Len(wire)])

\* The messages on the wire continue what the client has, without a gap.
WireInv ==
    cpc # "done" =>
        /\ wire # <<>> => wire[1].off = Base
        /\ \A i \in 1..Len(wire) - 1 : wire[i + 1].off = End(wire[i])
        /\ \A i \in 1..Len(wire) : /\ Run(wire[i].data, wire[i].off)
                                   /\ End(wire[i]) <= written

\* A healthy writer goes on where the wire ends.
JoinInv == cpc # "done" /\ ~swErr /\ ~Ended => WireEnd = SentSoFar

\* A message that carries the verdict ends the response.
FinalMsg(m) ==
    m.final # NoOutcome =>
        /\ Ended
        /\ End(m) = written
        /\ m.final.kind = returned.kind
        /\ m.final.usage = returned.usage

FinalInv ==
    cpc # "done" =>
        /\ \A i \in 1..Len(wire) : FinalMsg(wire[i])
        /\ cpc = "write" => FinalMsg(chunk)

ClientInv ==
    /\ cpc = "write" => /\ chunk.off = Len(delivered)
                        /\ Run(chunk.data, chunk.off)
                        /\ End(chunk) <= written
    /\ (cpc = "done") = (result # NoResult)
    /\ result # NoResult => (result.outcome # NoOutcome => Ended)

\* No message but the final one carries the last byte of a terminal event.
NotLast(m) == IF m.final = NoOutcome THEN End(m) < written ELSE m.off < written

TailInv ==
    Closing =>
        /\ cpc # "done" => /\ Len(delivered) < written
                           /\ \A i \in 1..Len(wire) : NotLast(wire[i])
        /\ cpc = "write" => NotLast(chunk)
        /\ cpc = "done" /\ result.outcome = NoOutcome => Len(delivered) < written
        /\ ~swErr /\ ~Ended => SentSoFar < written

IInv ==
    /\ TypeOK
    /\ WriterInv
    /\ WireInv
    /\ JoinInv
    /\ FinalInv
    /\ ClientInv
    /\ TailInv
    /\ OrderedDelivery
    /\ BoundedMessages
    /\ CompleteOnSuccess
    /\ PartialDeliveryIsTerminal
    /\ TerminalBytesCarryOutcome
-----------------------------------------------------------------------------
(* Sequences. *)

\* A prefix and the rest of a run of bytes.
LEMMA SplitRun ==
    ASSUME NEW s \in Seq(Nat), NEW n \in 0..Len(s), NEW a \in Int, Run(s, a)
    PROVE  /\ SubSeq(s, 1, n) \in Seq(Nat)
           /\ Len(SubSeq(s, 1, n)) = n
           /\ Run(SubSeq(s, 1, n), a)
           /\ SubSeq(s, n + 1, Len(s)) \in Seq(Nat)
           /\ Len(SubSeq(s, n + 1, Len(s))) = Len(s) - n
           /\ Run(SubSeq(s, n + 1, Len(s)), a + n)
<1> DEFINE p == SubSeq(s, 1, n)
           r == SubSeq(s, n + 1, Len(s))
<1>1. /\ p \in Seq(Nat) /\ Len(p) = n
      /\ \A i \in 1..n : p[i] = s[i]
  <2>1. \A i \in 1..n : s[i] \in Nat
    OBVIOUS
  <2> HIDE DEF p
  <2>2. /\ p \in Seq(Nat)
        /\ Len(p) = IF 1 <= n THEN n - 1 + 1 ELSE 0
        /\ \A i \in 1..(n - 1 + 1) : p[i] = s[1 + i - 1]
    BY <2>1, SubSeqProperties DEF p
  <2> QED
    BY <2>2
<1>2. /\ r \in Seq(Nat) /\ Len(r) = Len(s) - n
      /\ \A i \in 1..(Len(s) - n) : r[i] = s[n + i]
  <2>1. \A i \in (n + 1)..Len(s) : s[i] \in Nat
    OBVIOUS
  <2> HIDE DEF r
  <2>2. /\ r \in Seq(Nat)
        /\ Len(r) = IF n + 1 <= Len(s) THEN Len(s) - (n + 1) + 1 ELSE 0
        /\ \A i \in 1..(Len(s) - (n + 1) + 1) : r[i] = s[(n + 1) + i - 1]
    BY <2>1, SubSeqProperties DEF r
  <2> QED
    BY <2>2
<1> HIDE DEF p, r
<1>3. Run(p, a)
  BY <1>1 DEF Run
<1>4. Run(r, a + n)
  BY <1>2 DEF Run
<1> QED
  BY <1>1, <1>2, <1>3, <1>4 DEF p, r

\* Two adjoining runs make one.
LEMMA JoinRuns ==
    ASSUME NEW s \in Seq(Nat), NEW t \in Seq(Nat), NEW a \in Int,
           Run(s, a), Run(t, a + Len(s))
    PROVE  /\ s \o t \in Seq(Nat)
           /\ Len(s \o t) = Len(s) + Len(t)
           /\ Run(s \o t, a)
<1>1. /\ s \o t \in Seq(Nat)
      /\ Len(s \o t) = Len(s) + Len(t)
      /\ \A i \in 1..(Len(s) + Len(t)) :
             (s \o t)[i] = IF i <= Len(s) THEN s[i] ELSE t[i - Len(s)]
  BY ConcatProperties
<1> DEFINE u == s \o t
<1> HIDE DEF u
<1> QED
  BY <1>1 DEF Run

-----------------------------------------------------------------------------
(* Types. *)

\* Every verdict a message can carry is an outcome.
LEMMA OutcomeTypes ==
    ASSUME TypeOK, returned \in Returns
    PROVE  FinalOutcome \in Outcomes
  BY StreamAssumption DEF TypeOK, FinalOutcome, Outcomes, PluginReturns, Kinds

\* The verdict forwardStream makes of a broken stream is an outcome.
LEMMA AbortedType ==
    ASSUME NEW o \in Outcomes
    PROVE  /\ AbortedOutcome(o) \in Outcomes
           /\ AbortedOutcome(o).kind = "StreamAborted"
           /\ AbortedOutcome(o).scope = "Terminal"
           /\ AbortedOutcome(o).usage = o.usage
  BY DEF AbortedOutcome, Outcomes, Kinds

\* What forwardStream returns is an outcome with an error flag.
LEMMA ResultType ==
    ASSUME NEW o \in Outcomes \cup {NoOutcome}, NEW e \in BOOLEAN
    PROVE  /\ [outcome |-> o, err |-> e]
                 \in [outcome : Outcomes \cup {NoOutcome}, err : BOOLEAN]
           /\ [outcome |-> o, err |-> e] # NoResult
           /\ [outcome |-> o, err |-> e].outcome = o
           /\ [outcome |-> o, err |-> e].err = e
<1>1. CASE o \in Outcomes
  BY <1>1, StreamAssumption
<1>2. CASE o = NoOutcome
  BY <1>2, StreamAssumption
<1> QED
  BY <1>1, <1>2

\* What has been sent so far is a number.
LEMMA SentSoFarType ==
    ASSUME TypeOK, WriterInv
    PROVE  SentSoFar \in Nat /\ SentSoFar <= written
  BY DEF TypeOK, WriterInv, SentSoFar

\* A message is a message.
LEMMA MessageType ==
    ASSUME NEW m \in Messages
    PROVE  /\ m.off \in Nat /\ m.code \in Nat
           /\ m.data \in Seq(Nat) /\ Len(m.data) \in Nat
           /\ m.final \in Outcomes \cup {NoOutcome}
           /\ End(m) \in Nat /\ End(m) = m.off + Len(m.data)
<1>1. /\ m.off \in Nat /\ m.code \in Nat
      /\ m.data \in Seq(Nat) /\ Len(m.data) \in Nat
      /\ m.final \in Outcomes \cup {NoOutcome}
  BY DEF Messages
<1> QED
  BY <1>1 DEF End

-----------------------------------------------------------------------------
(* Sending. *)

\* What a step that sends m, or fails to, does to the wire.
Sends(m) == wire' = wire \/ wire' = Append(wire, m)

\* m continues the response where the writer stands, and what is left of the
\* writer after the step continues m.
Piece(m) ==
    /\ m \in Messages
    /\ Sends(m)
    /\ m.off = SentSoFar
    /\ Run(m.data, m.off)
    /\ Len(m.data) <= ChunkSize
    /\ End(m) <= written
    /\ Closing => NotLast(m)
    /\ ~swErr' /\ ~Ended' => wire' = Append(wire, m) /\ SentSoFar' = End(m)
    /\ m.final # NoOutcome => Ended' /\ FinalMsg(m)'

\* The effect of each sending step on the writer.
Healthy == ~swErr /\ ~Ended

SendStep == FlushMeta \/ SendTail \/ SendData \/ SendEmpty \/ SendFinal

\* The message with the headers takes no byte from tail or data.
LEMMA FlushMetaPiece ==
    ASSUME TypeOK, WriterInv, TailInv, FlushMeta
    PROVE  \E m \in Messages : Piece(m)
<1> DEFINE c == IF code = 0 THEN 200 ELSE code
<1>1. c \in Nat
  BY DEF TypeOK
<1> HIDE DEF c
<1>2. /\ Meta \in Messages /\ Meta.off = SentSoFar
      /\ Meta.data = <<>> /\ Meta.final = NoOutcome /\ SentSoFar \in Nat
  BY <1>1, SentSoFarType DEF Meta, c, Chunk, Messages
<1>3. Sends(Meta)
  BY DEF FlushMeta, Sends, SendOK, SendFails
<1>4. /\ Run(Meta.data, Meta.off) /\ End(Meta) = SentSoFar
      /\ Len(Meta.data) <= ChunkSize
  BY <1>2, StreamAssumption DEF Run, End
<1>5. SentSoFar <= written
  BY <1>2 DEF SentSoFar, TypeOK
<1>6. ~swErr /\ ~Ended
  BY DEF FlushMeta, InWrite, Ended
<1>7. Closing => NotLast(Meta)
  BY <1>2, <1>4, <1>6 DEF TailInv, NotLast
<1>8. ~swErr' => wire' = Append(wire, Meta) /\ SentSoFar' = SentSoFar
  BY DEF FlushMeta, AbandonWrite, Fail, SendOK, SentSoFar, writeFrame
<1> QED
  BY <1>2, <1>3, <1>4, <1>5, <1>7, <1>8 DEF Piece

\* A chunk that fills the tail from data takes the next bytes in order.
LEMMA SendTailPiece ==
    ASSUME TypeOK, WriterInv, SendTail
    PROVE  \E m \in Messages : Piece(m)
<1> DEFINE n == Min2(sendBytes, Len(completionTail))
           m == Chunk(0, SubSeq(completionTail, 1, n), NoOutcome)
<1>1. /\ n \in 1..Len(completionTail) /\ n <= sendBytes
      /\ sendBytes = Len(completionTail) + Len(data) - ChunkSize
  BY DEF SendTail, Min2, Max2, TypeOK, WriterInv
<1>2. \/ /\ wire' = Append(wire, m)
         /\ completionTail' = SubSeq(completionTail, n + 1, Len(completionTail))
         /\ data' = data /\ written' = written
      \/ swErr' /\ Sends(m)
  BY DEF SendTail, SendOK, SendFails, AbandonWrite, Fail, Sends, writeFrame
<1>3. Sends(m)
  BY <1>2 DEF Sends
<1> HIDE DEF n
<1>4. SentSoFar \in Int /\ Run(completionTail, SentSoFar)
  BY DEF SentSoFar, TypeOK, WriterInv
<1>5. /\ SubSeq(completionTail, 1, n) \in Seq(Nat)
      /\ Len(SubSeq(completionTail, 1, n)) = n
      /\ Run(SubSeq(completionTail, 1, n), SentSoFar)
      /\ Len(SubSeq(completionTail, n + 1, Len(completionTail)))
             = Len(completionTail) - n
  <2>1. completionTail \in Seq(Nat) /\ n \in 0..Len(completionTail)
    BY <1>1 DEF TypeOK
  <2> QED
    BY <2>1, <1>4, SplitRun
<1>6. /\ m \in Messages /\ m.off = SentSoFar /\ SentSoFar \in Nat
      /\ m.data = SubSeq(completionTail, 1, n) /\ m.final = NoOutcome
  BY <1>5, SentSoFarType DEF Chunk, Messages
<1> HIDE DEF m
<1>7. /\ Run(m.data, m.off) /\ Len(m.data) = n /\ End(m) = SentSoFar + n
  BY <1>5, <1>6 DEF End
<1>8. n <= ChunkSize /\ SentSoFar + n < written
  BY <1>1, <1>6, StreamAssumption DEF WriterInv, TypeOK, SentSoFar
<1>9. ~swErr' => wire' = Append(wire, m) /\ SentSoFar' = SentSoFar + n
  <2> SUFFICES ASSUME ~swErr' PROVE wire' = Append(wire, m)
                                    /\ SentSoFar' = SentSoFar + n
    OBVIOUS
  <2>1. Len(completionTail') + Len(data') = Len(completionTail) + Len(data) - n
    <3>1. CASE swErr' /\ Sends(m)
      BY <3>1
    <3>2. CASE ~(swErr' /\ Sends(m))
      <4>1. Len(completionTail') = Len(completionTail) - n /\ data' = data
        BY <3>2, <1>2, <1>5, Zenon
      <4> QED
        BY <4>1, <1>1 DEF TypeOK
    <3> QED
      BY <3>1, <3>2
  <2>2. /\ written' = written /\ wire' = Append(wire, m)
        /\ Len(completionTail') \in Nat /\ Len(data') \in Nat
    BY <1>1, <1>2, <1>5 DEF TypeOK
  <2>3. /\ written \in Nat /\ n \in Nat
        /\ Len(completionTail) \in Nat /\ Len(data) \in Nat
    BY <1>1 DEF TypeOK
  <2> QED
    BY <2>1, <2>2, <2>3 DEF SentSoFar
<1> QED
  <2>1. Closing => NotLast(m)
    BY <1>6, <1>7, <1>8 DEF NotLast
  <2>2. End(m) <= written
    BY <1>6, <1>7, <1>8, <1>1 DEF TypeOK
  <2> QED
    BY <1>3, <1>6, <1>7, <1>8, <1>9, <2>1, <2>2 DEF Piece

\* A chunk of data takes the next bytes and leaves a tail for later.
LEMMA SendDataPiece ==
    ASSUME TypeOK, WriterInv, SendData
    PROVE  \E m \in Messages : Piece(m)
<1> DEFINE n == Min2(sendBytes, ChunkSize)
           m == Chunk(0, SubSeq(data, 1, n), NoOutcome)
<1>1. /\ n \in 1..Len(data) /\ n <= ChunkSize
      /\ completing => n < Len(data)
      /\ completionTail = <<>>
  <2>1. Len(completionTail) = 0 => completionTail = <<>>
    BY EmptySeq DEF TypeOK
  <2>2. completionTail = <<>>
    BY <2>1 DEF SendData, TailSent, Min2, TypeOK, WriterInv
  <2>3. Len(completionTail) = 0
    BY <2>2
  <2>4. sendBytes > 0 /\ sendBytes <= Len(data) /\ sendBytes \in Nat
    BY <2>3, StreamAssumption DEF SendData, Max2, TypeOK, WriterInv
  <2>5. completing => sendBytes < Len(data)
    BY <2>3, StreamAssumption DEF SendData, Max2, TypeOK, WriterInv
  <2> QED
    BY <2>2, <2>4, <2>5, StreamAssumption DEF Min2, TypeOK
<1>2. \/ /\ wire' = Append(wire, m)
         /\ data' = SubSeq(data, n + 1, Len(data))
         /\ completionTail' = completionTail /\ written' = written
      \/ swErr' /\ Sends(m)
  BY DEF SendData, SendOK, SendFails, AbandonWrite, Fail, Sends, writeFrame
<1>3. Sends(m)
  BY <1>2 DEF Sends
<1> HIDE DEF n
<1>4. SentSoFar \in Int /\ Run(data, SentSoFar)
  BY <1>1 DEF SentSoFar, TypeOK, WriterInv
<1>5. /\ SubSeq(data, 1, n) \in Seq(Nat)
      /\ Len(SubSeq(data, 1, n)) = n
      /\ Run(SubSeq(data, 1, n), SentSoFar)
      /\ Len(SubSeq(data, n + 1, Len(data))) = Len(data) - n
  <2>1. data \in Seq(Nat) /\ n \in 0..Len(data)
    BY <1>1 DEF TypeOK
  <2> QED
    BY <2>1, <1>4, SplitRun
<1>6. /\ m \in Messages /\ m.off = SentSoFar /\ SentSoFar \in Nat
      /\ m.data = SubSeq(data, 1, n) /\ m.final = NoOutcome
  BY <1>5, SentSoFarType DEF Chunk, Messages
<1> HIDE DEF m
<1>7. /\ Run(m.data, m.off) /\ Len(m.data) = n /\ End(m) = SentSoFar + n
  BY <1>5, <1>6 DEF End
<1>8. /\ SentSoFar + n <= written
      /\ Closing => SentSoFar + n < written
  BY <1>1, <1>6 DEF Closing, TypeOK, SentSoFar
<1>9. ~swErr' => wire' = Append(wire, m) /\ SentSoFar' = SentSoFar + n
  <2> SUFFICES ASSUME ~swErr' PROVE wire' = Append(wire, m)
                                    /\ SentSoFar' = SentSoFar + n
    OBVIOUS
  <2>1. Len(completionTail') + Len(data') = Len(completionTail) + Len(data) - n
    <3>1. CASE swErr' /\ Sends(m)
      BY <3>1
    <3>2. CASE ~(swErr' /\ Sends(m))
      BY <3>2, <1>1, <1>2, <1>5 DEF TypeOK
    <3> QED
      BY <3>1, <3>2
  <2>2. /\ written' = written /\ wire' = Append(wire, m)
        /\ Len(completionTail') \in Nat /\ Len(data') \in Nat
    BY <1>1, <1>2, <1>5 DEF TypeOK
  <2>3. /\ written \in Nat /\ n \in Nat
        /\ Len(completionTail) \in Nat /\ Len(data) \in Nat
    BY <1>1 DEF TypeOK
  <2> QED
    BY <2>1, <2>2, <2>3 DEF SentSoFar
<1> QED
  BY <1>1, <1>3, <1>6, <1>7, <1>8, <1>9 DEF Piece, NotLast

\* A Write without bytes sends none.
LEMMA SendEmptyPiece ==
    ASSUME TypeOK, WriterInv, TailInv, SendEmpty
    PROVE  \E m \in Messages : Piece(m)
<1> DEFINE m == Chunk(0, <<>>, NoOutcome)
<1>1. /\ m \in Messages /\ m.off = SentSoFar
      /\ m.data = <<>> /\ m.final = NoOutcome
  BY SentSoFarType DEF Chunk, Messages
<1>2. Sends(m)
  BY DEF SendEmpty, Sends, SendOK, SendFails
<1>3. ~swErr' => wire' = Append(wire, m) /\ SentSoFar' = SentSoFar
  BY DEF SendEmpty, AbandonWrite, Fail, SendOK, SentSoFar, writeFrame
<1> HIDE DEF m
<1>4. /\ Run(m.data, m.off) /\ End(m) = SentSoFar
      /\ Len(m.data) <= ChunkSize
  BY <1>1, SentSoFarType, StreamAssumption DEF Run, End
<1>5. Closing => NotLast(m)
  BY <1>1, <1>4 DEF TailInv, NotLast, SendEmpty, Ended, WriterInv, InWrite
<1> QED
  BY <1>1, <1>2, <1>3, <1>4, <1>5, SentSoFarType DEF Piece

\* The last message takes the tail.
LEMMA SendFinalPiece ==
    ASSUME TypeOK, WriterInv, TailInv, SendFinal
    PROVE  \E m \in Messages : Piece(m)
<1> DEFINE final == Chunk(0, FinalData, FinalOutcome)
<1>1. /\ returned \in Returns /\ data = <<>> /\ ~swErr /\ ~Ended
  BY DEF SendFinal, WriterInv, HandlerFails, InWrite, Ended
<1>2. FinalOutcome \in Outcomes
  BY <1>1, OutcomeTypes
<1>a. /\ final \in Messages /\ final.off = SentSoFar
      /\ final.data = completionTail /\ final.final = FinalOutcome
  BY <1>2, SentSoFarType DEF Chunk, Messages, FinalData, TypeOK
<1>b. PICK m \in Messages : m = final
  BY <1>a
<1>3. /\ m.off = SentSoFar
      /\ m.data = completionTail /\ m.final = FinalOutcome
  BY <1>a, <1>b, Zenon
<1>4. Sends(m) /\ Ended'
  BY <1>b DEF SendFinal, Sends, SendOK, SendFails, Ended
<1>5. written' = written /\ returned' = returned
  BY DEF SendFinal, handlerFrame
<1> HIDE DEF final
<1>6. End(m) = written
  BY <1>1, <1>3 DEF End, SentSoFar, TypeOK
<1>7. Run(m.data, m.off) /\ Len(m.data) <= ChunkSize
  BY <1>3 DEF WriterInv
<1>8. m.final # NoOutcome
  BY <1>2, <1>3, StreamAssumption
<1>9. Closing => NotLast(m)
  BY <1>1, <1>3, <1>8 DEF TailInv, NotLast
<1>10. FinalMsg(m)'
  <2>1. m.final.kind = returned.kind /\ m.final.usage = returned.usage
    <3>1. /\ FinalOutcome.kind = returned.kind
          /\ FinalOutcome.usage = returned.usage
      BY DEF FinalOutcome
    <3> QED
      BY <3>1, <1>3, Zenon
  <2> QED
    BY <2>1, <1>4, <1>5, <1>6 DEF FinalMsg, End
<1>11. End(m) <= written
  BY <1>6 DEF TypeOK
<1> QED
  BY <1>3, <1>4, <1>7, <1>9, <1>10, <1>11 DEF Piece

\* A sending step keeps the messages in order and joined to the writer.
LEMMA SendKeeps ==
    ASSUME TypeOK, WireInv, JoinInv, FinalInv, TailInv, BoundedMessages, Healthy,
           NEW m \in Messages, Piece(m),
           UNCHANGED <<cpc, chunk, delivered, written, announced, completing>>,
           UNCHANGED returned \/ Healthy'
    PROVE  /\ wire' \in Seq(Messages)
           /\ WireInv'
           /\ JoinInv'
           /\ \A i \in 1..Len(wire') : Len(wire'[i].data) <= ChunkSize
           /\ cpc' # "done" =>
                  /\ (\A i \in 1..Len(wire) : FinalMsg(wire[i]))'
                  /\ Closing' => (\A i \in 1..Len(wire) : NotLast(wire[i]))'
<1> USE DEF Healthy
<1>a. Base' = Base
  BY DEF Base
<1>1. CASE wire' = wire /\ ~Healthy'
  <2>1. UNCHANGED returned
    BY <1>1
  <2>2. WireInv'
    BY <1>1, <1>a DEF WireInv, End
  <2>3. JoinInv'
    BY <1>1 DEF JoinInv
  <2>4. cpc' # "done" => (\A i \in 1..Len(wire) : FinalMsg(wire[i]))'
    BY <1>1 DEF FinalInv, FinalMsg
  <2>5. cpc' # "done" /\ Closing' => (\A i \in 1..Len(wire) : NotLast(wire[i]))'
    BY <1>1 DEF TailInv, NotLast, Closing, End
  <2> QED
    BY <1>1, <2>2, <2>3, <2>4, <2>5 DEF BoundedMessages, TypeOK
<1>2. CASE wire' = Append(wire, m)
  <2>1. /\ Len(wire') = Len(wire) + 1 /\ Len(wire) \in Nat /\ wire' # <<>>
        /\ wire' \in Seq(Messages)
        /\ \A i \in 1..Len(wire) : wire'[i] = wire[i]
        /\ wire'[Len(wire')] = m
    <3>1. wire \in Seq(Messages)
      BY DEF TypeOK
    <3>2. /\ Append(wire, m) # <<>> /\ Append(wire, m) \in Seq(Messages)
          /\ Len(Append(wire, m)) = Len(wire) + 1
          /\ \A i \in 1..Len(wire) : Append(wire, m)[i] = wire[i]
          /\ Append(wire, m)[Len(wire) + 1] = m
      BY <3>1, AppendProperties
    <3> QED
      BY <1>2, <3>1, <3>2
  <2>2. \A i \in 1..Len(wire') : i \in 1..Len(wire) \/ i = Len(wire')
    BY <2>1
  <2>3. WireInv'
    <3> SUFFICES ASSUME cpc # "done"
                 PROVE  (/\ wire # <<>> => wire[1].off = Base
                         /\ \A i \in 1..Len(wire) - 1 :
                                wire[i + 1].off = End(wire[i])
                         /\ \A i \in 1..Len(wire) :
                                /\ Run(wire[i].data, wire[i].off)
                                /\ End(wire[i]) <= written)'
      BY DEF WireInv
    <3>1. m.off = WireEnd
      BY DEF JoinInv, Piece
    <3>2. wire'[1].off = Base'
      <4>1. CASE wire = <<>>
        BY <4>1, <3>1, <2>1, <1>a DEF WireEnd
      <4>2. CASE wire # <<>>
        <5>1. 1 \in 1..Len(wire)
          BY <4>2, <2>1, EmptySeq DEF TypeOK
        <5> QED
          BY <5>1, <4>2, <2>1, <1>a DEF WireInv
      <4> QED
        BY <4>1, <4>2
    <3>3. ASSUME NEW i \in 1..Len(wire') - 1
          PROVE  wire'[i + 1].off = End(wire'[i])
      <4>1. i \in 1..Len(wire)
        BY <2>1
      <4>2. CASE i = Len(wire)
        BY <4>1, <4>2, <3>1, <2>1 DEF WireEnd
      <4>3. CASE i # Len(wire)
        BY <4>1, <4>3, <2>1 DEF WireInv
      <4> QED
        BY <4>2, <4>3
    <3>4. ASSUME NEW i \in 1..Len(wire')
          PROVE  /\ Run(wire'[i].data, wire'[i].off)
                 /\ End(wire'[i]) <= written
      BY <2>1, <2>2 DEF WireInv, Piece
    <3> QED
      BY <3>2, <3>3, <3>4 DEF End, Run
  <2>4. JoinInv'
    BY <2>1 DEF JoinInv, WireEnd, Piece, End
  <2>5. \A i \in 1..Len(wire') : Len(wire'[i].data) <= ChunkSize
    BY <2>1, <2>2 DEF BoundedMessages, Piece
  <2>6. cpc' # "done" => (\A i \in 1..Len(wire) : FinalMsg(wire[i]))'
    BY <2>1, <2>2 DEF FinalInv, FinalMsg, Piece
  <2>7. cpc' # "done" /\ Closing' => (\A i \in 1..Len(wire) : NotLast(wire[i]))'
    BY <2>1, <2>2 DEF TailInv, NotLast, Closing, End, Piece
  <2> QED
    BY <2>1, <2>3, <2>4, <2>5, <2>6, <2>7
<1> QED
  BY <1>1, <1>2 DEF Piece, Sends

-----------------------------------------------------------------------------
(* The writer after each sending step. *)

\* A failed Send leaves the invariant: the writer is no longer healthy.
LEMMA AbandonKeeps ==
    ASSUME TypeOK, WriterInv, AbandonWrite, InWrite \/ pc = "finish",
           UNCHANGED <<written, completing, returned>>
    PROVE  /\ WriterInv'
           /\ completionTail' \in Seq(Nat) /\ data' \in Seq(Nat)
           /\ sendBytes' \in Nat
           /\ pc' \in {"plugin", "error"}
<1>1. /\ swErr' /\ completionTail' = <<>> /\ data' = <<>> /\ sendBytes' = 0
      /\ pc' \in {"plugin", "error"}
      /\ pc' = "error" => pc = "finish"
  BY DEF AbandonWrite, Fail, InWrite
<1>2. Len(completionTail') = 0 /\ Len(data') = 0
  BY <1>1
<1>3. Run(completionTail, SentSoFar)' /\ Run(data, SentSoFar + Len(completionTail))'
  BY <1>2 DEF Run
<1> QED
  BY <1>1, <1>2, <1>3, StreamAssumption DEF WriterInv, InWrite, Ended, TypeOK

\* The writer after its headers are sent.
LEMMA FlushMetaWriter ==
    ASSUME TypeOK, WriterInv, FlushMeta
    PROVE  /\ WriterInv'
           /\ completionTail' \in Seq(Nat) /\ data' \in Seq(Nat)
           /\ sendBytes' \in Nat
           /\ pc' \in {"write", "writeEmpty", "finish", "plugin", "error"}
<1>1. /\ UNCHANGED <<written, completing, returned>>
      /\ InWrite \/ pc = "finish"
  BY DEF FlushMeta, writeFrame
<1>2. CASE AbandonWrite
  BY <1>1, <1>2, AbandonKeeps
<1>3. CASE UNCHANGED <<completionTail, swErr, data, sendBytes, pc>>
  BY <1>1, <1>3 DEF WriterInv, TypeOK, InWrite, Ended, SentSoFar, Run
<1> QED
  BY <1>2, <1>3 DEF FlushMeta

\* The writer after a chunk that began with the tail.
LEMMA SendTailWriter ==
    ASSUME TypeOK, WriterInv, SendTail
    PROVE  /\ WriterInv'
           /\ completionTail' \in Seq(Nat) /\ data' \in Seq(Nat)
           /\ sendBytes' \in Nat
           /\ pc' \in {"write", "plugin", "error"}
<1>1. /\ UNCHANGED <<written, completing, returned>>
      /\ InWrite /\ pc = "write" /\ completing
  BY DEF SendTail, writeFrame, InWrite
<1>2. CASE AbandonWrite
  BY <1>1, <1>2, AbandonKeeps
<1>3. CASE ~AbandonWrite
  <2> DEFINE n == Min2(sendBytes, Len(completionTail))
  <2>1. /\ n \in 1..Len(completionTail) /\ n <= sendBytes
        /\ sendBytes = Len(completionTail) + Len(data) - ChunkSize
    BY DEF SendTail, Min2, Max2, TypeOK, WriterInv
  <2>a. completionTail' = SubSeq(completionTail, n + 1, Len(completionTail))
    BY <1>3 DEF SendTail
  <2>2. sendBytes' = sendBytes - n /\ UNCHANGED <<swErr, data, pc>>
    BY <1>3 DEF SendTail
  <2> HIDE DEF n
  <2>3. /\ completionTail' \in Seq(Nat)
        /\ Len(completionTail') = Len(completionTail) - n
        /\ Run(completionTail', SentSoFar + n)
    <3>1. /\ completionTail \in Seq(Nat) /\ n \in 0..Len(completionTail)
          /\ SentSoFar \in Int /\ Run(completionTail, SentSoFar)
      BY <2>1, SentSoFarType DEF TypeOK, WriterInv
    <3> QED
      BY <3>1, <2>a, SplitRun
  <2>4. SentSoFar' = SentSoFar + n /\ SentSoFar \in Nat
    BY <1>1, <2>1, <2>2, <2>3, SentSoFarType DEF SentSoFar, TypeOK
  <2>5. Run(completionTail, SentSoFar)'
    BY <2>3, <2>4 DEF Run
  <2>6. SentSoFar' + Len(completionTail') = SentSoFar + Len(completionTail)
    BY <2>1, <2>3, <2>4 DEF TypeOK
  <2>7. Run(data, SentSoFar + Len(completionTail))'
    BY <2>2, <2>6 DEF Run, WriterInv
  <2> QED
    <3>1. /\ Len(completionTail') + Len(data') <= written'
          /\ Len(completionTail') <= ChunkSize
          /\ sendBytes' = Max2(0, Len(completionTail') + Len(data') - ChunkSize)
          /\ sendBytes' \in Nat
      <4>1. /\ Len(completionTail) \in Nat /\ Len(data) \in Nat
            /\ written \in Nat /\ ChunkSize \in Nat /\ sendBytes \in Nat
            /\ Len(completionTail) + Len(data) <= written
            /\ Len(completionTail) <= ChunkSize
        BY StreamAssumption DEF WriterInv, TypeOK
      <4>2. data' = data /\ written' = written /\ sendBytes' = sendBytes - n
        BY <1>1, <2>2
      <4> QED
        BY <2>1, <2>3, <4>1, <4>2 DEF Max2
    <3> QED
      BY <1>1, <2>2, <2>3, <2>5, <2>7, <3>1 DEF WriterInv, InWrite, Ended, TypeOK
<1> QED
  BY <1>2, <1>3

\* The writer after a chunk of data.
LEMMA SendDataWriter ==
    ASSUME TypeOK, WriterInv, SendData
    PROVE  /\ WriterInv'
           /\ completionTail' \in Seq(Nat) /\ data' \in Seq(Nat)
           /\ sendBytes' \in Nat
           /\ pc' \in {"write", "plugin", "error"}
<1>1. /\ UNCHANGED <<written, completing, returned>>
      /\ InWrite /\ pc = "write"
  BY DEF SendData, writeFrame, InWrite
<1>2. CASE AbandonWrite
  BY <1>1, <1>2, AbandonKeeps
<1>3. CASE ~AbandonWrite
  <2> DEFINE n == Min2(sendBytes, ChunkSize)
  <2>1. completionTail = <<>>
    <3>1. Len(completionTail) = 0 => completionTail = <<>>
      BY EmptySeq DEF TypeOK
    <3> QED
      BY <3>1 DEF SendData, TailSent, Min2, TypeOK, WriterInv
  <2>2. Len(completionTail) = 0
    BY <2>1
  <2>3. sendBytes > 0 /\ sendBytes <= Len(data) /\ sendBytes \in Nat
    BY <2>2, StreamAssumption DEF SendData, Max2, TypeOK, WriterInv
  <2>4. n \in 1..Len(data) /\ n <= sendBytes
    BY <2>3, StreamAssumption DEF Min2, TypeOK
  <2>a. data' = SubSeq(data, n + 1, Len(data))
    BY <1>3 DEF SendData
  <2>5. sendBytes' = sendBytes - n /\ UNCHANGED <<swErr, completionTail, pc>>
    BY <1>3 DEF SendData
  <2> HIDE DEF n
  <2>6. /\ data' \in Seq(Nat)
        /\ Len(data') = Len(data) - n
        /\ Run(data', SentSoFar + n)
    <3>1. /\ data \in Seq(Nat) /\ n \in 0..Len(data)
          /\ SentSoFar \in Int /\ Run(data, SentSoFar)
      BY <2>2, <2>4, SentSoFarType DEF TypeOK, WriterInv
    <3> QED
      BY <3>1, <2>a, SplitRun
  <2>7. SentSoFar' = SentSoFar + n /\ SentSoFar \in Nat
    BY <1>1, <2>4, <2>5, <2>6, SentSoFarType DEF SentSoFar, TypeOK
  <2>8. Run(data, SentSoFar + Len(completionTail))'
    BY <2>2, <2>4, <2>5, <2>6, <2>7 DEF Run
  <2>9. Run(completionTail, SentSoFar)'
    BY <2>2, <2>5 DEF Run
  <2>10. /\ Len(completionTail') + Len(data') <= written'
         /\ Len(completionTail') <= ChunkSize
         /\ sendBytes' \in Nat
         /\ completing => sendBytes' = Max2(0, Len(completionTail') + Len(data')
                                                 - ChunkSize)
         /\ ~completing => sendBytes' = Len(data')
    BY <1>1, <2>2, <2>3, <2>4, <2>5, <2>6, StreamAssumption
       DEF WriterInv, TypeOK, Max2
  <2> QED
    BY <1>1, <2>1, <2>5, <2>6, <2>8, <2>9, <2>10
       DEF WriterInv, InWrite, Ended, TypeOK
<1> QED
  BY <1>2, <1>3

\* The writer after a Write without bytes.
LEMMA SendEmptyWriter ==
    ASSUME TypeOK, WriterInv, SendEmpty
    PROVE  /\ WriterInv'
           /\ completionTail' \in Seq(Nat) /\ data' \in Seq(Nat)
           /\ sendBytes' \in Nat
           /\ pc' \in {"plugin", "error"}
<1>1. /\ UNCHANGED <<written, completing, returned>>
      /\ InWrite /\ pc = "writeEmpty"
  BY DEF SendEmpty, writeFrame, InWrite
<1>2. CASE AbandonWrite
  BY <1>1, <1>2, AbandonKeeps
<1>3. CASE ~AbandonWrite
  <2>1. pc' = "plugin" /\ UNCHANGED <<completionTail, swErr, data, sendBytes>>
    BY <1>3 DEF SendEmpty
  <2> QED
    BY <1>1, <2>1 DEF WriterInv, TypeOK, InWrite, Ended, SentSoFar, Run
<1> QED
  BY <1>2, <1>3

\* The writer after the last message.
LEMMA SendFinalWriter ==
    ASSUME TypeOK, WriterInv, SendFinal
    PROVE  /\ WriterInv'
           /\ completionTail' \in Seq(Nat) /\ data' \in Seq(Nat)
           /\ sendBytes' \in Nat
           /\ pc' \in {"ok", "error"}
<1>1. /\ UNCHANGED <<written, completing, returned, completionTail, data,
                     sendBytes, swErr>>
      /\ pc = "finish" /\ pc' \in {"ok", "error"}
  BY DEF SendFinal, handlerFrame, writerVars
<1> QED
  BY <1>1 DEF WriterInv, TypeOK, InWrite, Ended, SentSoFar, Run

\* A Send that appends the next bytes to the wire keeps the invariant.
LEMMA SendStepKeeps ==
    ASSUME IInv, SendStep
    PROVE  IInv'
<1> USE DEF IInv
<1>1. PICK m \in Messages : Piece(m)
  BY FlushMetaPiece, SendTailPiece, SendDataPiece, SendEmptyPiece,
     SendFinalPiece DEF SendStep
<1>2. /\ WriterInv'
      /\ completionTail' \in Seq(Nat) /\ data' \in Seq(Nat)
      /\ sendBytes' \in Nat
      /\ pc' \in {"plugin", "write", "writeEmpty", "finish", "ok", "error"}
  <2>1. CASE FlushMeta
    BY <2>1, FlushMetaWriter
  <2>2. CASE SendTail
    BY <2>2, SendTailWriter
  <2>3. CASE SendData
    BY <2>3, SendDataWriter
  <2>4. CASE SendEmpty
    BY <2>4, SendEmptyWriter
  <2>5. CASE SendFinal
    BY <2>5, SendFinalWriter
  <2> QED
    BY <2>1, <2>2, <2>3, <2>4, <2>5 DEF SendStep
<1>3. UNCHANGED <<code, wroteHeader, completing, returned, writes, broken, cpc,
                  chunk, responseStarted, status, delivered, result, written,
                  announced>>
  BY DEF SendStep, FlushMeta, SendTail, SendData, SendEmpty, SendFinal,
         writeFrame, handlerFrame, writerVars, clientVars
<1>4. Healthy
  BY DEF SendStep, FlushMeta, SendTail, SendData, SendEmpty, SendFinal, InWrite,
         Healthy, Ended, WriterInv, HandlerFails
<1>5. sent' \in BOOLEAN /\ swErr' \in BOOLEAN
  BY Zenon DEF SendStep, FlushMeta, SendTail, SendData, SendEmpty, SendFinal,
         AbandonWrite, Fail, handlerFrame, writerVars, TypeOK
<1>6. /\ wire' \in Seq(Messages)
      /\ WireInv'
      /\ JoinInv'
      /\ \A i \in 1..Len(wire') : Len(wire'[i].data) <= ChunkSize
      /\ cpc' # "done" =>
             /\ (\A i \in 1..Len(wire) : FinalMsg(wire[i]))'
             /\ Closing' => (\A i \in 1..Len(wire) : NotLast(wire[i]))'
  <2>1. UNCHANGED <<cpc, chunk, delivered, written, announced, completing>>
        /\ UNCHANGED returned
    BY <1>3
  <2> QED
    BY <1>1, <1>4, <2>1, SendKeeps
<1>7. TypeOK'
  BY <1>2, <1>3, <1>5, <1>6 DEF TypeOK
<1>8. /\ cpc = "write" => chunk.final = NoOutcome
      /\ result # NoResult => result.outcome = NoOutcome
  BY <1>4 DEF Healthy, FinalInv, FinalMsg, ClientInv
<1>9. FinalInv'
  BY <1>3, <1>6, <1>8 DEF FinalInv, FinalMsg
<1>10. ClientInv'
  BY <1>3, <1>8 DEF ClientInv, Run, End
<1>11. TailInv'
  <2> SUFFICES ASSUME Closing' PROVE TailInv'
    BY DEF TailInv
  <2>1. Closing
    BY <1>3 DEF Closing
  <2>2. ~swErr' /\ ~Ended' => SentSoFar' < written'
    BY <1>1, <1>3, <2>1 DEF Piece, NotLast
  <2>3. cpc' = "write" => NotLast(chunk)'
    BY <1>3, <2>1 DEF TailInv, NotLast, End
  <2> QED
    BY <1>3, <1>6, <2>1, <2>2, <2>3 DEF TailInv
<1>12. OrderedDelivery' /\ CompleteOnSuccess' /\ PartialDeliveryIsTerminal'
  BY <1>3 DEF OrderedDelivery, CompleteOnSuccess, PartialDeliveryIsTerminal
<1>13. TerminalBytesCarryOutcome'
  BY <1>3 DEF TerminalBytesCarryOutcome
<1>14. BoundedMessages'
  BY <1>2, <1>6, <1>7 DEF BoundedMessages, WriterInv, TypeOK
<1> QED
  BY <1>2, <1>6, <1>7, <1>9, <1>10, <1>11, <1>12, <1>13, <1>14

\* The initial state is well typed.
LEMMA InitType == Init => TypeOK
<1>1. Chunk0 \in Messages
  BY DEF Chunk0, Messages
<1>2. <<>> \in Seq(Nat) /\ <<>> \in Seq(Messages)
  OBVIOUS
<1>3. Init => /\ completionTail \in Seq(Nat) /\ data \in Seq(Nat)
              /\ delivered \in Seq(Nat)
              /\ wire \in Seq(Messages)
  BY <1>2, Zenon DEF Init
<1>4. Init => chunk \in Messages
  BY <1>1, Zenon DEF Init
<1>5. Init => /\ code \in Nat /\ status \in Nat /\ sendBytes \in Nat
              /\ writes \in Nat /\ written \in Nat /\ announced \in Nat
  BY DEF Init
<1>6. Init => /\ wroteHeader \in BOOLEAN /\ sent \in BOOLEAN
              /\ completing \in BOOLEAN /\ swErr \in BOOLEAN
              /\ broken \in BOOLEAN /\ responseStarted \in BOOLEAN
  BY DEF Init
<1>7. Init => /\ pc = "plugin" /\ cpc = "recv"
              /\ returned = NoOutcome /\ result = NoResult
  BY DEF Init
<1> QED
  BY <1>3, <1>4, <1>5, <1>6, <1>7, Zenon DEF TypeOK

-----------------------------------------------------------------------------
(* The plugin's calls and the handler's other steps. *)

\* Steps that leave the client, the wire and the bytes alone keep what is said
\* of them.
LEMMA WriterStepKeeps ==
    ASSUME IInv, TypeOK', WriterInv',
           UNCHANGED <<wire, cpc, chunk, delivered, result, written>>,
           UNCHANGED returned \/ (~Ended /\ ~Ended'),
           Ended => Ended',
           Closing' => Closing,
           ~swErr' /\ ~Ended' => ~swErr /\ ~Ended /\ SentSoFar' = SentSoFar
    PROVE  IInv'
<1> USE DEF IInv
<1>1. WireInv' /\ JoinInv'
  BY DEF WireInv, JoinInv, WireEnd, Base, End, Run
<1>2. FinalInv'
  BY DEF FinalInv, FinalMsg, End
<1>3. ClientInv'
  BY DEF ClientInv, Run, End
<1>4. TailInv'
  BY DEF TailInv, NotLast, End
<1>5. result # NoResult /\ result.outcome # NoOutcome => UNCHANGED returned
  BY DEF ClientInv
<1>6. OrderedDelivery' /\ BoundedMessages'
  BY DEF OrderedDelivery, BoundedMessages, WriterInv, TypeOK
<1>7. CompleteOnSuccess'
  BY <1>5 DEF CompleteOnSuccess
<1>8. PartialDeliveryIsTerminal'
  BY <1>5 DEF PartialDeliveryIsTerminal
<1>9. TerminalBytesCarryOutcome'
  BY <1>5 DEF TerminalBytesCarryOutcome, Closing
<1> QED
  BY <1>1, <1>2, <1>3, <1>4, <1>6, <1>7, <1>8, <1>9

\* BeginStreamCompletion keeps the invariant.
LEMMA BeginStreamCompletionKeeps ==
    ASSUME IInv, BeginStreamCompletion
    PROVE  IInv'
<1> USE DEF IInv, clientVars
<1>1. TypeOK'
  BY DEF TypeOK, BeginStreamCompletion
<1>2. WriterInv'
  BY DEF WriterInv, BeginStreamCompletion, InWrite, Ended, SentSoFar, Run
<1>3. ~Closing'
  BY DEF BeginStreamCompletion, Closing, TypeOK
<1> QED
  BY <1>1, <1>2, <1>3, WriterStepKeeps
     DEF BeginStreamCompletion, Ended, SentSoFar

\* WriteHeader keeps the invariant.
LEMMA WriteHeaderKeeps ==
    ASSUME IInv, NEW c \in StatusCodes, WriteHeader(c)
    PROVE  IInv'
<1> USE DEF IInv, clientVars
<1>1. TypeOK'
  BY StreamAssumption DEF TypeOK, WriteHeader
<1>2. WriterInv'
  BY DEF WriterInv, WriteHeader, InWrite, Ended, SentSoFar, Run
<1> QED
  BY <1>1, <1>2, WriterStepKeeps DEF WriteHeader, Ended, SentSoFar, Closing

\* The plugin's return from Forward keeps the invariant.
LEMMA PluginReturnKeeps ==
    ASSUME IInv, NEW r \in Returns, PluginReturn(r)
    PROVE  IInv'
<1> USE DEF IInv, clientVars, handlerFrame, writerVars
<1>1. TypeOK'
  BY DEF TypeOK, PluginReturn
<1>2. WriterInv'
  BY DEF WriterInv, PluginReturn, InWrite, Ended, SentSoFar, Run
<1> QED
  BY <1>1, <1>2, WriterStepKeeps DEF PluginReturn, Ended, SentSoFar, Closing

\* A handler that returns an error keeps the invariant.
LEMMA HandlerErrorKeeps ==
    ASSUME IInv, HandlerError
    PROVE  IInv'
<1> USE DEF IInv, clientVars, handlerFrame, writerVars
<1>1. TypeOK'
  BY DEF TypeOK, HandlerError
<1>2. WriterInv'
  BY DEF WriterInv, HandlerError, InWrite, Ended, SentSoFar, Run
<1> QED
  BY <1>1, <1>2, WriterStepKeeps DEF HandlerError, Ended, SentSoFar, Closing

\* The end of the RPC keeps the invariant.
LEMMA BreakKeeps ==
    ASSUME IInv, Break \/ UNCHANGED vars
    PROVE  IInv'
<1> USE DEF IInv, clientVars, serverVars, writerVars, vars
<1>1. TypeOK'
  <2>1. CASE Break
    BY <2>1 DEF TypeOK, Break
  <2>2. CASE UNCHANGED vars
    BY <2>2 DEF TypeOK
  <2> QED
    BY <2>1, <2>2
<1>2. WriterInv'
  BY DEF WriterInv, Break, InWrite, Ended, SentSoFar, Run
<1> QED
  BY <1>1, <1>2, WriterStepKeeps DEF Break, Ended, SentSoFar, Closing

\* The end of a Write keeps the invariant.
LEMMA EndWriteKeeps ==
    ASSUME IInv, EndWrite
    PROVE  IInv'
<1> USE DEF IInv, clientVars, writeFrame
<1>1. /\ completionTail' \in Seq(Nat)
      /\ Len(completionTail') = Len(completionTail) + Len(data)
      /\ Run(completionTail', SentSoFar)
  <2>1. /\ completionTail \in Seq(Nat) /\ data \in Seq(Nat) /\ SentSoFar \in Int
        /\ Run(completionTail, SentSoFar)
        /\ Run(data, SentSoFar + Len(completionTail))
    BY SentSoFarType DEF TypeOK, WriterInv
  <2> QED
    BY <2>1, JoinRuns DEF EndWrite
<1>2. TypeOK'
  BY <1>1 DEF TypeOK, EndWrite
<1>3. data' = <<>> /\ Len(data') = 0 /\ written' = written
  BY DEF EndWrite
<1>4. SentSoFar' = SentSoFar
  BY <1>1, <1>3 DEF SentSoFar, TypeOK
<1>5. /\ Len(completionTail') <= ChunkSize
      /\ Len(completionTail') + Len(data') <= written
      /\ ~completing => Len(completionTail') = 0
  BY <1>1, <1>3, StreamAssumption DEF EndWrite, WriterInv, TypeOK, Max2
<1>6. ~completing' => completionTail' = <<>>
  BY <1>1, <1>5, EmptySeq DEF EndWrite
<1>7. Run(completionTail, SentSoFar)' /\ Run(data, SentSoFar + Len(completionTail))'
  BY <1>1, <1>3, <1>4 DEF Run
<1>8. WriterInv'
  BY <1>3, <1>5, <1>6, <1>7 DEF WriterInv, EndWrite, InWrite, Ended
<1> QED
  BY <1>2, <1>4, <1>8, WriterStepKeeps DEF EndWrite, Ended, Closing

\* The beginning of a Write keeps the invariant.
LEMMA WriteKeeps ==
    ASSUME IInv, NEW n \in 0..MaxBytes, Write(n)
    PROVE  IInv'
<1> USE DEF IInv, clientVars, writerVars
<1>1. /\ n \in Nat /\ written' = written + n /\ written \in Nat
      /\ pc = "plugin" /\ ~swErr /\ ~Ended
      /\ UNCHANGED <<code, wroteHeader, sent, completing, completionTail, swErr,
                     returned, wire, broken, cpc, chunk, responseStarted,
                     status, delivered, result, announced>>
      /\ pc' \in {"write", "writeEmpty"}
      /\ pc' = "writeEmpty" => n = 0 /\ ~completing
  BY StreamAssumption DEF Write, TypeOK, Ended
<1>2. /\ data' \in Seq(Nat) /\ Len(data') = n
      /\ \A i \in 1..n : data'[i] = written + i
  <2>1. data' = [i \in 1..n |-> written + i]
    BY DEF Write
  <2> QED
    BY <2>1, <1>1
<1>3. data = <<>> /\ Len(data) = 0 /\ SentSoFar \in Nat /\ SentSoFar <= written
  BY <1>1, SentSoFarType DEF WriterInv, InWrite
<1>4. SentSoFar' = SentSoFar /\ SentSoFar + Len(completionTail) = written
  BY <1>1, <1>2, <1>3 DEF SentSoFar, TypeOK
<1>5. sendBytes' \in Nat /\ sendBytes' = SendBytes(n)
  BY <1>1, StreamAssumption DEF Write, SendBytes, Max2, TypeOK
<1>6. TypeOK'
  BY <1>1, <1>2, <1>5 DEF TypeOK, Write
<1>7. WriterInv'
  <2>1. Run(data, SentSoFar + Len(completionTail))'
    BY <1>1, <1>2, <1>4 DEF Run
  <2>2. Run(completionTail, SentSoFar)'
    BY <1>1, <1>4 DEF Run, WriterInv
  <2>3. Len(completionTail') + Len(data') <= written'
    BY <1>1, <1>2, <1>3 DEF WriterInv, TypeOK
  <2>4. pc' = "writeEmpty" => data' = <<>> /\ sendBytes' = 0 /\ ~completing'
    BY <1>1, <1>2, <1>5, EmptySeq DEF SendBytes
  <2>5. /\ ~completing' => sendBytes' = Len(data')
        /\ completing' => sendBytes' =
               Max2(0, Len(completionTail') + Len(data') - ChunkSize)
    BY <1>1, <1>2, <1>5 DEF SendBytes
  <2> QED
    BY <1>1, <2>1, <2>2, <2>3, <2>4, <2>5 DEF WriterInv, InWrite, Ended
<1>8. /\ \A i \in 1..Len(wire) : wire[i].final = NoOutcome \/ cpc = "done"
      /\ cpc = "write" => chunk.final = NoOutcome
      /\ result # NoResult => result.outcome = NoOutcome
  BY <1>1 DEF FinalInv, FinalMsg, ClientInv
<1>9. wire \in Seq(Messages) /\ chunk \in Messages /\ Len(delivered) \in Nat
  BY DEF TypeOK
<1>10. /\ \A i \in 1..Len(wire) : End(wire[i]) \in Nat
       /\ End(chunk) \in Nat
  <2>1. \A i \in 1..Len(wire) : wire[i] \in Messages
    BY <1>9
  <2> QED
    BY <1>9, <2>1, MessageType
<1>11. WireInv'
  BY <1>1, <1>10 DEF WireInv, Base, End, Run
<1>12. JoinInv'
  BY <1>1, <1>4 DEF JoinInv, WireEnd, Base, End
<1>13. FinalInv'
  BY <1>1, <1>8 DEF FinalInv, FinalMsg
<1>14. ClientInv'
  BY <1>1, <1>8, <1>10 DEF ClientInv, Run, End
<1>15. TailInv'
  <2>1. CASE n = 0
    <3>1. written' = written /\ Closing' = Closing
      BY <1>1, <2>1 DEF Closing
    <3> QED
      BY <1>1, <1>4, <3>1 DEF TailInv, NotLast, End
  <2>2. CASE n > 0
    <3>1. cpc # "done" => \A i \in 1..Len(wire) : NotLast(wire[i])'
      BY <1>1, <1>8, <1>10, <2>2 DEF WireInv, NotLast, End
    <3>2. cpc = "write" => NotLast(chunk)'
      BY <1>1, <1>8, <1>10, <2>2 DEF ClientInv, NotLast, End
    <3>3. Len(delivered) < written'
      BY <1>1, <1>9, <2>2 DEF OrderedDelivery
    <3>4. SentSoFar' < written'
      BY <1>1, <1>3, <1>4, <2>2
    <3> QED
      BY <1>1, <3>1, <3>2, <3>3, <3>4 DEF TailInv
  <2> QED
    BY <1>1, <2>1, <2>2
<1>16. OrderedDelivery' /\ BoundedMessages'
  BY <1>1, <1>9 DEF OrderedDelivery, BoundedMessages
<1>17. CompleteOnSuccess' /\ PartialDeliveryIsTerminal'
  BY <1>1, <1>8 DEF CompleteOnSuccess, PartialDeliveryIsTerminal
<1>18. TerminalBytesCarryOutcome'
  <2>1. Closing' => Len(delivered') < written'
    BY <1>1, <1>8, <1>15 DEF TailInv, ClientInv
  <2> QED
    BY <1>6, <2>1 DEF TerminalBytesCarryOutcome, Closing, TypeOK
<1> QED
  BY <1>6, <1>7, <1>11, <1>12, <1>13, <1>14, <1>15, <1>16, <1>17, <1>18

-----------------------------------------------------------------------------
(* The client. *)

\* Taking a message off the wire leaves a wire without gaps.
LEMMA ReceiveWire ==
    ASSUME TypeOK, wire # <<>>, wire' = Tail(wire)
    PROVE  /\ Head(wire) = wire[1] /\ wire[1] \in Messages
           /\ 1 \in 1..Len(wire)
           /\ wire' \in Seq(Messages)
           /\ Len(wire') = Len(wire) - 1 /\ Len(wire) \in Nat
           /\ \A i \in 1..Len(wire') : wire'[i] = wire[i + 1]
           /\ \A i \in 1..Len(wire) : wire[i] \in Messages
<1>1. wire \in Seq(Messages)
  BY DEF TypeOK
<1> QED
  BY <1>1, HeadTailProperties, EmptySeq

\* A Recv keeps the invariant.
LEMMA ClientRecvKeeps ==
    ASSUME IInv, ClientRecv
    PROVE  IInv'
<1> USE DEF IInv
<1> DEFINE m == wire[1]
<1>1. /\ Head(wire) = m /\ m \in Messages
      /\ 1 \in 1..Len(wire)
      /\ wire' \in Seq(Messages)
      /\ Len(wire') = Len(wire) - 1 /\ Len(wire) \in Nat
      /\ \A i \in 1..Len(wire') : wire'[i] = wire[i + 1]
      /\ \A i \in 1..Len(wire) : wire[i] \in Messages
  BY ReceiveWire DEF ClientRecv
<1>2. /\ UNCHANGED <<code, wroteHeader, sent, completing, completionTail, swErr,
                     data, sendBytes, pc, returned, writes, written, announced,
                     delivered>>
      /\ chunk' = m
      /\ cpc = "recv" /\ wire # <<>> /\ wire' = Tail(wire)
  BY <1>1 DEF ClientRecv, serverVars, writerVars
<1>3. \/ m.data # <<>> /\ cpc' = "write" /\ UNCHANGED <<result, broken>>
      \/ /\ m.data = <<>> /\ m.final # NoOutcome /\ cpc' = "done"
         /\ result' = [outcome |-> m.final, err |-> FALSE] /\ broken' = TRUE
      \/ /\ m.data = <<>> /\ m.final = NoOutcome
         /\ UNCHANGED <<cpc, result, broken>>
  BY <1>1 DEF ClientRecv, Return
<1>4. responseStarted' \in BOOLEAN /\ status' \in Nat
  <2>1. m.code \in Nat
    BY <1>1, MessageType
  <2>2. status' \in Nat
    BY <1>1, <2>1 DEF ClientRecv, TypeOK
  <2>3. responseStarted' \in BOOLEAN
    BY DEF ClientRecv, TypeOK
  <2> QED
    BY <2>2, <2>3
<1> HIDE DEF m
<1>5. /\ m.off \in Nat /\ m.data \in Seq(Nat) /\ Len(m.data) \in Nat
      /\ m.final \in Outcomes \cup {NoOutcome} /\ End(m) = m.off + Len(m.data)
  BY <1>1, MessageType
<1>6. /\ m.off = Len(delivered) /\ Run(m.data, m.off) /\ End(m) <= written
      /\ FinalMsg(m)
      /\ Len(delivered) \in Nat
      /\ Closing => NotLast(m)
      /\ result = NoResult
  <2>1. wire[1].off = Base /\ Base = Len(delivered) /\ Len(delivered) \in Nat
    BY <1>2 DEF WireInv, Base, TypeOK
  <2> QED
    BY <1>1, <1>2, <2>1 DEF m, WireInv, FinalInv, TailInv, ClientInv
<1>7. wire' # <<>> => wire'[1].off = End(m) /\ Len(wire') > 0
  <2> SUFFICES ASSUME wire' # <<>> PROVE wire'[1].off = End(m) /\ Len(wire') > 0
    OBVIOUS
  <2>1. Len(wire') \in Nat /\ Len(wire') # 0
    BY <1>1, EmptySeq
  <2>2. 1 \in 1..Len(wire') /\ 1 \in 1..Len(wire) - 1
    BY <1>1, <2>1
  <2>3. wire'[1] = wire[2] /\ wire[2].off = End(wire[1])
    BY <1>1, <1>2, <2>2 DEF WireInv
  <2> QED
    BY <2>1, <2>3 DEF m
<1>8. cpc' # "done" => /\ \A i \in 1..Len(wire') - 1 :
                              wire'[i + 1].off = End(wire'[i])
                       /\ \A i \in 1..Len(wire') :
                              /\ Run(wire'[i].data, wire'[i].off)
                              /\ End(wire'[i]) <= written
  <2>1. \A i \in 1..Len(wire') : i + 1 \in 1..Len(wire) /\ wire'[i] = wire[i + 1]
    BY <1>1
  <2>2. \A i \in 1..Len(wire') - 1 :
            /\ i \in 1..Len(wire') /\ i + 1 \in 1..Len(wire')
            /\ i + 1 \in 1..Len(wire) - 1
    BY <1>1
  <2> QED
    BY <1>2, <2>1, <2>2 DEF WireInv
<1>9. /\ cpc' # "done" => End(m) = Base'
      /\ cpc' = "done" => End(m) = Len(delivered)
  <2>1. m.data = <<>> => Len(m.data) = 0
    OBVIOUS
  <2> QED
    BY <1>2, <1>3, <1>5, <1>6, <2>1 DEF Base
<1>10. TypeOK'
  <2>1. result' \in [outcome : Outcomes \cup {NoOutcome}, err : BOOLEAN]
                      \cup {NoResult}
    BY <1>3, <1>5, ResultType, Zenon DEF TypeOK
  <2>2. broken' \in BOOLEAN
    BY <1>3 DEF TypeOK
  <2>3. cpc' \in {"recv", "write", "done"}
    BY <1>2, <1>3
  <2>4. chunk' \in Messages
    BY <1>1, <1>2
  <2> QED
    BY <1>1, <1>2, <1>4, <2>1, <2>2, <2>3, <2>4 DEF TypeOK
<1>11. WriterInv'
  BY <1>2 DEF WriterInv, InWrite, Ended, SentSoFar, Run
<1>12. WireInv'
  BY <1>2, <1>7, <1>8, <1>9 DEF WireInv, Run, End
<1>13. JoinInv'
  <2> SUFFICES ASSUME cpc' # "done", ~swErr', ~Ended'
               PROVE  WireEnd' = SentSoFar'
    BY DEF JoinInv
  <2>1. WireEnd = SentSoFar /\ SentSoFar' = SentSoFar
    BY <1>2 DEF JoinInv, Ended, SentSoFar
  <2>2. CASE wire' = <<>>
    <3>1. Len(wire) = 1
      BY <1>1, <2>2
    <3>2. WireEnd = End(m) /\ WireEnd' = Base'
      BY <1>2, <2>2, <3>1 DEF WireEnd, m
    <3> QED
      BY <2>1, <3>2, <1>9
  <2>3. CASE wire' # <<>>
    <3>1. Len(wire') \in 1..Len(wire') /\ Len(wire') + 1 = Len(wire)
      BY <1>1, <1>7, <2>3
    <3>2. wire'[Len(wire')] = wire[Len(wire)]
      BY <1>1, <3>1
    <3> QED
      BY <1>2, <2>1, <2>3, <3>2 DEF WireEnd, End
  <2> QED
    BY <2>2, <2>3
<1>14. FinalInv'
  <2>1. FinalMsg(chunk)'
    BY <1>2, <1>6 DEF FinalMsg, Ended, End
  <2>2. \A i \in 1..Len(wire') : i + 1 \in 1..Len(wire) /\ wire'[i] = wire[i + 1]
    BY <1>1
  <2>3. (\A i \in 1..Len(wire) : FinalMsg(wire[i]))'
    BY <1>2, <2>2 DEF FinalInv, FinalMsg, Ended, End
  <2> QED
    BY <2>1, <2>3 DEF FinalInv
<1>15. ClientInv'
  <2>1. result' # NoResult => cpc' = "done"
    BY <1>3, <1>6, <1>2
  <2>2. cpc' = "done" => result' # NoResult /\ result'.outcome = m.final /\ Ended
    <3>1. cpc' = "done" => /\ result' = [outcome |-> m.final, err |-> FALSE]
                           /\ m.final # NoOutcome
      BY <1>2, <1>3
    <3> QED
      BY <3>1, <1>5, <1>6, ResultType DEF FinalMsg
  <2> QED
    BY <1>2, <1>6, <2>1, <2>2 DEF ClientInv, Run, End, Ended
<1>16. TailInv'
  <2> SUFFICES ASSUME Closing' PROVE TailInv'
    BY DEF TailInv
  <2>1. Closing
    BY <1>2 DEF Closing
  <2>2. \A i \in 1..Len(wire') : i + 1 \in 1..Len(wire) /\ wire'[i] = wire[i + 1]
    BY <1>1
  <2>3. (\A i \in 1..Len(wire) : NotLast(wire[i]))'
    BY <1>2, <2>1, <2>2 DEF TailInv, NotLast, End
  <2>4. NotLast(chunk)'
    BY <1>2, <1>6, <2>1 DEF NotLast, End
  <2>5. cpc' = "done" => result'.outcome # NoOutcome
    BY <1>2, <1>3
  <2> QED
    BY <1>2, <2>1, <2>3, <2>4, <2>5 DEF TailInv, Ended, SentSoFar
<1>17. OrderedDelivery' /\ BoundedMessages'
  <2>1. \A i \in 1..Len(wire') : i + 1 \in 1..Len(wire) /\ wire'[i] = wire[i + 1]
    BY <1>1
  <2> QED
    BY <1>2, <2>1 DEF OrderedDelivery, BoundedMessages
<1>18. result' # NoResult =>
           /\ result'.err = FALSE /\ result'.outcome = m.final
           /\ m.final # NoOutcome
           /\ Len(delivered) = written
           /\ m.final.kind = returned.kind /\ m.final.usage = returned.usage
  BY <1>2, <1>3, <1>6, <1>9 DEF FinalMsg
<1>19. CompleteOnSuccess'
  BY <1>2, <1>18 DEF CompleteOnSuccess
<1>20. PartialDeliveryIsTerminal'
  BY <1>2, <1>6, <1>18 DEF PartialDeliveryIsTerminal
<1>21. TerminalBytesCarryOutcome'
  <2>1. Closing /\ result' = NoResult => Len(delivered) # written
    BY <1>2, <1>3, <1>6, <1>10 DEF TailInv, TypeOK
  <2> QED
    BY <1>2, <1>18, <2>1 DEF TerminalBytesCarryOutcome, Closing
<1> QED
  BY <1>10, <1>11, <1>12, <1>13, <1>14, <1>15, <1>16, <1>17, <1>19, <1>20, <1>21

\* A return of forwardStream: what the outcome must say for the invariant to hold.
LEMMA ReturnKeeps ==
    ASSUME IInv, cpc # "done",
           UNCHANGED <<serverVars, wire, chunk, responseStarted, status>>,
           NEW o \in Outcomes \cup {NoOutcome}, NEW e \in BOOLEAN, Return(o, e),
           delivered' \in Seq(Nat), Len(delivered') <= written,
           Run(delivered', 0),
           o # NoOutcome => /\ Ended
                            /\ o.usage = returned.usage,
           e = FALSE => /\ o # NoOutcome
                        /\ Len(delivered') = written
                        /\ o.kind = returned.kind,
           o # NoOutcome /\ Len(delivered') < written =>
               /\ e = TRUE
               /\ o.kind = "StreamAborted" /\ o.scope = "Terminal",
           Closing /\ o = NoOutcome => Len(delivered') < written
    PROVE  IInv'
<1> USE DEF IInv
<1>1. /\ UNCHANGED <<code, wroteHeader, sent, completing, completionTail, swErr,
                     data, sendBytes, pc, returned, writes, written, announced,
                     wire, chunk, responseStarted, status>>
      /\ cpc' = "done" /\ broken' = TRUE
      /\ result' = [outcome |-> o, err |-> e]
  BY DEF serverVars, writerVars, Return
<1>2. /\ result' \in [outcome : Outcomes \cup {NoOutcome}, err : BOOLEAN]
      /\ result' # NoResult /\ result'.outcome = o /\ result'.err = e
  BY <1>1, ResultType, Zenon
<1>3. TypeOK'
  BY <1>1, <1>2 DEF TypeOK
<1>4. WriterInv'
  BY <1>1 DEF WriterInv, InWrite, Ended, SentSoFar, Run
<1>5. WireInv' /\ JoinInv' /\ FinalInv'
  BY <1>1 DEF WireInv, JoinInv, FinalInv
<1>6. ClientInv'
  BY <1>1, <1>2 DEF ClientInv, Ended
<1>7. TailInv'
  BY <1>1, <1>2 DEF TailInv, Closing, Ended, SentSoFar
<1>8. OrderedDelivery' /\ BoundedMessages'
  <2>1. \A i \in 1..Len(delivered') : delivered'[i] = i
    BY DEF Run
  <2> QED
    BY <1>1, <2>1 DEF OrderedDelivery, BoundedMessages
<1>9. CompleteOnSuccess'
  BY <1>1, <1>2 DEF CompleteOnSuccess
<1>10. PartialDeliveryIsTerminal'
  <2>1. o # NoOutcome /\ Len(delivered') < written' =>
            result'.err /\ o.usage = returned'.usage
    BY <1>1, <1>2
  <2> QED
    BY <1>1, <1>2, <2>1 DEF PartialDeliveryIsTerminal
<1>11. TerminalBytesCarryOutcome'
  <2>1. Closing /\ Len(delivered') = written => o # NoOutcome
    BY <1>3 DEF TypeOK
  <2> QED
    BY <1>1, <1>2, <2>1 DEF TerminalBytesCarryOutcome, Closing
<1> QED
  BY <1>3, <1>4, <1>5, <1>6, <1>7, <1>8, <1>9, <1>10, <1>11

\* A failed Recv keeps the invariant.
LEMMA ClientRecvErrorKeeps ==
    ASSUME IInv, ClientRecvError
    PROVE  IInv'
<1> USE DEF IInv
<1>1. /\ cpc = "recv" /\ Return(NoOutcome, TRUE)
      /\ UNCHANGED <<serverVars, wire, chunk, responseStarted, status>>
      /\ delivered' = delivered
  BY DEF ClientRecvError
<1>2. delivered' \in Seq(Nat) /\ Len(delivered') <= written /\ Run(delivered', 0)
  BY <1>1 DEF TypeOK, OrderedDelivery, Run
<1>3. Closing => Len(delivered') < written
  BY <1>1 DEF TailInv
<1>4. TRUE \in BOOLEAN /\ TRUE # FALSE
  OBVIOUS
<1> QED
  BY <1>1, <1>2, <1>3, <1>4, ReturnKeeps

\* What the client adds to the response continues it.
LEMMA Delivers ==
    ASSUME IInv, cpc = "write", NEW n \in 0..Len(chunk.data),
           delivered' = delivered \o SubSeq(chunk.data, 1, n)
    PROVE  /\ delivered' \in Seq(Nat)
           /\ Len(delivered') = Len(delivered) + n
           /\ Run(delivered', 0)
           /\ Len(delivered') <= End(chunk)
           /\ End(chunk) = Len(delivered) + Len(chunk.data)
           /\ End(chunk) <= written
<1> USE DEF IInv
<1>1. /\ chunk.off = Len(delivered) /\ Run(chunk.data, chunk.off)
      /\ End(chunk) <= written
  BY DEF ClientInv
<1>2. /\ chunk.data \in Seq(Nat) /\ Len(chunk.data) \in Nat /\ chunk.off \in Nat
      /\ End(chunk) = chunk.off + Len(chunk.data)
  BY MessageType DEF TypeOK
<1>3. delivered \in Seq(Nat) /\ Len(delivered) \in Nat /\ Run(delivered, 0)
  BY DEF TypeOK, OrderedDelivery, Run
<1>4. /\ SubSeq(chunk.data, 1, n) \in Seq(Nat)
      /\ Len(SubSeq(chunk.data, 1, n)) = n
      /\ Run(SubSeq(chunk.data, 1, n), Len(delivered))
  BY <1>1, <1>2, SplitRun
<1> DEFINE p == SubSeq(chunk.data, 1, n)
<1> HIDE DEF p
<1>5. p \in Seq(Nat) /\ Len(p) = n /\ Run(p, 0 + Len(delivered)) /\ 0 \in Int
  BY <1>3, <1>4 DEF p
<1>6. /\ delivered \o p \in Seq(Nat)
      /\ Len(delivered \o p) = Len(delivered) + Len(p)
      /\ Run(delivered \o p, 0)
  BY <1>3, <1>5, JoinRuns
<1>7. delivered' = delivered \o p
  BY DEF p
<1>8. /\ delivered' \in Seq(Nat) /\ Run(delivered', 0)
      /\ Len(delivered') = Len(delivered) + n
  BY <1>5, <1>6, <1>7
<1> QED
  BY <1>1, <1>2, <1>3, <1>8

\* A short or failed downstream write keeps the invariant.
LEMMA ClientWriteFailsKeeps ==
    ASSUME IInv, NEW n \in 0..ChunkSize, ClientWriteFails(n)
    PROVE  IInv'
<1> USE DEF IInv
<1>1. /\ cpc = "write" /\ n \in 0..Len(chunk.data)
      /\ delivered' = delivered \o SubSeq(chunk.data, 1, n)
      /\ UNCHANGED <<serverVars, wire, chunk, responseStarted, status>>
  BY StreamAssumption DEF ClientWriteFails, TypeOK, Messages
<1>2. /\ delivered' \in Seq(Nat) /\ Run(delivered', 0)
      /\ Len(delivered') \in Nat
      /\ Len(delivered') <= End(chunk) /\ End(chunk) <= written
      /\ Len(delivered') <= written
      /\ End(chunk) \in Nat /\ written \in Nat
  <2>1. /\ delivered' \in Seq(Nat) /\ Run(delivered', 0)
        /\ Len(delivered') <= End(chunk) /\ End(chunk) <= written
    BY <1>1, Delivers
  <2>2. End(chunk) \in Nat /\ written \in Nat
    BY MessageType DEF TypeOK
  <2>3. Len(delivered') \in Nat
    BY <2>1
  <2> QED
    BY <2>1, <2>2, <2>3
<1>3. TRUE \in BOOLEAN /\ TRUE # FALSE
  OBVIOUS
<1>4. CASE chunk.final = NoOutcome
  <2>1. Return(NoOutcome, TRUE)
    BY <1>4 DEF ClientWriteFails
  <2>2. Closing => Len(delivered') < written
    BY <1>1, <1>2, <1>4 DEF TailInv, NotLast
  <2> QED
    BY <1>1, <1>2, <1>3, <2>1, <2>2, ReturnKeeps
<1>5. CASE chunk.final # NoOutcome
  <2> DEFINE o == AbortedOutcome(chunk.final)
  <2>1. Return(o, TRUE)
    BY <1>5 DEF ClientWriteFails
  <2>2. /\ chunk.final \in Outcomes
        /\ Ended /\ chunk.final.usage = returned.usage
    BY <1>1, <1>5, MessageType DEF TypeOK, FinalInv, FinalMsg
  <2>3. /\ o \in Outcomes /\ o.kind = "StreamAborted" /\ o.scope = "Terminal"
        /\ o.usage = returned.usage
    BY <2>2, AbortedType
  <2>4. o # NoOutcome
    BY <2>3, StreamAssumption
  <2> HIDE DEF o
  <2> QED
    BY <1>1, <1>2, <1>3, <2>1, <2>2, <2>3, <2>4, ReturnKeeps
<1> QED
  BY <1>4, <1>5

\* A downstream write keeps the invariant.
LEMMA ClientWriteKeeps ==
    ASSUME IInv, ClientWrite
    PROVE  IInv'
<1> USE DEF IInv
<1> DEFINE n == Len(chunk.data)
<1>1. /\ cpc = "write"
      /\ UNCHANGED <<serverVars, wire, chunk, responseStarted, status>>
      /\ chunk.data \in Seq(Nat) /\ n \in 0..Len(chunk.data) /\ n \in Nat
  BY MessageType DEF ClientWrite, TypeOK
<1>2. SubSeq(chunk.data, 1, n) = chunk.data
  BY <1>1
<1>3. delivered' = delivered \o SubSeq(chunk.data, 1, n)
  BY <1>2 DEF ClientWrite
<1> HIDE DEF n
<1>4. /\ delivered' \in Seq(Nat) /\ Run(delivered', 0)
      /\ Len(delivered') = Len(delivered) + n
      /\ End(chunk) = Len(delivered) + Len(chunk.data) /\ End(chunk) <= written
  BY <1>1, <1>3, Delivers
<1>5. Len(delivered') = End(chunk) /\ Len(delivered') <= written
  BY <1>4 DEF n
<1>6. CASE chunk.final # NoOutcome
  <2>1. Return(chunk.final, FALSE)
    BY <1>6 DEF ClientWrite
  <2>2. /\ chunk.final \in Outcomes /\ Ended
        /\ End(chunk) = written
        /\ chunk.final.kind = returned.kind
        /\ chunk.final.usage = returned.usage
    BY <1>1, <1>6, MessageType DEF TypeOK, FinalInv, FinalMsg
  <2>3. ~(Len(delivered') < written) /\ FALSE \in BOOLEAN
    BY <1>5, <2>2 DEF TypeOK
  <2> QED
    BY <1>1, <1>4, <1>5, <1>6, <2>1, <2>2, <2>3, ReturnKeeps
<1>7. CASE chunk.final = NoOutcome
  <2>1. /\ UNCHANGED <<code, wroteHeader, sent, completing, completionTail,
                       swErr, data, sendBytes, pc, returned, writes, written,
                       announced, wire, broken, chunk, responseStarted, status,
                       result>>
        /\ cpc' = "recv"
    BY <1>7 DEF ClientWrite, serverVars, writerVars
  <2>2. TypeOK'
    BY <1>4, <2>1 DEF TypeOK
  <2>3. WriterInv'
    BY <2>1 DEF WriterInv, InWrite, Ended, SentSoFar, Run
  <2>4. Base' = Base
    BY <1>1, <1>4, <2>1 DEF Base, n
  <2>5. WireInv'
    BY <1>1, <2>1, <2>4 DEF WireInv, Run, End
  <2>6. JoinInv'
    BY <1>1, <2>1, <2>4 DEF JoinInv, WireEnd, End, Ended, SentSoFar
  <2>7. FinalInv'
    BY <1>1, <2>1 DEF FinalInv, FinalMsg, Ended, End
  <2>8. ClientInv'
    BY <1>1, <2>1 DEF ClientInv, Ended
  <2>9. Closing => Len(delivered') < written
    BY <1>1, <1>5, <1>7 DEF TailInv, NotLast
  <2>10. TailInv'
    BY <1>1, <2>1, <2>9 DEF TailInv, Closing, NotLast, End, Ended, SentSoFar
  <2>11. OrderedDelivery' /\ BoundedMessages'
    <3>1. \A i \in 1..Len(delivered') : delivered'[i] = i
      BY <1>4 DEF Run
    <3> QED
      BY <1>5, <2>1, <3>1 DEF OrderedDelivery, BoundedMessages
  <2>12. result' = NoResult
    BY <1>1, <2>1 DEF ClientInv
  <2>13. CompleteOnSuccess' /\ PartialDeliveryIsTerminal'
    BY <2>12 DEF CompleteOnSuccess, PartialDeliveryIsTerminal
  <2>14. TerminalBytesCarryOutcome'
    BY <2>1, <2>2, <2>9 DEF TerminalBytesCarryOutcome, Closing, TypeOK
  <2> QED
    BY <2>2, <2>3, <2>5, <2>6, <2>7, <2>8, <2>10, <2>11, <2>13, <2>14
<1> QED
  BY <1>6, <1>7

-----------------------------------------------------------------------------
(* The theorems. *)

\* The invariant holds at first.
LEMMA InitIInv == Init => IInv
<1> SUFFICES ASSUME Init PROVE IInv
  OBVIOUS
<1>1. TypeOK
  BY InitType
<1>2. /\ Len(completionTail) = 0 /\ Len(data) = 0 /\ Len(delivered) = 0
      /\ Len(wire) = 0 /\ written = 0 /\ wire = <<>> /\ data = <<>>
      /\ completionTail = <<>> /\ sendBytes = 0
      /\ pc = "plugin" /\ cpc = "recv" /\ result = NoResult
      /\ ~completing /\ ~swErr
  BY DEF Init
<1>3. WriterInv
  BY <1>2, StreamAssumption DEF WriterInv, InWrite, Ended, Run, SentSoFar
<1>4. WireInv /\ FinalInv
  BY <1>2 DEF WireInv, FinalInv
<1>5. JoinInv
  BY <1>2 DEF JoinInv, WireEnd, Base, SentSoFar
<1>6. ClientInv /\ TailInv
  BY <1>2 DEF ClientInv, TailInv, Closing
<1>7. OrderedDelivery /\ BoundedMessages
  BY <1>2, StreamAssumption DEF OrderedDelivery, BoundedMessages
<1>8. CompleteOnSuccess /\ PartialDeliveryIsTerminal /\ TerminalBytesCarryOutcome
  BY <1>2 DEF CompleteOnSuccess, PartialDeliveryIsTerminal,
              TerminalBytesCarryOutcome
<1> QED
  BY <1>1, <1>3, <1>4, <1>5, <1>6, <1>7, <1>8 DEF IInv

\* Every step keeps the invariant.
LEMMA NextIInv == IInv /\ [Next]_vars => IInv'
<1> SUFFICES ASSUME IInv, [Next]_vars PROVE IInv'
  OBVIOUS
<1>1. CASE SendStep
  BY <1>1, SendStepKeeps
<1>2. CASE EndWrite
  BY <1>2, EndWriteKeeps
<1>3. CASE HandlerError
  BY <1>3, HandlerErrorKeeps
<1>4. CASE BeginStreamCompletion
  BY <1>4, BeginStreamCompletionKeeps
<1>5. CASE \E c \in StatusCodes : WriteHeader(c)
  BY <1>5, WriteHeaderKeeps
<1>6. CASE \E n \in 0..MaxBytes : Write(n)
  BY <1>6, WriteKeeps
<1>7. CASE \E r \in Returns : PluginReturn(r)
  BY <1>7, PluginReturnKeeps
<1>8. CASE ClientRecv
  BY <1>8, ClientRecvKeeps
<1>9. CASE ClientRecvError
  BY <1>9, ClientRecvErrorKeeps
<1>10. CASE ClientWrite
  BY <1>10, ClientWriteKeeps
<1>11. CASE \E n \in 0..ChunkSize : ClientWriteFails(n)
  BY <1>11, ClientWriteFailsKeeps
<1>12. CASE Break \/ Done \/ UNCHANGED vars
  BY <1>12, BreakKeeps DEF Done
<1> QED
  BY <1>1, <1>2, <1>3, <1>4, <1>5, <1>6, <1>7, <1>8, <1>9, <1>10, <1>11, <1>12
     DEF Next, Handler, Plugin, Client, SendStep

\* The invariant holds in every reachable state.
THEOREM Inductive == Spec => []IInv
  BY InitIInv, NextIInv, PTL DEF Spec

\* Type correctness of the writer, the handler, the wire and the client.
THEOREM TypeCorrect == Spec => []TypeOK
<1>1. IInv => TypeOK
  BY DEF IInv
<1> QED
  BY <1>1, Inductive, PTL

\* The downstream client has a prefix of the response, in order, for every chunk
\* size, window and pattern of writes and failures. (streamWriter, forwardStream)
THEOREM DeliveryIsOrdered == Spec => []OrderedDelivery
<1>1. IInv => OrderedDelivery
  BY DEF IInv
<1> QED
  BY <1>1, Inductive, PTL

\* A call that Core sees succeed delivered the whole response and returns the
\* plugin's own verdict. (ForwardStream, forwardStream)
THEOREM SuccessIsComplete == Spec => []CompleteOnSuccess
<1>1. IInv => CompleteOnSuccess
  BY DEF IInv
<1> QED
  BY <1>1, Inductive, PTL

\* The end of a terminal event never reaches the downstream client before the
\* outcome reaches Core. (streamWriter.Write's completion tail)
THEOREM TerminalBytesLast == Spec => []TerminalBytesCarryOutcome
<1>1. IInv => TerminalBytesCarryOutcome
  BY DEF IInv
<1> QED
  BY <1>1, Inductive, PTL

\* A verdict whose bytes could not all be delivered is a terminal StreamAborted
\* with the usage kept. (forwardStream)
THEOREM PartialIsTerminal == Spec => []PartialDeliveryIsTerminal
<1>1. IInv => PartialDeliveryIsTerminal
  BY DEF IInv
<1> QED
  BY <1>1, Inductive, PTL

\* Tail and messages never exceed one chunk. (streamWriter.Write)
THEOREM MessagesBounded == Spec => []BoundedMessages
<1>1. IInv => BoundedMessages
  BY DEF IInv
<1> QED
  BY <1>1, Inductive, PTL

\* Nothing is sent after a failed Send. (streamWriter.fail, ForwardStream)
THEOREM SilentAfterFailure == Spec => NoSendAfterFailure
<1>1. IInv /\ [Next]_vars => [swErr => Len(wire') <= Len(wire)]_vars
  <2> SUFFICES ASSUME IInv, Next, swErr PROVE Len(wire') <= Len(wire)
    OBVIOUS
  <2>1. ~SendStep
    BY DEF IInv, SendStep, FlushMeta, SendTail, SendData, SendEmpty, SendFinal,
           WriterInv, InWrite, HandlerFails
  <2>2. Len(wire) \in Nat
    BY DEF IInv, TypeOK
  <2>3. CASE ClientRecv
    <3>1. wire # <<>> /\ wire' = Tail(wire)
      BY <2>3 DEF ClientRecv
    <3>2. Len(wire') = Len(wire) - 1
      BY <3>1, ReceiveWire DEF IInv
    <3> QED
      BY <2>2, <3>2
  <2>4. CASE ~ClientRecv
    <3>1. wire' = wire
      BY <2>1, <2>4
         DEF Next, Handler, Plugin, Client, SendStep, EndWrite, HandlerError,
             BeginStreamCompletion, WriteHeader, Write, PluginReturn,
             ClientRecvError, ClientWrite, ClientWriteFails, Break, Done, vars,
             handlerFrame
    <3> QED
      BY <2>2, <3>1
  <2> QED
    BY <2>3, <2>4
<1> QED
  BY <1>1, Inductive, PTL DEF Spec, NoSendAfterFailure

-----------------------------------------------------------------------------
(* The contract: what the client and Core see takes the steps of an ordered stream
   that ends with its verdict. *)

abstractVars == <<written, completing, announced, delivered, result>>

\* The plugin offers bytes only while Core has no good verdict.
LEMMA WriteOffers ==
    ASSUME IInv, NEW n \in 0..MaxBytes, Write(n)
    PROVE  Contract!Offer
<1>1. /\ pc = "plugin" /\ written' = written + n
      /\ UNCHANGED <<completing, announced, delivered, result>>
  BY DEF Write, writerVars, clientVars
<1>2. /\ written \in Nat /\ announced \in Nat /\ completing \in BOOLEAN /\ n \in Nat
  BY StreamAssumption DEF IInv, TypeOK
<1>3. Verdict # "ok"
  BY <1>1 DEF IInv, Verdict, CompleteOnSuccess, ClientInv, Ended, TypeOK
<1>4. written' \in Nat /\ written' >= written
  BY <1>1, <1>2
<1>5. Closing => Closing'
  BY <1>1, <1>2 DEF Closing
<1> QED
  BY <1>1, <1>2, <1>3, <1>4, <1>5 DEF Contract!Offer, Closing, Verdict

\* A message whose bytes were written, or that has none, delivers or concludes.
LEMMA ClientDelivers ==
    ASSUME IInv, IInv', ClientRecv \/ ClientRecvError \/ ClientWrite
                        \/ \E n \in 0..ChunkSize : ClientWriteFails(n)
    PROVE  \/ Contract!Deliver \/ Contract!Conclude \/ Contract!Abort
           \/ UNCHANGED abstractVars
<1>1. /\ cpc # "done" /\ UNCHANGED <<written, completing, announced>>
  BY DEF ClientRecv, ClientRecvError, ClientWrite, ClientWriteFails, serverVars, writerVars
<1>2. result = NoResult /\ Verdict = "none"
  BY <1>1 DEF IInv, ClientInv, Verdict
<1>3. /\ delivered \in Seq(Nat) /\ delivered' \in Seq(Nat) /\ written \in Nat
      /\ chunk.data \in Seq(Nat)
  BY MessageType DEF IInv, TypeOK
<1>4. /\ Len(delivered) \in Nat /\ Len(delivered') \in Nat
      /\ Len(delivered') <= written
      /\ delivered' = Contract!FirstBytes(Len(delivered'))
  <2>1. /\ Len(delivered') \in Nat /\ Len(delivered') <= written'
        /\ delivered' = Contract!FirstBytes(Len(delivered'))
    <3>1. delivered' \in Seq(Nat) /\ OrderedDelivery'
      BY DEF IInv, TypeOK
    <3>2. Len(delivered') \in Nat /\ DOMAIN delivered' = 1..Len(delivered')
      BY <3>1
    <3>3. delivered' = [i \in 1..Len(delivered') |-> delivered'[i]]
      BY <3>1, <3>2
    <3>4. \A i \in 1..Len(delivered') : delivered'[i] = i
      BY <3>1 DEF OrderedDelivery
    <3> QED
      BY <3>1, <3>2, <3>3, <3>4 DEF OrderedDelivery, Contract!FirstBytes
  <2> QED
    BY <1>1, <1>3, <2>1
<1>5. Len(delivered) <= Len(delivered')
  <2>1. CASE delivered' = delivered
    BY <1>4, <2>1
  <2>2. CASE delivered' = delivered \o chunk.data
    <3>1. Len(delivered') = Len(delivered) + Len(chunk.data) /\ Len(chunk.data) \in Nat
      BY <1>3, <2>2
    <3> QED
      BY <1>4, <3>1
  <2>3. ASSUME NEW n \in 0..ChunkSize, n <= Len(chunk.data),
               delivered' = delivered \o SubSeq(chunk.data, 1, n)
        PROVE  Len(delivered) <= Len(delivered')
    <3>1. SubSeq(chunk.data, 1, n) \in Seq(Nat) /\ Len(SubSeq(chunk.data, 1, n)) = n
      BY <1>3, <2>3, StreamAssumption
    <3> DEFINE p == SubSeq(chunk.data, 1, n)
    <3> HIDE DEF p
    <3>2. Len(delivered') = Len(delivered) + n
      BY <1>3, <2>3, <3>1 DEF p
    <3> QED
      BY <1>4, <3>2, StreamAssumption
  <2> QED
    BY <2>1, <2>2, <2>3 DEF ClientRecv, ClientRecvError, ClientWrite, ClientWriteFails
<1>6. Len(delivered') \in Len(delivered)..written
  BY <1>3, <1>4, <1>5
<1>7. CASE result' = NoResult
  <2>1. Verdict' = Verdict
    BY <1>2, <1>7 DEF Verdict
  <2>2. cpc' # "done"
    BY <1>7 DEF IInv, ClientInv
  <2>3. Closing' => Len(delivered') < written'
    BY <2>2 DEF IInv, TailInv
  <2>4. (completing /\ written > announced) => Len(delivered') < written
    BY <1>1, <2>3 DEF Closing
  <2> QED
    BY <1>1, <1>2, <1>4, <1>6, <2>1, <2>4 DEF Contract!Deliver
<1>8. CASE result' # NoResult
  <2>1. /\ result' \in [outcome : Outcomes \cup {NoOutcome}, err : BOOLEAN]
        /\ result'.err \in BOOLEAN
    BY <1>8 DEF IInv, TypeOK
  <2>2. CASE result'.err
    <3>1. Verdict' = "failed"
      BY <1>8, <2>2 DEF Verdict
    <3> QED
      BY <1>1, <1>2, <1>4, <1>6, <3>1 DEF Contract!Abort
  <2>3. CASE ~result'.err
    <3>1. Verdict' = "ok"
      BY <1>8, <2>3 DEF Verdict
    <3>2. Len(delivered') = written
      BY <1>1, <1>8, <2>3 DEF IInv, CompleteOnSuccess
    <3> QED
      BY <1>1, <1>2, <1>4, <3>1, <3>2 DEF Contract!Conclude
  <2> QED
    BY <2>1, <2>2, <2>3
<1> QED
  BY <1>7, <1>8

\* The plugin's announcement alone closes nothing: it is the next byte that does.
LEMMA AnnouncementStutters ==
    ASSUME IInv, BeginStreamCompletion
    PROVE  UNCHANGED <<written, Closing, delivered, Verdict>>
<1>1. /\ ~completing /\ announced' = written /\ written \in Nat
      /\ UNCHANGED <<written, delivered, result>>
  BY DEF BeginStreamCompletion, clientVars, IInv, TypeOK
<1>2. ~Closing /\ ~Closing'
  BY <1>1 DEF Closing
<1> QED
  BY <1>1, <1>2 DEF Closing, Verdict

\* The chunked, buffered, failing transport implements the contract, for every chunk
\* size, window and response. (streamWriter and forwardStream)
THEOREM Refinement == Spec => ImplementsContract
<1>1. Init => Contract!Init
  BY DEF Init, Contract!Init, Verdict
<1>2. IInv /\ IInv' /\ [Next]_vars => [Contract!Next]_(Contract!cvars)
  <2> SUFFICES ASSUME IInv, IInv', [Next]_vars
               PROVE  Contract!Next \/ UNCHANGED <<written, Closing, delivered, Verdict>>
    BY DEF Contract!cvars, Closing
  <2>1. CASE UNCHANGED abstractVars
    BY <2>1 DEF abstractVars, Closing, Verdict
  <2>2. CASE \E n \in 0..MaxBytes : Write(n)
    BY <2>2, WriteOffers DEF Contract!Next
  <2>3. CASE BeginStreamCompletion
    BY <2>3, AnnouncementStutters
  <2>4. CASE ClientRecv \/ ClientRecvError \/ ClientWrite
             \/ \E n \in 0..ChunkSize : ClientWriteFails(n)
    BY <2>1, <2>4, ClientDelivers DEF Contract!Next
  <2>5. CASE \/ FlushMeta \/ SendTail \/ SendData \/ SendEmpty \/ EndWrite
    BY <2>1, <2>5 DEF FlushMeta, SendTail, SendData, SendEmpty, EndWrite, writeFrame,
       clientVars, abstractVars
  <2>6. CASE \/ HandlerError \/ SendFinal \/ \E r \in Returns : PluginReturn(r)
    BY <2>1, <2>6 DEF HandlerError, SendFinal, PluginReturn, handlerFrame, writerVars,
       clientVars, abstractVars
  <2>7. CASE (\E c \in StatusCodes : WriteHeader(c)) \/ Break \/ Done \/ UNCHANGED vars
    BY <2>1, <2>7 DEF WriteHeader, Break, Done, vars, serverVars, writerVars, clientVars,
       abstractVars
  <2> QED
    BY <2>2, <2>3, <2>4, <2>5, <2>6, <2>7 DEF Next, Handler, Plugin, Client
<1> QED
  BY <1>1, <1>2, Inductive, PTL DEF Spec, ImplementsContract, Contract!Spec
=============================================================================
