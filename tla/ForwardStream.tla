---------------------------- MODULE ForwardStream ----------------------------
(***************************************************************************)
(* One streaming Forward call, end to end.                                 *)
(*                                                                         *)
(* On the plugin side GatewayGRPCServer.ForwardStream hands the plugin a   *)
(* streamWriter: an http.ResponseWriter that cuts what the plugin writes   *)
(* into gRPC messages.  After the plugin has announced its terminal event  *)
(* (BeginStreamCompletion) the writer holds back the last ChunkSize bytes, *)
(* so that they travel in the same message as the authoritative outcome.   *)
(* On the Core side GatewayGRPCClient.forwardStream receives the messages, *)
(* writes their bytes to the downstream HTTP response and returns the      *)
(* outcome that Core bills and schedules by.                               *)
(*                                                                         *)
(* Bytes are named by their position in the response: the plugin writes    *)
(* 1, 2, 3, ... in this order, so a lost, repeated or reordered byte shows *)
(* in any sequence of bytes.  One action is one call the plugin makes, one *)
(* stream.Send, one stream.Recv or one write to the downstream response.   *)
(***************************************************************************)
EXTENDS Integers, Sequences

CONSTANTS
    ChunkSize,    \* streamChunkSize: bytes in one ForwardChunk
    Window,       \* messages gRPC flow control lets Send buffer
    MaxBytes,     \* bound: bytes the plugin writes in one call
    MaxWrites,    \* bound: Write calls the plugin makes
    StatusCodes,  \* status codes the plugin passes to WriteHeader
    Returns,      \* what Impl.Forward may return, see PluginReturns
    NoOutcome,    \* no ForwardOutcome (a nil FinalOutcome)
    NoResult      \* forwardStream has not returned yet

(***************************************************************************)
(* What Impl.Forward returns: the verdict, whether it carries usage, the   *)
(* plugin's own reason ("" when it gives none), whether an error comes     *)
(* with it, and how the encoded outcome compares with the message limits:  *)
(* it fits, it fits once the diagnostic is dropped, or it never fits.      *)
(***************************************************************************)
Kinds == {"Unknown", "Success", "UpstreamTransient", "StreamAborted"}

PluginReturns ==
    [kind : Kinds, usage : BOOLEAN, reason : {"", "plugin"}, err : BOOLEAN,
     size : {"fits", "dropDiagnostic", "tooLarge"}]

\* ForwardOutcome as the wire and Core see it.
Outcomes ==
    [kind : Kinds, usage : BOOLEAN, reason : {"", "plugin", "err", "write"},
     scope : {"", "Terminal"}, diagnostic : BOOLEAN]

ASSUME StreamAssumption ==
    /\ ChunkSize \in Nat \ {0}
    /\ Window \in Nat \ {0}
    /\ MaxBytes \in Nat
    /\ MaxWrites \in Nat
    /\ StatusCodes \subseteq Nat \ {0}
    /\ Returns \subseteq PluginReturns
    /\ NoOutcome \notin Outcomes
    /\ \A o \in Outcomes, e \in BOOLEAN : NoResult # [outcome |-> o, err |-> e]
    /\ \A e \in BOOLEAN : NoResult # [outcome |-> NoOutcome, err |-> e]

VARIABLES
    \* streamWriter, and the locals of the Write call in progress
    code, wroteHeader, sent, completing, completionTail, swErr,
    data,        \* the part of Write's argument not yet sent
    sendBytes,   \* bytes this Write still has to send
    \* the handler and the plugin
    pc,          \* where the ForwardStream handler is
    returned,    \* what Impl.Forward returned
    writes,      \* Write calls made (bounded by MaxWrites)
    \* the RPC
    wire,        \* messages sent and not yet received
    broken,      \* the RPC's context is done: cancelled, or transport lost
    \* forwardStream and the downstream response
    cpc, chunk, responseStarted, status, delivered, result,
    \* history
    written,     \* bytes the plugin has handed to Write
    announced    \* value of written at BeginStreamCompletion

writerVars == <<code, wroteHeader, sent, completing, completionTail, swErr>>
clientVars == <<cpc, chunk, responseStarted, status, delivered, result>>
serverVars == <<writerVars, data, sendBytes, pc, returned, writes, written,
                announced>>
vars == <<serverVars, wire, broken, clientVars>>

Min2(a, b) == IF a <= b THEN a ELSE b
Max2(a, b) == IF a >= b THEN a ELSE b

(***************************************************************************)
(* Messages.  off is a history field, the number of response bytes sent    *)
(* before this message; no guard reads it.                                 *)
(***************************************************************************)
SentSoFar == written - Len(completionTail) - Len(data)

Chunk(c, d, f) == [off |-> SentSoFar, code |-> c, data |-> d, final |-> f]

Chunk0 == [off |-> 0, code |-> 0, data |-> <<>>, final |-> NoOutcome]

Messages ==
    [off : Nat, code : Nat, data : Seq(Nat), final : Outcomes \cup {NoOutcome}]

TypeOK ==
    /\ code \in Nat /\ status \in Nat
    /\ wroteHeader \in BOOLEAN /\ sent \in BOOLEAN /\ completing \in BOOLEAN
    /\ swErr \in BOOLEAN /\ broken \in BOOLEAN /\ responseStarted \in BOOLEAN
    /\ completionTail \in Seq(Nat) /\ data \in Seq(Nat) /\ delivered \in Seq(Nat)
    /\ sendBytes \in Nat /\ writes \in Nat
    /\ written \in Nat /\ announced \in Nat
    /\ pc \in {"plugin", "write", "writeEmpty", "finish", "ok", "error"}
    /\ cpc \in {"recv", "write", "done"}
    /\ returned \in Returns \cup {NoOutcome}
    /\ wire \in Seq(Messages)
    /\ chunk \in Messages
    /\ result \in [outcome : Outcomes \cup {NoOutcome}, err : BOOLEAN]
                    \cup {NoResult}

Init ==
    /\ code = 0 /\ wroteHeader = FALSE /\ sent = FALSE
    /\ completing = FALSE /\ completionTail = <<>> /\ swErr = FALSE
    /\ data = <<>> /\ sendBytes = 0
    /\ pc = "plugin" /\ returned = NoOutcome /\ writes = 0
    /\ wire = <<>> /\ broken = FALSE
    /\ cpc = "recv" /\ chunk = Chunk0 /\ result = NoResult
    /\ responseStarted = FALSE /\ status = 0 /\ delivered = <<>>
    /\ written = 0 /\ announced = 0

-----------------------------------------------------------------------------
(***************************************************************************)
(* stream.Send.  A send succeeds while flow control has room.  Once the    *)
(* RPC is broken a send may fail, and a failed send may still have reached *)
(* the peer; an RPC that breaks under a full window releases the sender.   *)
(***************************************************************************)
SendOK(m) ==
    /\ Len(wire) < Window
    /\ wire' = Append(wire, m)

SendFails(m) ==
    /\ broken
    /\ \/ wire' = wire
       \/ wire' = Append(wire, m)

\* streamWriter.fail: the first error sticks and the held back bytes go.
Fail ==
    /\ swErr' = TRUE
    /\ completionTail' = <<>>

-----------------------------------------------------------------------------
(* What the plugin calls while Impl.Forward runs. *)

\* BeginStreamCompletion
BeginStreamCompletion ==
    /\ pc = "plugin" /\ ~completing
    /\ completing' = TRUE
    /\ announced' = written
    /\ UNCHANGED <<code, wroteHeader, sent, completionTail, swErr, data,
                   sendBytes, pc, returned, writes, wire, broken, clientVars,
                   written>>

\* WriteHeader: ignored once the headers are sent or a code is chosen.
WriteHeader(c) ==
    /\ pc = "plugin"
    /\ ~sent /\ ~wroteHeader
    /\ code' = c
    /\ wroteHeader' = TRUE
    /\ UNCHANGED <<sent, completing, completionTail, swErr, data, sendBytes, pc,
                   returned, writes, wire, broken, clientVars, written,
                   announced>>

\* Mutants of SendBytes: no clamp at zero, nothing held back, two chunks held back.
SendBytesUnclamped(n) ==
    IF completing THEN Len(completionTail) + n - ChunkSize ELSE n
SendBytesAll(n) ==
    IF completing THEN Len(completionTail) + n ELSE n
SendBytesTwoChunks(n) ==
    IF completing THEN Max2(0, Len(completionTail) + n - 2 * ChunkSize) ELSE n

\* What this Write sends now; while completing, one chunk stays behind.
SendBytes(n) ==
    IF completing THEN Max2(0, Len(completionTail) + n - ChunkSize) ELSE n

\* Write with n bytes.  After a failure Write returns the error at once, so
\* only the call on a healthy writer has a step.
Write(n) ==
    /\ pc = "plugin"
    /\ ~swErr
    /\ writes < MaxWrites
    /\ written + n <= MaxBytes
    /\ writes' = writes + 1
    /\ written' = written + n
    /\ data' = [i \in 1..n |-> written + i]
    /\ sendBytes' = SendBytes(n)
    /\ pc' = IF n = 0 /\ ~completing THEN "writeEmpty" ELSE "write"
    /\ UNCHANGED <<writerVars, returned, wire, broken, clientVars, announced>>

InWrite == pc \in {"write", "writeEmpty"}

\* What no step of Write changes.
writeFrame == <<code, wroteHeader, completing, returned, writes, broken,
                clientVars, written, announced>>

\* A failed Send ends Write with the error; its unsent bytes are dropped.
AbandonWrite ==
    /\ Fail
    /\ data' = <<>>
    /\ sendBytes' = 0
    /\ pc' = IF InWrite THEN "plugin" ELSE "error"

\* Impl.Forward returned an error and no verdict: the error is all there is.
NoVerdict == returned.err /\ returned.kind = "Unknown"

\* flushMeta: status and headers go out once, before the first byte.  The
\* first step of Write, and of the handler when only WriteHeader was called.
Meta == Chunk(IF code = 0 THEN 200 ELSE code, <<>>, NoOutcome)

FlushMeta ==
    /\ InWrite \/ (pc = "finish" /\ wroteHeader /\ ~NoVerdict)
    /\ ~sent /\ ~swErr
    /\ sent' = TRUE
    /\ \/ /\ SendOK(Meta)
          /\ UNCHANGED <<completionTail, swErr, data, sendBytes, pc>>
       \/ /\ SendFails(Meta) \/ UNCHANGED wire  \* or the headers are too large
          /\ AbandonWrite
    /\ UNCHANGED writeFrame

\* Write, completing: the oldest held back bytes make room for the new ones.
SendTail ==
    /\ pc = "write" /\ sent /\ completing
    /\ LET n == Min2(sendBytes, Len(completionTail))
           m == Chunk(0, SubSeq(completionTail, 1, n), NoOutcome)
       IN  /\ n > 0
           /\ \/ /\ SendOK(m)
                 /\ completionTail' =
                        SubSeq(completionTail, n + 1, Len(completionTail))
                 /\ sendBytes' = sendBytes - n
                 /\ UNCHANGED <<swErr, data, pc>>
              \/ SendFails(m) /\ AbandonWrite
    /\ UNCHANGED <<sent, writeFrame>>

\* Mutant of TailSent: new bytes overtake the held back ones.
TailSentIgnored == TRUE

\* This Write has nothing of the tail left to send.
TailSent == completing => Min2(sendBytes, Len(completionTail)) = 0

\* Write: the next piece of the argument, ChunkSize bytes at most.
SendData ==
    /\ pc = "write" /\ sent
    /\ TailSent
    /\ sendBytes > 0
    /\ LET n == Min2(sendBytes, ChunkSize)
           m == Chunk(0, SubSeq(data, 1, n), NoOutcome)
       IN  \/ /\ SendOK(m)
              /\ data' = SubSeq(data, n + 1, Len(data))
              /\ sendBytes' = sendBytes - n
              /\ UNCHANGED <<completionTail, swErr, pc>>
           \/ SendFails(m) /\ AbandonWrite
    /\ UNCHANGED <<sent, writeFrame>>

\* Write(nil) before completion still sends one empty message.
SendEmpty ==
    /\ pc = "writeEmpty" /\ sent
    /\ LET m == Chunk(0, <<>>, NoOutcome)
       IN  \/ /\ SendOK(m)
              /\ pc' = "plugin"
              /\ UNCHANGED <<completionTail, swErr, data, sendBytes>>
           \/ SendFails(m) /\ AbandonWrite
    /\ UNCHANGED <<sent, writeFrame>>

\* Write returns; while completing, the rest of the argument joins the tail.
EndWrite ==
    /\ pc = "write" /\ sent
    /\ sendBytes = 0
    /\ completionTail' = completionTail \o data
    /\ data' = <<>>
    /\ pc' = "plugin"
    /\ UNCHANGED <<sent, swErr, sendBytes, wire, writeFrame>>

-----------------------------------------------------------------------------
(* The handler after Impl.Forward has returned. *)

\* What no step of the handler after the plugin's return changes.
handlerFrame == <<writerVars, data, sendBytes, writes, broken, clientVars,
                  written, announced>>

PluginReturn(r) ==
    /\ pc = "plugin"
    /\ returned' = r
    /\ pc' = "finish"
    /\ UNCHANGED <<wire, handlerFrame>>

\* Mutant of HandlerFails: the writer's error is not looked at.
HandlerFailsIgnoringWriter ==
    \/ NoVerdict
    \/ (wroteHeader => sent) /\ returned.size = "tooLarge"

\* The error returns: a failed Send, an error with no verdict, an outcome
\* that no longer fits a message.
HandlerFails ==
    \/ swErr
    \/ NoVerdict
    \/ (wroteHeader => sent) /\ returned.size = "tooLarge"

HandlerError ==
    /\ pc = "finish"
    /\ HandlerFails
    /\ pc' = "error"
    /\ UNCHANGED <<returned, wire, handlerFrame>>

\* The error becomes the reason of a verdict that has none, and a diagnostic
\* that makes the message too large is dropped.
FinalOutcome ==
    [kind       |-> returned.kind,
     usage      |-> returned.usage,
     reason     |-> IF returned.err /\ returned.reason = ""
                    THEN "err" ELSE returned.reason,
     scope      |-> "",
     diagnostic |-> returned.size # "dropDiagnostic"]

\* Mutant of FinalData: the final message carries no bytes.
FinalDataNone == <<>>

\* The bytes of the final message.
FinalData == completionTail

\* The final message carries the verdict and the held back bytes.
SendFinal ==
    /\ pc = "finish"
    /\ ~HandlerFails
    /\ wroteHeader => sent
    /\ LET m == Chunk(0, FinalData, FinalOutcome)
       IN  \/ SendOK(m) /\ pc' = "ok"
           \/ SendFails(m) /\ pc' = "error"
    /\ UNCHANGED <<returned, handlerFrame>>

-----------------------------------------------------------------------------
(* forwardStream on the Core side. *)

\* Mutant of Return: the RPC is left open.
ReturnWithoutCancel(o, e) ==
    /\ cpc' = "done"
    /\ result' = [outcome |-> o, err |-> e]
    /\ UNCHANGED broken

\* The deferred cancel runs on every return.
Return(o, e) ==
    /\ cpc' = "done"
    /\ result' = [outcome |-> o, err |-> e]
    /\ broken' = TRUE

\* Recv, decode the outcome, commit status and headers on the first message
\* that carries any.
ClientRecv ==
    /\ cpc = "recv"
    /\ wire # <<>>
    /\ LET m == Head(wire)
       IN  /\ chunk' = m
           /\ wire' = Tail(wire)
           /\ IF ~responseStarted /\ (m.code # 0 \/ m.data # <<>>)
              THEN /\ responseStarted' = TRUE
                   /\ status' = IF m.code = 0 THEN 200 ELSE m.code
              ELSE UNCHANGED <<responseStarted, status>>
           /\ \/ /\ m.data # <<>>
                 /\ cpc' = "write"
                 /\ UNCHANGED <<result, broken>>
              \/ /\ m.data = <<>> /\ m.final # NoOutcome
                 /\ Return(m.final, FALSE)
              \/ /\ m.data = <<>> /\ m.final = NoOutcome
                 /\ UNCHANGED <<cpc, result, broken>>
    /\ UNCHANGED <<serverVars, delivered>>

\* Recv fails: the RPC is broken, or the handler ended without an outcome.
ClientRecvError ==
    /\ cpc = "recv"
    /\ broken \/ (wire = <<>> /\ pc \in {"ok", "error"})
    /\ Return(NoOutcome, TRUE)
    /\ UNCHANGED <<serverVars, wire, chunk, responseStarted, status, delivered>>

\* Writer.Write takes all of the message.
ClientWrite ==
    /\ cpc = "write"
    /\ delivered' = delivered \o chunk.data
    /\ IF chunk.final # NoOutcome
       THEN Return(chunk.final, FALSE)
       ELSE cpc' = "recv" /\ UNCHANGED <<result, broken>>
    /\ UNCHANGED <<serverVars, wire, chunk, responseStarted, status>>

\* Mutant of AbortedOutcome: the plugin's verdict is passed on.
AbortedOutcomeUntouched(o) == o

\* The outcome of a response whose last bytes could not be written.
AbortedOutcome(o) ==
    [o EXCEPT !.kind = "StreamAborted", !.scope = "Terminal", !.reason = "write"]

\* Writer.Write fails, or takes only n bytes.
ClientWriteFails(n) ==
    /\ cpc = "write"
    /\ n <= Len(chunk.data)
    /\ delivered' = delivered \o SubSeq(chunk.data, 1, n)
    /\ IF chunk.final # NoOutcome
       THEN Return(AbortedOutcome(chunk.final), TRUE)
       ELSE Return(NoOutcome, TRUE)
    /\ UNCHANGED <<serverVars, wire, chunk, responseStarted, status>>

\* The caller's context is cancelled, or the transport to the plugin is lost.
Break ==
    /\ ~broken
    /\ broken' = TRUE
    /\ UNCHANGED <<serverVars, wire, clientVars>>

-----------------------------------------------------------------------------
Handler == FlushMeta \/ SendTail \/ SendData \/ SendEmpty \/ EndWrite
             \/ HandlerError \/ SendFinal

Client == ClientRecv \/ ClientRecvError \/ ClientWrite

Plugin ==
    \/ BeginStreamCompletion
    \/ \E c \in StatusCodes : WriteHeader(c)
    \/ \E n \in 0..MaxBytes : Write(n)

\* The call is over on both sides.
Done ==
    /\ pc \in {"ok", "error"} /\ cpc = "done"
    /\ UNCHANGED vars

Next ==
    \/ Handler \/ Plugin \/ Client \/ Break \/ Done
    \/ \E r \in Returns : PluginReturn(r)
    \/ \E n \in 0..ChunkSize : ClientWriteFails(n)

Spec == Init /\ [][Next]_vars

(***************************************************************************)
(* Fairness.  Go schedules the handler's and the client's goroutine, and   *)
(* the downstream write returns; the plugin's Forward returns some time.   *)
(* Nothing forces the plugin to write or the RPC to break.                 *)
(***************************************************************************)
Fairness ==
    /\ WF_vars(Handler)
    /\ WF_vars(Client)
    /\ WF_vars(\E r \in Returns : PluginReturn(r))

FairSpec == Spec /\ Fairness
-----------------------------------------------------------------------------
(* Properties. *)

Verdict == IF result = NoResult THEN "none"
           ELSE IF result.err THEN "failed" ELSE "ok"

Contract == INSTANCE ResponseContract
            WITH closing <- completing /\ written > announced,
                 verdict <- Verdict

\* The chunked, buffered, failing transport implements the contract: one ordered
\* stream whose end arrives with the verdict. (streamWriter and forwardStream)
ImplementsContract == Contract!Spec

\* Whatever fails, the downstream client has received the plugin's bytes in the
\* order the plugin wrote them, from the first on, none twice and none left out.
\* (streamWriter.Write's chunking and tail, forwardStream's loop)
OrderedDelivery ==
    /\ Len(delivered) <= written
    /\ \A i \in 1..Len(delivered) : delivered[i] = i

\* When Core's Forward returns without an error the downstream client has every
\* byte the plugin wrote and the verdict is the plugin's, even if the plugin
\* ignored a write error on its way. (ForwardStream tests sw.err first)
CompleteOnSuccess ==
    result # NoResult /\ result.err = FALSE =>
        /\ Len(delivered) = written
        /\ result.outcome # NoOutcome
        /\ result.outcome.kind = returned.kind
        /\ result.outcome.usage = returned.usage

\* The downstream client may close the connection as soon as it has the complete
\* terminal event. By then Core holds the outcome with the usage to bill.
\* (the completion tail travels with FinalOutcome)
TerminalBytesCarryOutcome ==
    completing /\ written > announced /\ Len(delivered) = written =>
        /\ result # NoResult
        /\ result.outcome # NoOutcome
        /\ result.outcome.usage = returned.usage

\* A verdict that reached Core together with bytes that could not all be written
\* is reported as an aborted stream that must not be replayed; usage is kept.
\* (forwardStream's hasFinal branch after a failed or short Write)
PartialDeliveryIsTerminal ==
    result # NoResult =>
        (result.outcome # NoOutcome /\ Len(delivered) < written =>
            /\ result.err
            /\ result.outcome.kind = "StreamAborted"
            /\ result.outcome.scope = "Terminal"
            /\ result.outcome.usage = returned.usage)

\* After one failed Send nothing is put on the stream again, neither bytes nor a
\* final success: the failed message may have arrived. (streamWriter.fail)
NoSendAfterFailure == [][swErr => Len(wire') <= Len(wire)]_vars

\* Neither the held back tail nor any message exceeds one chunk, whatever sizes
\* the plugin writes: the peer's receive limit is never hit by response bytes.
\* (streamChunkSize)
BoundedMessages ==
    /\ Len(completionTail) <= ChunkSize
    /\ \A i \in 1..Len(wire) : Len(wire[i].data) <= ChunkSize

\* Both sides end: Core's Forward returns, and the plugin's handler is never left
\* blocked in Send, because forwardStream cancels the RPC on every return.
CallEnds == <>(pc \in {"ok", "error"} /\ cpc = "done")

=============================================================================
