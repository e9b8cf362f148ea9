---------------------------- MODULE PluginResponses ----------------------------
(***************************************************************************)
(* The three other ways a plugin answers a call of Core, besides the       *)
(* streaming Forward: unary Forward and HandleRequest collect what the     *)
(* plugin writes in a bufferWriter with a budget, HandleStreamRequest sends*)
(* it in chunks through a streamResponseWriter. The requests of the latter *)
(* two are matched to a handler by the ExtensionRouter first.              *)
(*                                                                         *)
(* One call. The bytes the plugin passes to Write are 1, 2, 3, ... in this *)
(* order; the body an outcome brings along consists of zeros.              *)
(***************************************************************************)
EXTENDS ExtensionRouter

CONSTANTS
    MaxBuffered,  \* MaxBufferedResponseBytes
    ChunkSize,    \* streamChunkSize
    MaxWrites,    \* bound: calls of Write and WriteHeader
    MaxBytes,     \* bound: bytes in all
    Codes,        \* status codes the plugin sets
    None

ASSUME ResponsesAssumption ==
    /\ MaxBuffered \in Nat
    /\ ChunkSize \in Nat \ {0}
    /\ MaxWrites \in Nat
    /\ MaxBytes \in Nat
    /\ Codes \subseteq Nat \ {0}
    /\ None \notin {404, 500, 501}
    /\ None \notin {"limit", "send", "message", "plugin"}

Modes == {"forward", "request", "stream"}

\* What the plugin's Forward returns: its verdict, its error, the body and status
\* of its own, and how much of the message fits its budget.
Verdicts ==
    [kind : {"Unknown", "Success"}, err : BOOLEAN, reason : BOOLEAN, own : 0..(MaxBuffered + 1),
     status : {0} \cup Codes, size : {"fits", "diagnostic", "over"}]

VARIABLES
    mode, headers,         \* the call, whether its headers fit a message
    fault,                 \* "noRouter", "badRequest" (pbRequestToHTTP fails) or None
    pc,                    \* "register", "match", "handler", "send" or "done"
    calls, offered,        \* calls the plugin made, and bytes it passed to Write
    code, err, cancelled,  \* statusCode, err and the context of either writer
    body,                  \* bufferWriter.body
    headerSent, data,      \* streamResponseWriter.headerSent, the rest of a Write
    wire, received,        \* chunks that reached Core, and their bytes
    answer                 \* what the call returned

call == <<mode, headers, fault, routerVars>>
vars == <<call, pc, calls, offered, code, err, cancelled, body, headerSent, data,
          wire, received, answer>>

Bytes(from, n) == [i \in 1..n |-> from + i]

Init ==
    /\ mode \in Modes
    /\ fault \in {None, "noRouter", "badRequest"}
    /\ mode = "forward" => fault = None
    /\ headers \in {"fit", "over"}
    /\ RouterInit
    /\ pc = IF mode = "forward" \/ fault = "noRouter" THEN "match" ELSE "register"
    /\ calls = 0 /\ offered = 0
    /\ code = 0 /\ err = None /\ cancelled = FALSE
    /\ body = <<>>
    /\ headerSent = FALSE /\ data = <<>>
    /\ wire = <<>> /\ received = <<>>
    /\ answer = None

Failed(e) == [error |-> e, status |-> 0, body |-> <<>>, verdict |-> None]
Answered(s, b, v) == [error |-> None, status |-> s, body |-> b, verdict |-> v]

\* stream.Send: the chunk arrives, or the send fails and it may have arrived.
Send(chunk, ok) ==
    \/ /\ wire' = Append(wire, [status |-> chunk.status, done |-> chunk.done])
       /\ received' = received \o chunk.data
    \/ ~ok /\ UNCHANGED <<wire, received>>

\* RegisterRoutes, before the process serves.
Register(group, pattern) ==
    /\ pc = "register"
    /\ Handle(group, pattern)
    /\ UNCHANGED <<mode, headers, fault, pc, calls, offered, code, err, cancelled, body, headerSent,
                   data, wire, received, answer>>

\* A request arrives and is looked up.
Request(r) ==
    /\ pc = "register"
    /\ Match(r)
    /\ pc' = "match"
    /\ UNCHANGED <<mode, headers, fault, calls, offered, code, err, cancelled, body, headerSent, data,
                   wire, received, answer>>

MatchNext(key) ==
    /\ pc = "match"
    /\ Visit(key)
    /\ UNCHANGED <<mode, headers, fault, pc, calls, offered, code, err, cancelled, body, headerSent,
                   data, wire, received, answer>>

Matched == pc = "match" /\ unseen = {}

\* The status of a call that reaches no handler, or None.
Refusal ==
    CASE mode = "forward" -> None
      [] mode # "forward" /\ fault = "noRouter" -> 501
      [] mode # "forward" /\ fault # "noRouter" /\ best = Nobody -> 404
      [] mode # "forward" /\ fault = "badRequest" /\ best # Nobody -> 500
      [] OTHER -> None

\* The call is refused.
Unrouted ==
    /\ Matched /\ Refusal # None
    /\ \/ /\ mode = "request"
          /\ answer' = Answered(Refusal, <<0>>, None)
          /\ UNCHANGED <<wire, received>>
       \/ /\ mode = "stream"
          /\ \E ok \in BOOLEAN :
                 /\ Send([status |-> Refusal, done |-> TRUE, data |-> <<0>>], ok)
                 /\ answer' = IF ok THEN Answered(0, <<>>, None) ELSE Failed("send")
    /\ pc' = "done"
    /\ UNCHANGED <<call, calls, offered, code, err, cancelled, body, headerSent, data>>

\* The plugin's Forward or the route's handler runs.
Routed ==
    /\ Matched /\ Refusal = None
    /\ pc' = "handler"
    /\ UNCHANGED <<call, calls, offered, code, err, cancelled, body, headerSent, data,
                   wire, received, answer>>

CanCall == pc = "handler" /\ calls < MaxWrites

WriteHeader(c) ==
    /\ CanCall
    /\ calls' = calls + 1
    /\ code' = IF mode = "stream" /\ headerSent THEN code ELSE c
    /\ UNCHANGED <<call, pc, offered, err, cancelled, body, headerSent, data, wire,
                   received, answer>>

\* bufferWriter.Write refuses a piece that exceeds the budget, and everything after.
BufferWrite(n) ==
    /\ CanCall /\ mode # "stream"
    /\ calls' = calls + 1
    /\ offered' = offered + n
    /\ LET exceeds == err = None /\ n > MaxBuffered - Len(body)
           takes   == err = None /\ ~exceeds
       IN /\ err' = IF exceeds THEN "limit" ELSE err
          /\ cancelled' = (cancelled \/ exceeds)
          /\ code' = IF takes /\ code = 0 THEN 200 ELSE code
          /\ body' = IF takes THEN body \o Bytes(offered, n) ELSE body
    /\ UNCHANGED <<call, pc, headerSent, data, wire, received, answer>>

\* Mutant: Write forgets that an earlier one has failed.
StreamWriteAgain(n) ==
    /\ CanCall /\ mode = "stream"
    /\ calls' = calls + 1
    /\ offered' = offered + n
    /\ pc' = "send" /\ data' = Bytes(offered, n)
    /\ UNCHANGED <<call, code, err, cancelled, body, headerSent, wire, received, answer>>

\* streamResponseWriter.Write begins; after an error it only returns it.
StreamWrite(n) ==
    /\ CanCall /\ mode = "stream"
    /\ calls' = calls + 1
    /\ offered' = offered + n
    /\ IF err = None
       THEN pc' = "send" /\ data' = Bytes(offered, n)
       ELSE UNCHANGED <<pc, data>>
    /\ UNCHANGED <<call, code, err, cancelled, body, headerSent, wire, received, answer>>

\* One pass of Write's loop: the first chunk of all brings status and headers, and a
\* chunk whose headers do not fit is not sent.
SendChunk(ok) ==
    LET n     == IF Len(data) < ChunkSize THEN Len(data) ELSE ChunkSize
        first == ~headerSent
        fits  == ~first \/ headers = "fit"
        code2 == IF code = 0 THEN 200 ELSE code
    IN /\ pc = "send"
       /\ ok => fits
       /\ headerSent' = TRUE
       /\ code' = IF first THEN code2 ELSE code
       /\ IF fits
          THEN Send([status |-> IF first THEN code2 ELSE 0, done |-> FALSE,
                     data |-> SubSeq(data, 1, n)], ok)
          ELSE UNCHANGED <<wire, received>>
       /\ data' = IF ok THEN SubSeq(data, n + 1, Len(data)) ELSE <<>>
       /\ err' = IF ok THEN None ELSE IF fits THEN "send" ELSE "message"
       /\ cancelled' = (cancelled \/ ~ok)
       /\ pc' = IF ok /\ n < Len(data) THEN "send" ELSE "handler"
       /\ UNCHANGED <<call, calls, offered, body, answer>>

\* checkedOutcome: an own body beyond the budget, or a message that is too large
\* even without its diagnostic, becomes an error. An error that came with the
\* verdict is its reason, if it has none.
CheckedOutcome(v, s, b) ==
    IF Len(b) > MaxBuffered \/ v.size = "over" THEN Failed("message")
    ELSE Answered(s, b, [kind |-> v.kind, reason |-> v.reason \/ v.err,
                         diagnostic |-> v.size = "fits"])

\* Mutant: the verdict is looked at before the writer's error.
ForwardAnswerUnchecked(v) ==
    IF v.err /\ v.kind = "Unknown" THEN Failed("plugin")
    ELSE IF body # <<>> /\ v.own = 0
         THEN CheckedOutcome(v, IF v.status = 0 THEN code ELSE v.status, body)
         ELSE CheckedOutcome(v, v.status, [i \in 1..v.own |-> 0])

\* What Forward makes of the plugin's verdict v and the bufferWriter.
ForwardAnswer(v) ==
    CASE v.err /\ v.kind = "Unknown" -> Failed("plugin")
      [] ~(v.err /\ v.kind = "Unknown") /\ err # None -> Failed(err)
      [] OTHER ->
           IF body # <<>> /\ v.own = 0
           THEN CheckedOutcome(v, IF v.status = 0 THEN code ELSE v.status, body)
           ELSE CheckedOutcome(v, v.status, [i \in 1..v.own |-> 0])

ForwardReturns(v) ==
    /\ pc = "handler" /\ mode = "forward"
    /\ answer' = ForwardAnswer(v)
    /\ pc' = "done"
    /\ UNCHANGED <<call, calls, offered, code, err, cancelled, body, headerSent, data,
                   wire, received>>

RequestReturns ==
    /\ pc = "handler" /\ mode = "request"
    /\ answer' = IF err # None THEN Failed(err)
                 ELSE IF headers = "over" THEN Failed("message")
                 ELSE Answered(IF code = 0 THEN 200 ELSE code, body, None)
    /\ pc' = "done"
    /\ UNCHANGED <<call, calls, offered, code, err, cancelled, body, headerSent, data,
                   wire, received>>

\* Mutant: the last chunk goes out whatever happened before.
StreamReturnsDone ==
    /\ pc = "handler" /\ mode = "stream"
    /\ Send([status |-> 0, done |-> TRUE, data |-> <<>>], TRUE)
    /\ answer' = Answered(0, <<>>, None)
    /\ pc' = "done"
    /\ UNCHANGED <<call, calls, offered, code, err, cancelled, body, headerSent, data>>

\* The handler of a stream has returned: its error is the call's, else the last
\* chunk goes out.
StreamReturns ==
    /\ pc = "handler" /\ mode = "stream"
    /\ IF err # None
       THEN answer' = Failed(err) /\ UNCHANGED <<wire, received>>
       ELSE \E ok \in BOOLEAN :
                /\ Send([status |-> 0, done |-> TRUE, data |-> <<>>], ok)
                /\ answer' = IF ok THEN Answered(0, <<>>, None) ELSE Failed("send")
    /\ pc' = "done"
    /\ UNCHANGED <<call, calls, offered, code, err, cancelled, body, headerSent, data>>

Next ==
    \/ \E g \in Groups, p \in Patterns : Register(g, p)
    \/ \E r \in Requests : Request(r)
    \/ \E key \in unseen : MatchNext(key)
    \/ Unrouted \/ Routed
    \/ \E c \in Codes : WriteHeader(c)
    \/ \E n \in 0..(MaxBytes - offered) : BufferWrite(n) \/ StreamWrite(n)
    \/ \E ok \in BOOLEAN : SendChunk(ok)
    \/ \E v \in Verdicts : ForwardReturns(v)
    \/ RequestReturns \/ StreamReturns

Spec == Init /\ [][Next]_vars
-----------------------------------------------------------------------------
(* Properties. *)

\* A registered key accepts the request.
Accepts(key) ==
    key.method = request.method /\ (key.path = request.path \/
        (IsPattern(key) /\ IsPrefix(key.path, request.path)))

\* A request runs the handler registered last for the most specific key that accepts
\* it, in whatever order the map is walked and whichever group the key came through;
\* it is not found only when no key accepts it (extensionRouter.match).
MostSpecificRoute ==
    pc \notin {"register", "match"} /\ mode # "forward" /\ fault # "noRouter" =>
        LET accepting == {i \in DOMAIN registered : Accepts(registered[i])}
        IN  IF best = Nobody THEN accepting = {}
            ELSE /\ best.handler \in accepting
                 /\ \A i \in accepting :
                     LET chosen == registered[best.handler]
                     IN  /\ Len(registered[i].path) <= Len(chosen.path)
                         /\ registered[i] = chosen => i <= best.handler

\* A buffered answer without an error is whole: it has the body of the outcome, or
\* every byte the plugin passed to Write, in order, none refused on the way
\* (bufferWriter.Write, Forward, HandleRequest).
AnswerIsWhole ==
    answer # None /\ mode # "stream" /\ Refusal = None /\ answer.error = None =>
        \/ answer.body = Bytes(0, offered)
        \/ /\ mode = "forward" /\ answer.body # <<>>
           /\ \A i \in 1..Len(answer.body) : answer.body[i] = 0

\* Core reads a prefix of what the handler wrote, no byte of it before the status,
\* which no chunk but the first has; a chunk marked done is the last one and nothing
\* is missing before it (streamResponseWriter.Write, HandleStreamRequest).
StreamIsWhole ==
    /\ \A i \in 1..Len(wire) : i > 1 => wire[i].status = 0
    /\ Refusal = None /\ received # <<>> => wire[1].status # 0
    /\ \A i \in 1..Len(wire) : wire[i].done => i = Len(wire) /\ pc = "done"
    /\ Refusal = None => received = Bytes(0, Len(received))
    /\ wire # <<>> /\ wire[Len(wire)].done /\ Refusal = None => Len(received) = offered

\* Once a chunk could not be sent nothing follows on the stream, whatever the
\* handler does with the errors it gets from Write (streamResponseWriter.err).
SilentAfterError == [][err # None => UNCHANGED <<wire, received>>]_vars
=============================================================================
