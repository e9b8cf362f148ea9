----------------------------- MODULE RequestTrace -----------------------------
(***************************************************************************)
(* The trace of one Forward attempt: a Capture of at most MaxRequests      *)
(* exchanges, each with the bytes sent and received so far.                *)
(*                                                                         *)
(* The plugin's outbound calls run concurrently: an HTTP call publishes    *)
(* its exchange (record), has its request body observed as it is sent and  *)
(* its response as it is read; a WebSocket write publishes an exchange     *)
(* that the connection's reader then adds to.  Finish takes the snapshot   *)
(* of a failed attempt and releases everything, while calls may still be   *)
(* under way.                                                              *)
(*                                                                         *)
(* One action is one critical section.  An observer of events keeps its    *)
(* lock while it calls its exchange, so it has a lock of its own here.     *)
(* Bodies are their lengths, and so is an event.                           *)
(***************************************************************************)
EXTENDS Integers, Sequences, FiniteSets, SequencesExt

CONSTANTS
    Calls,        \* outbound calls of the attempt; each makes one exchange
    Shape,        \* of a call: [ws, replayable, stream : BOOLEAN, size : Nat]
    MaxRequests,  \* exchanges a capture keeps
    MaxBody,      \* maxBodyBytes: of one body, and of a whole snapshot
    MaxSent,      \* bound: bytes of a request body
    MaxReceived,  \* bound: bytes of a plain response
    None          \* no call

ASSUME TraceAssumption ==
    /\ Shape \in [Calls -> [ws : BOOLEAN, replayable : BOOLEAN,
                            stream : BOOLEAN, size : Nat]]
    /\ MaxRequests \in Nat \ {0, 1} /\ MaxBody \in Nat /\ MaxSent \in Nat
    /\ MaxReceived \in Nat
    /\ None \notin Calls /\ "Finish" \notin Calls

VARIABLES
    exchanges, closed,  \* Capture
    ex,                 \* the exchange of each call
    sent, response,     \* its bodyBuffers
    events,             \* its eventObserver: closed, locked, bytes held
    pc,                 \* where each call is
    todo,               \* what each release still has to do, per goroutine
    ws, reading,        \* WebSocket.exchange; what ReadMessage took of it
    fpc,                \* where Finish is
    list, cur, remaining, diagnostic,  \* locals of Snapshot
    published, evicted, sentBefore     \* history

capVars == <<exchanges, closed>>
bufVars == <<sent, response, events>>
snapVars == <<list, cur, remaining, diagnostic>>
vars == <<capVars, ex, bufVars, pc, todo, ws, reading, fpc, snapVars,
          published, evicted, sentBefore>>

Max2(a, b) == IF a < b THEN b ELSE a
Min2(a, b) == IF a < b THEN a ELSE b

EmptyBuffer == [data |-> 0, size |-> 0, closed |-> FALSE]

NoEvents == [data |-> 0, closed |-> FALSE, locked |-> FALSE]

\* An exchange with nothing in it; sent, response and events say whether it refers
\* to its buffer.
Blank == [closed |-> FALSE, known |-> FALSE, body |-> 0, size |-> 0,
          status |-> FALSE, sent |-> FALSE, response |-> FALSE,
          events |-> FALSE, event |-> 0]

Goroutines == Calls \cup {"Finish"}

Init ==
    /\ exchanges = <<>> /\ closed = FALSE
    /\ ex = [c \in Calls |-> Blank]
    /\ sent = [c \in Calls |-> EmptyBuffer]
    /\ response = [c \in Calls |-> EmptyBuffer]
    /\ events = [c \in Calls |-> NoEvents]
    /\ pc = [c \in Calls |-> "start"]
    /\ todo = [g \in Goroutines |-> <<>>]
    /\ ws = None /\ reading = None
    /\ fpc = "start"
    /\ list = <<>> /\ cur = Blank /\ remaining = 0 /\ diagnostic = <<>>
    /\ published = <<>> /\ evicted = {}
    /\ sentBefore = [c \in Calls |-> 0]

-----------------------------------------------------------------------------
(* Buffers and exchanges. *)

BufferWrite(b, n) ==
    IF b.closed THEN b
    ELSE [b EXCEPT !.size = @ + n, !.data = Min2(MaxBody, @ + n)]

ObserveEvent(e) == IF e.closed THEN e ELSE [e EXCEPT !.event = 1]

\* What Exchange.release does after it has cleared the exchange, buffer by buffer.
Part(kind, c) == IF ex[c][kind] THEN <<<<kind, c>>>> ELSE <<>>

Parts(c) == Part("sent", c) \o Part("response", c) \o Part("events", c)

\* One step of a release: the exchange under its lock, then each of its buffers
\* under theirs.
ReleaseExchange(g, c) ==
    /\ ex' = [ex EXCEPT ![c] = [Blank EXCEPT !.closed = TRUE]]
    /\ todo' = [todo EXCEPT ![g] = Parts(c) \o Tail(@)]
    /\ UNCHANGED bufVars

Released == [data |-> 0, size |-> 0, closed |-> TRUE]

ReleaseBuffer(g, kind, c) ==
    /\ kind = "events" => ~events[c].locked
    /\ sent' = IF kind = "sent" THEN [sent EXCEPT ![c] = Released] ELSE sent
    /\ response' = IF kind = "response" THEN [response EXCEPT ![c] = Released]
                   ELSE response
    /\ events' = IF kind = "events"
                 THEN [events EXCEPT ![c].closed = TRUE, ![c].data = 0]
                 ELSE events
    /\ todo' = [todo EXCEPT ![g] = Tail(@)]
    /\ UNCHANGED ex

Release(g) ==
    /\ todo[g] # <<>>
    /\ LET kind == todo[g][1][1]
           c == todo[g][1][2]
       IN  IF kind = "exchange" THEN ReleaseExchange(g, c)
           ELSE ReleaseBuffer(g, kind, c)
    /\ UNCHANGED <<capVars, pc, ws, reading, fpc, snapVars, published, evicted,
                   sentBefore>>

-----------------------------------------------------------------------------
(* A call: record, then its request body and its response.  A WebSocket write
   goes on to store the exchange it got. *)

\* Where a call goes that is not traced.
Untraced(c) == IF Shape[c].ws THEN "setNil" ELSE "done"

\* record looks whether the capture is open, and copies the request unlocked.
Check(c) ==
    /\ pc[c] = "start"
    /\ pc' = [pc EXCEPT ![c] = IF closed THEN Untraced(c) ELSE "copied"]
    /\ UNCHANGED <<capVars, ex, bufVars, todo, ws, reading, fpc, snapVars,
                   published, evicted, sentBefore>>

\* The request of a new exchange: a body that can be replayed, or is a message, is
\* copied if it is not too long; any other is observed as it is sent.
NewExchange(c) ==
    LET copied == Shape[c].ws \/ Shape[c].replayable
    IN  [Blank EXCEPT !.known = TRUE,
                      !.body = IF copied /\ Shape[c].size <= MaxBody
                               THEN Shape[c].size ELSE 0,
                      !.size = Shape[c].size,
                      !.status = Shape[c].ws,
                      !.sent = ~copied]

\* Mutant of Closed: publication trusts the first look.
ClosedIgnored == FALSE

\* record looks again before it publishes.
Closed == closed

\* Mutant of Evict: the oldest goes.
EvictOldest(list_) == Tail(list_)

\* The first request stays, the second oldest goes.
Evict(list_) == RemoveAt(list_, 2)

Publish(c) ==
    /\ pc[c] = "copied"
    /\ \/ /\ Closed
          /\ pc' = [pc EXCEPT ![c] = Untraced(c)]
          /\ sent' = [sent EXCEPT ![c] = Released]
          /\ UNCHANGED <<capVars, ex, todo, published, evicted>>
       \/ /\ ~Closed
          /\ ex' = [ex EXCEPT ![c] = NewExchange(c)]
          /\ pc' = [pc EXCEPT ![c] = IF Shape[c].ws THEN "set" ELSE "send"]
          /\ published' = Append(published, c)
          /\ IF Len(exchanges) < MaxRequests
             THEN /\ exchanges' = Append(exchanges, c)
                  /\ UNCHANGED <<todo, evicted>>
             ELSE /\ exchanges' = Append(Evict(exchanges), c)
                  /\ todo' = [todo EXCEPT ![c] = <<<<"exchange", exchanges[2]>>>>]
                  /\ evicted' = evicted \cup {exchanges[2]}
          /\ UNCHANGED <<closed, sent>>
    /\ UNCHANGED <<response, events, ws, reading, fpc, snapVars, sentBefore>>

\* The transport sends a byte of an observed request body; it may still do so after
\* the response has arrived, or Finish has returned.
SendBody(c) ==
    /\ pc[c] \in {"send", "wrap", "read", "observe"} /\ todo[c] = <<>>
    /\ ~Shape[c].ws /\ ~Shape[c].replayable
    /\ sent[c].size < MaxSent
    /\ sent' = [sent EXCEPT ![c] = BufferWrite(@, 1)]
    /\ UNCHANGED <<capVars, ex, response, events, pc, todo, ws, reading, fpc,
                   snapVars, published, evicted, sentBefore>>

\* The round trip fails, or WrapResponse begins with SetStatus.
Respond(c) ==
    /\ pc[c] = "send" /\ todo[c] = <<>>
    /\ \/ /\ pc' = [pc EXCEPT ![c] = "done"]
          /\ UNCHANGED ex
       \/ /\ pc' = [pc EXCEPT ![c] = "wrap"]
          /\ ex' = IF ex[c].closed THEN ex ELSE [ex EXCEPT ![c].status = TRUE]
    /\ UNCHANGED <<capVars, bufVars, todo, ws, reading, fpc, snapVars, published,
                   evicted, sentBefore>>

Wrap(c) ==
    /\ pc[c] = "wrap"
    /\ \/ /\ ex[c].closed
          /\ pc' = [pc EXCEPT ![c] = "done"]
          /\ UNCHANGED ex
       \/ /\ ~ex[c].closed
          /\ pc' = [pc EXCEPT ![c] = "read"]
          /\ ex' = IF Shape[c].stream THEN [ex EXCEPT ![c].events = TRUE]
                   ELSE [ex EXCEPT ![c].response = TRUE]
    /\ UNCHANGED <<capVars, bufVars, todo, ws, reading, fpc, snapVars, published,
                   evicted, sentBefore>>

\* The caller reads a byte of a plain response.
ReadBody(c) ==
    /\ pc[c] = "read" /\ ~Shape[c].stream
    /\ response[c].size < MaxReceived
    /\ response' = [response EXCEPT ![c] = BufferWrite(@, 1)]
    /\ UNCHANGED <<capVars, ex, sent, events, pc, todo, ws, reading, fpc,
                   snapVars, published, evicted, sentBefore>>

\* Mutant of Unlocked: write returns without its unlock.
UnlockedNot(o) == o

Unlocked(o) == [o EXCEPT !.locked = FALSE]

\* eventObserver.write: the bytes are held, or complete an event, which is handed on
\* with the observer locked; a released observer returns at once.
ReadEvents(c) ==
    /\ pc[c] = "read" /\ Shape[c].stream
    /\ ~events[c].locked
    /\ \/ /\ events[c].closed
          /\ events' = [events EXCEPT ![c] = Unlocked(@)]
          /\ UNCHANGED pc
       \/ /\ ~events[c].closed
          /\ events' = [events EXCEPT ![c].data = 1]
          /\ UNCHANGED pc
       \/ /\ ~events[c].closed
          /\ events' = [events EXCEPT ![c].data = 1, ![c].locked = TRUE]
          /\ pc' = [pc EXCEPT ![c] = "observe"]
    /\ UNCHANGED <<capVars, ex, sent, response, todo, ws, reading, fpc, snapVars,
                   published, evicted, sentBefore>>

\* flush: the event reaches the exchange, and write returns.
Flush(c) ==
    /\ pc[c] = "observe"
    /\ ex' = [ex EXCEPT ![c] = ObserveEvent(@)]
    /\ events' = [events EXCEPT ![c] = Unlocked([@ EXCEPT !.data = 0])]
    /\ pc' = [pc EXCEPT ![c] = "read"]
    /\ UNCHANGED <<capVars, sent, response, todo, ws, reading, fpc, snapVars,
                   published, evicted, sentBefore>>

\* WriteMessage stores what Record returned.
SetExchange(c) ==
    /\ pc[c] \in {"set", "setNil"} /\ todo[c] = <<>>
    /\ ws' = IF pc[c] = "set" THEN c ELSE None
    /\ pc' = [pc EXCEPT ![c] = "done"]
    /\ UNCHANGED <<capVars, ex, bufVars, todo, reading, fpc, snapVars, published,
                   evicted, sentBefore>>

\* ReadMessage has a message and looks which exchange it answers, ...
ReadMessage ==
    /\ reading = None /\ ws # None
    /\ reading' = ws
    /\ UNCHANGED <<capVars, ex, bufVars, pc, todo, ws, fpc, snapVars, published,
                   evicted, sentBefore>>

\* ... and adds it there.
ObserveMessage ==
    /\ reading # None
    /\ ex' = [ex EXCEPT ![reading] = ObserveEvent(@)]
    /\ reading' = None
    /\ UNCHANGED <<capVars, bufVars, pc, todo, ws, fpc, snapVars, published,
                   evicted, sentBefore>>

-----------------------------------------------------------------------------
(* Finish: Snapshot for a failed attempt, then release. *)

calls == <<capVars, ex, bufVars, pc, todo, ws, reading, published, evicted>>

Finish ==
    /\ fpc = "start"
    /\ fpc' \in {"snapshot", "release"}
    /\ UNCHANGED <<calls, snapVars, sentBefore>>

SnapshotList ==
    /\ fpc = "snapshot"
    /\ list' = exchanges
    /\ remaining' = MaxBody
    /\ sentBefore' = [c \in Calls |-> sent[c].size]
    /\ fpc' = IF exchanges = <<>> THEN "release" ELSE "exchange"
    /\ UNCHANGED <<calls, cur, diagnostic>>

\* The exchange Snapshot is at: it goes from the last to the first.
Index == Len(list) - Len(diagnostic)

SnapshotExchange ==
    /\ fpc = "exchange"
    /\ cur' = ex[list[Index]]
    /\ fpc' = "body"
    /\ UNCHANGED <<calls, list, remaining, diagnostic, sentBefore>>

\* Mutant of Fits: a truncated body is shown.
FitsTruncated(body, size) == body <= remaining

\* A body is shown whole or not at all.
Fits(body, size) == size <= body /\ body <= remaining

NextExchange(d) == IF Len(d) = Len(list) THEN "release" ELSE "exchange"

SnapshotBody ==
    /\ fpc = "body"
    /\ LET c == list[Index]
           body == IF cur.sent THEN sent[c].data ELSE cur.body
           size == Max2(Max2(cur.size, cur.body),
                        IF cur.sent THEN sent[c].size ELSE 0)
           shown == IF Fits(body, size) THEN body ELSE 0
           entry == [call |-> c, known |-> cur.known, body |-> shown,
                     size |-> size, whole |-> Fits(body, size), error |-> 0]
       IN  /\ diagnostic' = <<entry>> \o diagnostic
           /\ remaining' = remaining - shown
           /\ \/ /\ diagnostic = <<>>
                 /\ fpc' = "error"
                 /\ UNCHANGED cur
              \/ /\ diagnostic # <<>>
                 /\ fpc' = NextExchange(diagnostic')
                 /\ cur' = Blank
    /\ UNCHANGED <<calls, list, sentBefore>>

\* The response, or the last event, of the last exchange.
SnapshotError ==
    /\ fpc = "error"
    /\ LET c == Last(list)
           raw == IF ~cur.response THEN cur.event
                  ELSE IF response[c].size > response[c].data THEN 0
                  ELSE response[c].data
           shown == IF raw <= remaining THEN raw ELSE 0
       IN  /\ diagnostic' = [diagnostic EXCEPT ![1].error = shown]
           /\ remaining' = remaining - shown
    /\ fpc' = NextExchange(diagnostic)
    /\ cur' = Blank
    /\ UNCHANGED <<calls, list, sentBefore>>

ReleaseCapture ==
    /\ fpc = "release"
    /\ exchanges' = <<>> /\ closed' = TRUE
    /\ todo' = [todo EXCEPT !["Finish"] =
                    [i \in 1..Len(exchanges) |-> <<"exchange", exchanges[i]>>]]
    /\ fpc' = "releasing"
    /\ list' = <<>> /\ remaining' = 0
    /\ UNCHANGED <<ex, bufVars, pc, ws, reading, cur, diagnostic, published,
                   evicted, sentBefore>>

FinishReturns ==
    /\ fpc = "releasing" /\ todo["Finish"] = <<>>
    /\ fpc' = "done"
    /\ UNCHANGED <<calls, snapVars, sentBefore>>

-----------------------------------------------------------------------------
Call(c) ==
    \/ Check(c) \/ Publish(c) \/ SendBody(c) \/ Respond(c) \/ Wrap(c)
    \/ ReadBody(c) \/ ReadEvents(c) \/ Flush(c) \/ SetExchange(c)

FinishStep ==
    \/ SnapshotList \/ SnapshotExchange \/ SnapshotBody \/ SnapshotError
    \/ ReleaseCapture \/ FinishReturns

Next ==
    \/ \E c \in Calls : Call(c)
    \/ ReadMessage \/ ObserveMessage
    \/ Finish \/ FinishStep
    \/ \E g \in Goroutines : Release(g)

Spec == Init /\ [][Next]_vars

\* Goroutines that can run do: Finish goes on once it is called, an observer that
\* has its lock returns.  Release waits for the observer's lock, which a reader may
\* take again and again; sync.Mutex hands it to a waiter in the end.
FairSpec ==
    /\ Spec
    /\ WF_vars(FinishStep)
    /\ SF_vars(Release("Finish"))
    /\ \A c \in {d \in Calls : Shape[d].stream} : WF_vars(Flush(c))
-----------------------------------------------------------------------------
(* Properties. *)

\* The bytes a call still holds.
Held(c) == sent[c].data + response[c].data + events[c].data + ex[c].body
           + ex[c].event

\* When Finish has returned and evictions are through, the trace holds no byte of
\* any request, and no late response, body or event ever brings one back: "Drop
\* request-owned buffers even when an outer context or response is retained".
\* (the closed flags of Capture, Exchange, bodyBuffer and eventObserver)
NothingHeldAfterFinish ==
    fpc = "done" /\ (\A c \in Calls : todo[c] = <<>>)
        => \A c \in Calls : Held(c) = 0

\* An open capture has the first request and the latest ones, in the order they were
\* made. (record's eviction)
KeepsFirstAndLatest ==
    LET n == Len(published)
    IN  ~closed =>
            exchanges = IF n <= MaxRequests THEN published
                        ELSE <<published[1]>>
                             \o SubSeq(published, n - MaxRequests + 2, n)

\* What is left of the budget, and what every entry has taken of it, add up.
BudgetKept ==
    \E total \in [0..Len(diagnostic) -> 0..MaxBody] :
        /\ fpc \in {"exchange", "body", "error"} => total[0] = remaining
        /\ \A i \in 1..Len(diagnostic) :
               total[i] = total[i - 1] + (diagnostic[i].body + diagnostic[i].error)

HonestEntry(d) ==
    d.call \notin evicted =>
        /\ d.known
        /\ d.size >= sentBefore[d.call]
        /\ d.whole => d.body >= sentBefore[d.call]

\* A snapshot fits into one budget, all bodies and the error together, and where its
\* request is not evicted meanwhile it is honest although the body is still being
\* sent: it shows a known request, counts at least the bytes sent before, and a body
\* it shows is a whole one. (Snapshot's remaining, bodyBuffer.snapshot)
HonestSnapshot ==
    /\ BudgetKept
    /\ \A i \in 1..Len(diagnostic) : HonestEntry(diagnostic[i])

\* Finish returns: no observer that is busy with its exchange keeps it waiting.
\* (the observer's lock is taken before the exchange's, never after)
FinishEnds == (fpc # "start") ~> (fpc = "done")
=============================================================================
