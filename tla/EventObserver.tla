----------------------------- MODULE EventObserver -----------------------------
(***************************************************************************)
(* The SSE observer of a traced response: it sees the bytes as the caller  *)
(* reads them, in pieces of any size, and keeps the payload of the last    *)
(* event for the diagnostic of a failed request.  A step of write is one   *)
(* round of its loop.                                                      *)
(*                                                                         *)
(* A byte is a token: the line ends CR and LF, the field name "data:", a   *)
(* space, the terminator "[DONE]" and x for anything else.  Lengths count  *)
(* tokens.                                                                 *)
(***************************************************************************)
EXTENDS Integers, Sequences, FiniteSetsExt

CONSTANTS
    MaxEventBytes,  \* longest line and longest event kept
    MaxRead,        \* bound: bytes returned by one Read
    MaxInput        \* bound: bytes of the response

ASSUME ObserverAssumption ==
    MaxEventBytes \in Nat \ {0} /\ MaxRead \in Nat /\ MaxInput \in Nat

Tokens == {"CR", "LF", "data:", "sp", "x", "[DONE]"}

\* Where a line ends; a CR takes an LF after it along.
LineBreaks == {"CR", "LF"}

VARIABLES
    observer,  \* the eventObserver; observer.event is the event its exchange has
    rest,      \* what a write has yet to consume; it holds the lock until nothing is left
    state,     \* of the response body: open, ended; or the trace is released
    input      \* history: the bytes consumed before a release

observerVars == <<observer, rest, state, input>>

ObserverInit ==
    /\ observer = [line |-> <<>>, data |-> <<>>, skipLine |-> FALSE,
            skipEvent |-> FALSE, skipLF |-> FALSE, event |-> <<>>]
    /\ rest = <<>>
    /\ state = "open"
    /\ input = <<>>

-----------------------------------------------------------------------------
(* What write and finish do to the observer o. *)

\* flush: an event that is empty or only says [DONE] is none.
FlushEvent(o) ==
    LET payload == SubSeq(o.data, 1, Len(o.data) - 1)
    IN  [o EXCEPT !.event = IF o.skipEvent \/ payload \in {<<>>, <<"[DONE]">>}
                            THEN @ ELSE payload,
                  !.data = <<>>,
                  !.skipEvent = FALSE]

ConsumeData(o, payload) ==
    IF Len(o.data) + Len(payload) + 1 > MaxEventBytes
    THEN [o EXCEPT !.data = <<>>, !.skipEvent = TRUE]
    ELSE [o EXCEPT !.data = @ \o Append(payload, "NL")]

ConsumeLine(o, line) ==
    IF line = <<>> THEN FlushEvent(o)
    ELSE IF line[1] # "data:" \/ o.skipEvent THEN o
    ELSE LET value == Tail(line)
         IN  ConsumeData(o, IF value # <<>> /\ value[1] = "sp" THEN Tail(value)
                            ELSE value)

\* Mutant of TakeChunk: the limit looks at one read only.
TakeChunkEach(o, chunk) ==
    IF o.skipLine THEN o
    ELSE IF Len(chunk) > MaxEventBytes
    THEN [o EXCEPT !.line = <<>>, !.skipLine = TRUE, !.skipEvent = TRUE]
    ELSE [o EXCEPT !.line = @ \o chunk]

\* A line that is too long is dropped with its whole event.
TakeChunk(o, chunk) ==
    IF o.skipLine THEN o
    ELSE IF Len(o.line) + Len(chunk) > MaxEventBytes
    THEN [o EXCEPT !.line = <<>>, !.skipLine = TRUE, !.skipEvent = TRUE]
    ELSE [o EXCEPT !.line = @ \o chunk]

EndLine(o, end) ==
    [(IF o.skipLine THEN o ELSE ConsumeLine(o, o.line)) EXCEPT
        !.line = <<>>, !.skipLine = FALSE, !.skipLF = (end = "CR")]

\* The last event need not be terminated.
FinishEvent(o) ==
    LET last == IF ~o.skipLine /\ o.line # <<>> THEN ConsumeLine(o, o.line) ELSE o
    IN  [FlushEvent([last EXCEPT !.line = <<>>]) EXCEPT !.data = <<>>]

-----------------------------------------------------------------------------
Reads == UNION {[1..n -> Tokens] : n \in 1..MaxRead}

\* Mutant of Read: a CR at the end of a read is forgotten.
ReadForgetsCR(p) ==
    /\ rest = <<>>
    /\ Len(input) + Len(p) <= MaxInput
    /\ state = "open"
    /\ observer' = [observer EXCEPT !.skipLF = FALSE]
    /\ rest' = p
    /\ UNCHANGED <<state, input>>

\* observedBody.Read returns bytes, which write begins to consume unless it is closed.
Read(p) ==
    /\ rest = <<>>
    /\ Len(input) + Len(p) <= MaxInput
    /\ rest' = IF state = "open" THEN p ELSE <<>>
    /\ state # "ended"
    /\ UNCHANGED <<observer, state, input>>

\* The loop of write: the LF of a CR LF is swallowed, ...
SwallowLF ==
    /\ rest # <<>> /\ observer.skipLF /\ rest[1] = "LF"
    /\ observer' = [observer EXCEPT !.skipLF = FALSE]
    /\ rest' = Tail(rest)
    /\ input' = Append(input, "LF")
    /\ UNCHANGED state

\* ... what has no line end is kept for the next read, ...
KeepChunk ==
    /\ rest # <<>>
    /\ \A i \in 1..Len(rest) : rest[i] \notin LineBreaks
    /\ observer' = TakeChunk([observer EXCEPT !.skipLF = FALSE], rest)
    /\ rest' = <<>>
    /\ input' = input \o rest
    /\ UNCHANGED state

\* ... and what comes before the first line end completes a line.
CompleteLine ==
    /\ rest # <<>> /\ ~(observer.skipLF /\ rest[1] = "LF")
    /\ \E n \in 1..Len(rest) :
           /\ rest[n] \in LineBreaks
           /\ \A i \in 1..(n - 1) : rest[i] \notin LineBreaks
           /\ observer' = EndLine(TakeChunk([observer EXCEPT !.skipLF = FALSE],
                                     SubSeq(rest, 1, n - 1)), rest[n])
           /\ rest' = SubSeq(rest, n + 1, Len(rest))
           /\ input' = input \o SubSeq(rest, 1, n)
    /\ UNCHANGED state

\* observedBody.Read reports the end, or an error.
ReadEnds ==
    /\ state = "open" /\ rest = <<>>
    /\ observer' = FinishEvent(observer)
    /\ state' = "ended"
    /\ UNCHANGED <<rest, input>>

\* The exchange is evicted or its capture finished: nothing is kept.
ReleaseEvent ==
    /\ state # "released" /\ rest = <<>>
    /\ observer' = [observer EXCEPT !.line = <<>>, !.data = <<>>, !.event = <<>>]
    /\ state' = "released"
    /\ input' = <<>>
    /\ UNCHANGED rest

ObserverNext ==
    \/ \E p \in Reads : Read(p)
    \/ SwallowLF \/ KeepChunk \/ CompleteLine
    \/ ReadEnds \/ ReleaseEvent

ObserverSpec == ObserverInit /\ [][ObserverNext]_observerVars
-----------------------------------------------------------------------------
(* The reference: what the events of a whole response b are. *)

Breaks(b) == {i \in 1..Len(b) : b[i] \in LineBreaks}

\* The line ends: CR, LF or CR LF.
LineEnds(b) == {i \in Breaks(b) : b[i] = "CR" \/ i = 1 \/ b[i - 1] # "CR"}

\* The last position of S before i, 0 if there is none.
LastBefore(S, i) == Max({0} \cup {j \in S : j < i})

\* Where the line starts that has a byte or its end at i.
LineStart(b, i) == LastBefore(Breaks(b), i) + 1

BlankLines(b) == {i \in LineEnds(b) : LineStart(b, i) = i}

\* The bytes of a data line after its field name and one space, and its line end.
InData(b, i) ==
    LET start == LineStart(b, i)
    IN  /\ start < i /\ b[start] = "data:"
        /\ ~(i = start + 1 /\ b[i] = "sp")

\* The data after position "from" up to position "to".
Data(b, from, to) ==
    LET bytes == {i \in (from + 1)..to : InData(b, i)}
        nth(n) == CHOOSE i \in bytes : Cardinality({j \in bytes : j <= i}) = n
    IN  [n \in 1..Cardinality(bytes) |->
            IF b[nth(n)] \in LineBreaks THEN "NL" ELSE b[nth(n)]]

\* The data of the event that the blank line at i ends.
EventData(b, i) == Data(b, LastBefore(BlankLines(b), i), i - 1)

\* Neither a line nor the data is too long, and it is not just a terminator.
Observable(b, i) ==
    /\ \A j \in LineEnds(b) :
           LastBefore(BlankLines(b), i) < j /\ j < i => j - LineStart(b, j) <= MaxEventBytes
    /\ Len(EventData(b, i)) \in 2..MaxEventBytes
    /\ EventData(b, i) # <<"[DONE]", "NL">>

LastEvent(b) ==
    LET observable == {i \in BlankLines(b) : Observable(b, i)}
    IN  IF observable = {} THEN <<>>
        ELSE SubSeq(EventData(b, Max(observable)), 1, Len(EventData(b, Max(observable))) - 1)

-----------------------------------------------------------------------------
(* Properties. *)

\* However the response is cut into reads, the exchange has the last event of the
\* bytes read so far; at the end of the body an event needs no blank line.
\* (write with skipLF, the limits of write and consumeLine, flush, finish)
EventIsLast ==
    /\ state = "open" => observer.event = LastEvent(input)
    /\ state = "ended" => observer.event = LastEvent(input \o <<"CR", "CR">>)

\* Whatever the upstream sends, and after a release, no more is kept than the
\* limits say. ("a bounded incremental SSE observer")
Bounded ==
    /\ Len(observer.line) <= MaxEventBytes
    /\ Len(observer.data) <= MaxEventBytes
    /\ Len(observer.event) < MaxEventBytes
    /\ state = "released" =>
           observer.line = <<>> /\ observer.data = <<>> /\ observer.event = <<>>
=============================================================================
