------------------------- MODULE PluginResponsesProofs -------------------------
(***************************************************************************)
(* Proofs about PluginResponses and its ExtensionRouter for any routes,    *)
(* requests, budgets, chunk sizes and writes.                              *)
(*                                                                         *)
(* Three invariants, one per part: RouteInv says that the loop of match    *)
(* has kept the best of the keys it has seen, BufferInv that a             *)
(* bufferWriter without an error holds all that was written, and StreamInv *)
(* that what Core has, with what Write still has to send, is all that was  *)
(* written.                                                                *)
(***************************************************************************)
EXTENDS PluginResponses, SequenceTheorems, TLAPS

\* What registered routes and requests look like.
Keys == [method : {ToUpper[m] : m \in DOMAIN ToUpper}, path : Seq(STRING)]

RouteType ==
    /\ registered \in Seq(Keys)
    /\ pc # "register" /\ mode # "forward" /\ fault # "noRouter" => request \in Keys

\* The map holds the last handler of every key.
HandlersInv ==
    /\ \A i \in 1..Len(registered) : registered[i] \in DOMAIN handlers
    /\ \A key \in DOMAIN handlers :
           /\ handlers[key] \in 1..Len(registered)
           /\ registered[handlers[key]] = key
           /\ \A i \in 1..Len(registered) : registered[i] = key => i <= handlers[key]

\* best is the handler of this key.
Chosen(key) ==
    /\ key \in DOMAIN handlers /\ Accepts(key)
    /\ best = [handler |-> handlers[key], len |-> Len(key.path)]

\* No key the loop has passed is better; an exact match is the best there is.
MatchInv ==
    /\ unseen \subseteq DOMAIN handlers
    /\ pc \notin {"register", "match"} => unseen = {}
    /\ pc # "register" /\ mode # "forward" /\ fault # "noRouter" =>
           /\ best = Nobody \/ \E key \in DOMAIN handlers : Chosen(key)
           /\ \A key \in DOMAIN handlers \ unseen : Accepts(key) => Len(key.path) <= best.len
           /\ request \in DOMAIN handlers => Chosen(request)

RouteInv == RouteType /\ HandlersInv /\ MatchInv

\* The steps of a call: which mode uses what.
CallInv ==
    /\ mode \in Modes
    /\ pc \in {"register", "match", "handler", "send", "done"}
    /\ offered \in Nat /\ code \in Nat
    /\ err \in {None, "limit", "send", "message"}
    /\ pc \in {"register", "match"} => err = None /\ offered = 0
    /\ pc = "send" => mode = "stream" /\ err = None
    /\ answer # None => pc = "done"

BufferInv ==
    /\ body \in Seq(Nat)
    /\ mode # "stream" /\ err = None => body = Bytes(0, offered)
    /\ AnswerIsWhole

Chunks == [status : Nat, done : BOOLEAN]

\* While the handler runs, no chunk is the last one and the first has the status.
OpenStream ==
    /\ received = Bytes(0, Len(received))
    /\ wire # <<>> => wire[1].status # 0 /\ headerSent
    /\ received # <<>> => wire # <<>>
    /\ \A i \in 1..Len(wire) : ~wire[i].done

\* What Core has and what the current Write still has to send are together what the
\* handler wrote, as long as nothing has failed.
StreamInv ==
    /\ wire \in Seq(Chunks)
    /\ received \in Seq(Nat)
    /\ pc \in {"register", "match"} => wire = <<>> /\ received = <<>>
    /\ mode = "stream" /\ err = None /\ pc = "handler" => received = Bytes(0, offered)
    /\ pc = "send" =>
           /\ Len(received) <= offered
           /\ data = Bytes(Len(received), offered - Len(received))
    /\ pc \in {"handler", "send"} => OpenStream
    /\ headerSent /\ err = None /\ pc # "done" => wire # <<>>
    /\ StreamIsWhole

IInv == RouteInv /\ CallInv /\ BufferInv /\ StreamInv

-----------------------------------------------------------------------------
(* The router. *)

\* Whether the call goes through the router at all.
UsesRouter == mode # "forward" /\ fault # "noRouter"

\* A pattern that accepts a request is not longer than the request, and only the
\* request itself is as long.
LEMMA AcceptsProperties ==
    ASSUME NEW key \in Keys, request \in Keys, Accepts(key)
    PROVE  /\ Len(key.path) \in Nat /\ Len(request.path) \in Nat
           /\ Len(key.path) <= Len(request.path)
           /\ key = request \/ (IsPattern(key) /\ IsPrefix(key.path, request.path))
<1>1. /\ key.path \in Seq(STRING) /\ request.path \in Seq(STRING)
      /\ Len(key.path) \in Nat /\ Len(request.path) \in Nat
  BY DEF Keys
<1>2. key.method = request.method /\ key.path = request.path => key = request
  BY DEF Keys
<1> QED
  BY <1>1, <1>2 DEF Accepts, IsPrefix

\* Key of a request or of a pattern registered through a group.
LEMMA KeyType ==
    /\ \A r \in Requests : Key(r) \in Keys
    /\ \A g \in Groups, p \in Patterns : Key([p EXCEPT !.path = g \o @]) \in Keys
<1>1. ASSUME NEW r \in Requests
      PROVE  Key(r) \in Keys
  BY RouterAssumption DEF Key, Keys
<1>2. ASSUME NEW g \in Groups, NEW p \in Patterns
      PROVE  Key([p EXCEPT !.path = g \o @]) \in Keys
  <2>1. p.method \in DOMAIN ToUpper /\ p.path \in Seq(STRING) /\ g \in Seq(STRING)
        /\ p \in [method : DOMAIN ToUpper, path : Seq(STRING)]
    BY RouterAssumption
  <2>2. g \o p.path \in Seq(STRING)
    BY <2>1
  <2> QED
    BY <2>1, <2>2 DEF Key, Keys
<1> QED
  BY <1>1, <1>2

\* Handle: the key's handler is the one registered last.
LEMMA RegisterStep ==
    ASSUME RouteInv, NEW g \in Groups, NEW p \in Patterns, Register(g, p)
    PROVE  RouteInv'
<1> DEFINE key == Key([p EXCEPT !.path = g \o @])
           n   == Len(registered) + 1
<1>1. /\ pc = "register" /\ pc' = "register"
      /\ registered' = Append(registered, key)
      /\ handlers' = [k \in DOMAIN handlers \cup {key} |->
                          IF k = key THEN n ELSE handlers[k]]
      /\ UNCHANGED unseen
  BY DEF Register, Handle
<1>2. key \in Keys /\ registered \in Seq(Keys) /\ Len(registered) \in Nat
  <2>1. registered \in Seq(Keys)
    BY DEF RouteInv, RouteType
  <2> QED
    BY <2>1, KeyType
<1> HIDE DEF key
<1>3. /\ registered' \in Seq(Keys) /\ Len(registered') = n
      /\ \A i \in 1..Len(registered) : registered'[i] = registered[i]
      /\ registered'[n] = key
  BY <1>1, <1>2
<1>4. /\ DOMAIN handlers' = {key} \cup DOMAIN handlers
      /\ handlers'[key] = n
      /\ \A k \in DOMAIN handlers : k # key => handlers'[k] = handlers[k]
  BY <1>1
<1>5. HandlersInv
  BY DEF RouteInv
<1>6. \A i \in 1..Len(registered') : registered'[i] \in DOMAIN handlers'
  BY <1>2, <1>3, <1>4, <1>5 DEF HandlersInv
<1>7. ASSUME NEW k \in DOMAIN handlers'
      PROVE  /\ handlers'[k] \in 1..Len(registered')
             /\ registered'[handlers'[k]] = k
             /\ \A i \in 1..Len(registered') : registered'[i] = k => i <= handlers'[k]
  <2>1. CASE k = key
    BY <2>1, <1>2, <1>3, <1>4
  <2>2. CASE k # key
    <3>1. /\ handlers'[k] = handlers[k] /\ handlers[k] \in 1..Len(registered)
          /\ registered[handlers[k]] = k
          /\ \A i \in 1..Len(registered) : registered[i] = k => i <= handlers[k]
      BY <2>2, <1>4, <1>5 DEF HandlersInv
    <3> QED
      BY <3>1, <2>2, <1>2, <1>3
  <2> QED
    BY <2>1, <2>2
<1> QED
  BY <1>1, <1>3, <1>4, <1>6, <1>7 DEF RouteInv, RouteType, HandlersInv, MatchInv

\* match begins: an exact key ends it, otherwise everything is still unseen.
LEMMA RequestStep ==
    ASSUME RouteInv, NEW r \in Requests, Request(r)
    PROVE  RouteInv'
<1>1. /\ pc' = "match" /\ request' = Key(r)
      /\ UNCHANGED <<registered, handlers, mode, fault>>
  BY DEF Request, Match
<1>2. request' \in Keys
  BY <1>1, KeyType
<1>3. RouteType' /\ HandlersInv'
  BY <1>1, <1>2 DEF RouteInv, RouteType, HandlersInv
<1>4. CASE Key(r) \in DOMAIN handlers
  <2>1. /\ unseen' = {}
        /\ best' = [handler |-> handlers[request'], len |-> Len(request'.path)]
    BY <1>4, <1>1 DEF Request, Match, Key
  <2>2. Chosen(request)'
    BY <1>1, <1>4, <2>1 DEF Chosen, Accepts
  <2>3. ASSUME NEW k \in DOMAIN handlers', Accepts(k)'
        PROVE  Len(k.path) <= best'.len
    <3>1. k \in Keys
      BY <1>1 DEF RouteInv, RouteType, HandlersInv
    <3>2. Len(k.path) <= Len(request'.path)
      <4>1. /\ k.path \in Seq(STRING) /\ request'.path \in Seq(STRING)
            /\ Len(k.path) \in Nat /\ Len(request'.path) \in Nat
        BY <3>1, <1>2 DEF Keys
      <4> QED
        BY <2>3, <4>1 DEF Accepts, IsPrefix
    <3> QED
      BY <3>2, <2>1
  <2> QED
    BY <1>1, <1>3, <1>4, <2>1, <2>2, <2>3 DEF RouteInv, MatchInv
<1>5. CASE Key(r) \notin DOMAIN handlers
  <2>1. unseen' = DOMAIN handlers /\ best' = Nobody
    BY <1>5 DEF Request, Match
  <2> QED
    BY <1>1, <1>3, <1>5, <2>1 DEF RouteInv, MatchInv
<1> QED
  BY <1>4, <1>5

\* A pass of the loop keeps the better of the two.
LEMMA VisitStep ==
    ASSUME RouteInv, NEW k \in unseen, MatchNext(k)
    PROVE  RouteInv'
<1>1. /\ pc = "match" /\ pc' = "match" /\ unseen' = unseen \ {k}
      /\ UNCHANGED <<registered, handlers, request, mode, fault>>
      /\ best' = IF Better(k) THEN [handler |-> handlers[k], len |-> Len(k.path)] ELSE best
  BY DEF MatchNext, Visit
<1>2. RouteType' /\ HandlersInv'
  BY <1>1 DEF RouteInv, RouteType, HandlersInv
<1> SUFFICES ASSUME UsesRouter
             PROVE  /\ best' = Nobody \/ \E key \in DOMAIN handlers' : Chosen(key)'
                    /\ \A key \in DOMAIN handlers' \ unseen' :
                           Accepts(key)' => Len(key.path) <= best'.len
                    /\ request' \in DOMAIN handlers' => Chosen(request)'
  BY <1>1, <1>2 DEF RouteInv, MatchInv, UsesRouter
<1>3. /\ best = Nobody \/ \E key \in DOMAIN handlers : Chosen(key)
      /\ \A key \in DOMAIN handlers \ unseen : Accepts(key) => Len(key.path) <= best.len
      /\ request \in DOMAIN handlers => Chosen(request)
      /\ request \in Keys
  BY <1>1 DEF RouteInv, MatchInv, RouteType, UsesRouter
<1>4. DOMAIN handlers \subseteq Keys /\ k \in DOMAIN handlers
  BY DEF RouteInv, RouteType, HandlersInv, MatchInv
<1>5. \A key : Accepts(key)' = Accepts(key)
  BY <1>1 DEF Accepts
<1>6. best.len \in Nat
  <2>1. CASE best = Nobody
    BY <2>1 DEF Nobody
  <2>2. CASE \E key \in DOMAIN handlers : Chosen(key)
    <3>1. PICK key \in DOMAIN handlers : best.len = Len(key.path)
      BY <2>2 DEF Chosen
    <3> QED
      BY <3>1, <1>4 DEF Keys
  <2> QED
    BY <2>1, <2>2, <1>3
<1>7. \A key \in DOMAIN handlers : Len(key.path) \in Nat
  BY <1>4 DEF Keys
<1>8. CASE Better(k)
  <2>1. Accepts(k) /\ Len(k.path) > best.len
    BY <1>8 DEF Better, Accepts
  <2>2. best' = [handler |-> handlers[k], len |-> Len(k.path)]
    BY <1>1, <1>8
  <2>3. Chosen(k)'
    BY <1>1, <1>4, <1>5, <2>1, <2>2 DEF Chosen
  <2>4. request \notin DOMAIN handlers
    <3> SUFFICES ASSUME request \in DOMAIN handlers
                 PROVE  FALSE
      OBVIOUS
    <3>1. best.len = Len(request.path)
      BY <1>3 DEF Chosen
    <3>2. Len(k.path) <= Len(request.path)
      BY <2>1, <1>3, <1>4, AcceptsProperties
    <3> QED
      BY <3>1, <3>2, <2>1, <1>4, <1>6, <1>7
  <2>5. ASSUME NEW key \in DOMAIN handlers \ unseen', Accepts(key)
        PROVE  Len(key.path) <= Len(k.path)
    <3>1. CASE key = k
      BY <3>1, <1>4, <1>7
    <3>2. CASE key # k
      BY <3>2, <2>5, <2>1, <1>1, <1>3, <1>4, <1>6, <1>7
    <3> QED
      BY <3>1, <3>2
  <2> QED
    BY <1>1, <1>4, <1>5, <2>2, <2>3, <2>4, <2>5
<1>9. CASE ~Better(k)
  <2>1. best' = best
    BY <1>1, <1>9
  <2>2. \A key : Chosen(key)' = Chosen(key)
    BY <1>1, <1>5, <2>1 DEF Chosen
  <2>3. ASSUME NEW key \in DOMAIN handlers \ unseen', Accepts(key)
        PROVE  Len(key.path) <= best.len
    <3>1. CASE key # k
      BY <3>1, <2>3, <1>1, <1>3
    <3>2. CASE key = k
      <4>1. CASE k = request
        BY <4>1, <3>2, <1>3, <1>7 DEF Chosen
      <4>2. CASE k # request
        <5>1. IsPattern(k) /\ IsPrefix(k.path, request.path) /\ k.method = request.method
          <6>1. k \in Keys
            BY <3>2, <2>3, <1>4
          <6> QED
            BY <6>1, <4>2, <3>2, <2>3, <1>3, AcceptsProperties DEF Accepts
        <5> QED
          BY <5>1, <3>2, <1>6, <1>7, <1>9 DEF Better
      <4> QED
        BY <4>1, <4>2
    <3> QED
      BY <3>1, <3>2
  <2> QED
    BY <1>1, <1>3, <1>5, <2>1, <2>2, <2>3
<1> QED
  BY <1>8, <1>9

\* The steps that answer the call, once it has been matched.
Answering ==
    \/ Unrouted \/ Routed
    \/ \E c \in Codes : WriteHeader(c)
    \/ \E n \in 0..(MaxBytes - offered) : BufferWrite(n) \/ StreamWrite(n)
    \/ \E ok \in BOOLEAN : SendChunk(ok)
    \/ \E v \in Verdicts : ForwardReturns(v)
    \/ RequestReturns \/ StreamReturns

\* They leave the call and its route alone, and come after the loop of match.
LEMMA AnsweringFrame ==
    ASSUME RouteInv, Answering
    PROVE  /\ UNCHANGED <<mode, fault, registered, handlers, request, unseen, best>>
           /\ pc # "register" /\ pc' \in {"handler", "send", "done"} /\ unseen = {}
<1>1. /\ UNCHANGED call /\ pc \in {"match", "handler", "send"}
      /\ pc = "match" => unseen = {}
  BY DEF Answering, Unrouted, Routed, Matched, WriteHeader, CanCall, BufferWrite,
     StreamWrite, SendChunk, ForwardReturns, RequestReturns, StreamReturns
<1>2. pc' \in {"handler", "send", "done"}
  BY <1>1 DEF Answering, Unrouted, Routed, Matched, WriteHeader, CanCall, BufferWrite,
     StreamWrite, SendChunk, ForwardReturns, RequestReturns, StreamReturns
<1>3. unseen = {}
  BY <1>1 DEF RouteInv, MatchInv
<1> QED
  BY <1>1, <1>2, <1>3 DEF call, routerVars

\* A step that leaves the route alone keeps what is known of it.
LEMMA RouteFrame ==
    ASSUME RouteInv, UNCHANGED <<mode, fault, registered, handlers, request, unseen, best>>,
           pc = "register" => pc' = "register",
           pc' \notin {"register", "match"} => unseen = {}
    PROVE  RouteInv'
<1>1. RouteType' /\ HandlersInv'
  BY DEF RouteInv, RouteType, HandlersInv
<1>2. \A key : Chosen(key)' = Chosen(key)
  BY DEF Chosen, Accepts
<1>3. \A key : Accepts(key)' = Accepts(key)
  BY DEF Accepts
<1>4. MatchInv'
  BY <1>2, <1>3 DEF RouteInv, MatchInv
<1> QED
  BY <1>1, <1>4 DEF RouteInv

\* Every step keeps RouteInv.
LEMMA RouteStep ==
    ASSUME RouteInv, Next
    PROVE  RouteInv'
<1>1. CASE Answering
  BY <1>1, AnsweringFrame, RouteFrame
<1> QED
  BY <1>1, RegisterStep, RequestStep, VisitStep DEF Next, Answering

-----------------------------------------------------------------------------
(* The bytes a plugin writes. *)

\* Bytes(a, n) are n bytes.
LEMMA BytesType ==
    ASSUME NEW a \in Nat, NEW n \in Nat
    PROVE  /\ Bytes(a, n) \in Seq(Nat) /\ Len(Bytes(a, n)) = n
           /\ \A i \in 1..n : Bytes(a, n)[i] = a + i
  BY DEF Bytes

\* No bytes are the empty sequence.
LEMMA NoBytes ==
    ASSUME NEW a \in Nat
    PROVE  Bytes(a, 0) = <<>>
  BY BytesType, EmptySeq

\* One piece and the next.
LEMMA BytesConcat ==
    ASSUME NEW a \in Nat, NEW n \in Nat, NEW k \in Nat
    PROVE  Bytes(a, n) \o Bytes(a + n, k) = Bytes(a, n + k)
<1> DEFINE s == Bytes(a, n)
           t == Bytes(a + n, k)
           u == Bytes(a, n + k)
<1>1. s \in Seq(Nat) /\ Len(s) = n /\ \A i \in 1..n : s[i] = a + i
  BY BytesType
<1>2. t \in Seq(Nat) /\ Len(t) = k /\ \A i \in 1..k : t[i] = (a + n) + i
  <2>1. a + n \in Nat
    OBVIOUS
  <2> QED
    BY <2>1, BytesType
<1>3. u \in Seq(Nat) /\ Len(u) = n + k /\ \A i \in 1..(n + k) : u[i] = a + i
  <2>1. n + k \in Nat
    OBVIOUS
  <2> QED
    BY <2>1, BytesType
<1> HIDE DEF s, t, u
<1>4. /\ s \o t \in Seq(Nat) /\ Len(s \o t) = n + k
      /\ \A i \in 1..(n + k) : (s \o t)[i] = IF i <= n THEN s[i] ELSE t[i - n]
  BY <1>1, <1>2, ConcatProperties
<1>5. ASSUME NEW i \in 1..(n + k)
      PROVE  (s \o t)[i] = u[i]
  <2>1. CASE i <= n
    BY <2>1, <1>1, <1>3, <1>4
  <2>2. CASE i > n
    <3>1. i - n \in 1..k /\ (a + n) + (i - n) = a + i
      BY <2>2
    <3>2. t[i - n] = (a + n) + (i - n)
      BY <3>1, <1>2
    <3>3. (s \o t)[i] = t[i - n]
      <4>1. ~(i <= n)
        BY <2>2
      <4> QED
        BY <4>1, <1>4
    <3> QED
      BY <3>1, <3>2, <3>3, <1>3
  <2>3. i <= n \/ i > n
    OBVIOUS
  <2> QED
    BY <2>1, <2>2, <2>3
<1> QED
  BY <1>3, <1>4, <1>5, SeqEqual DEF s, t, u

\* What was written, and the next piece.
LEMMA BytesNext ==
    ASSUME NEW n \in Nat, NEW k \in Nat
    PROVE  Bytes(0, n) \o Bytes(n, k) = Bytes(0, n + k)
<1>1. 0 \in Nat /\ 0 + n = n
  OBVIOUS
<1>2. Bytes(0, n) \o Bytes(0 + n, k) = Bytes(0, n + k)
  BY <1>1, BytesConcat, Zenon
<1> QED
  BY <1>1, <1>2, Zenon

\* The first k bytes of a piece, and the rest.
LEMMA BytesSplit ==
    ASSUME NEW a \in Nat, NEW m \in Nat, NEW k \in 0..m
    PROVE  /\ SubSeq(Bytes(a, m), 1, k) = Bytes(a, k)
           /\ SubSeq(Bytes(a, m), k + 1, m) = Bytes(a + k, m - k)
<1> DEFINE s == Bytes(a, m)
<1>1. s \in Seq(Nat) /\ Len(s) = m /\ \A i \in 1..m : s[i] = a + i
  BY BytesType
<1>2. SubSeq(s, 1, k) = Bytes(a, k)
  <2>1. /\ SubSeq(s, 1, k) \in Seq(Nat) /\ Len(SubSeq(s, 1, k)) = k
        /\ \A i \in 1..k : SubSeq(s, 1, k)[i] = s[i]
    BY <1>1
  <2> HIDE DEF s
  <2>2. \A i \in 1..k : SubSeq(s, 1, k)[i] = Bytes(a, k)[i]
    BY <1>1, <2>1, BytesType
  <2> QED
    BY <2>1, <2>2, BytesType, SeqEqual
<1>3. SubSeq(s, k + 1, m) = Bytes(a + k, m - k)
  <2>1. /\ SubSeq(s, k + 1, m) \in Seq(Nat) /\ Len(SubSeq(s, k + 1, m)) = m - k
        /\ \A i \in 1..(m - k) : SubSeq(s, k + 1, m)[i] = s[k + i]
    BY <1>1
  <2> HIDE DEF s
  <2>2. a + k \in Nat /\ m - k \in Nat /\ \A i \in 1..(m - k) : k + i \in 1..m
    OBVIOUS
  <2> DEFINE t == Bytes(a + k, m - k)
  <2>3. t \in Seq(Nat) /\ Len(t) = m - k /\ \A i \in 1..(m - k) : t[i] = (a + k) + i
    BY <2>2, BytesType
  <2> HIDE DEF t
  <2>4. \A i \in 1..(m - k) : SubSeq(s, k + 1, m)[i] = t[i]
    BY <1>1, <2>1, <2>2, <2>3
  <2> QED
    BY <2>1, <2>3, <2>4, SeqEqual DEF t
<1> QED
  BY <1>2, <1>3

-----------------------------------------------------------------------------
(* The steps of a call. *)

\* The steps before the call is answered touch only the router.
LEMMA MatchingFrame ==
    ASSUME \/ \E g \in Groups, p \in Patterns : Register(g, p)
           \/ \E r \in Requests : Request(r)
           \/ \E key \in unseen : MatchNext(key)
    PROVE  /\ pc \in {"register", "match"} /\ pc' \in {"register", "match"}
           /\ UNCHANGED <<mode, fault, headers, calls, offered, code, err, body, headerSent,
                          data, wire, received, answer>>
  BY DEF Register, Request, MatchNext

\* What refuses a call does not change while it is answered.
LEMMA RefusalFrame ==
    ASSUME RouteInv, Answering
    PROVE  Refusal' = Refusal
  BY AnsweringFrame DEF Refusal

\* Every step keeps CallInv.
LEMMA CallStep ==
    ASSUME CallInv, Next
    PROVE  CallInv'
<1> USE ResponsesAssumption DEF CallInv
<1>1. CASE \/ \E g \in Groups, p \in Patterns : Register(g, p)
           \/ \E r \in Requests : Request(r)
           \/ \E key \in unseen : MatchNext(key)
  BY <1>1, MatchingFrame
<1>2. CASE Unrouted \/ Routed
  <2>1. /\ UNCHANGED <<mode, offered, code, err>> /\ pc = "match"
        /\ pc' = "done" \/ (pc' = "handler" /\ UNCHANGED answer)
    BY <1>2 DEF Unrouted, Routed, Matched, call
  <2> QED
    BY <2>1
<1>3. ASSUME NEW c \in Codes, WriteHeader(c)
      PROVE  CallInv'
  <2>1. /\ UNCHANGED <<mode, offered, err, pc, answer>> /\ pc = "handler"
        /\ code' \in {code, c}
    BY <1>3 DEF WriteHeader, CanCall, call
  <2> QED
    BY <2>1
<1>4. ASSUME NEW n \in 0..(MaxBytes - offered), BufferWrite(n)
      PROVE  CallInv'
  <2>1. /\ UNCHANGED <<mode, pc, answer>> /\ pc = "handler" /\ offered' = offered + n
        /\ err' \in {err, "limit"} /\ code' \in {code, 200}
    BY <1>4 DEF BufferWrite, CanCall, call
  <2> QED
    BY <2>1
<1>5. ASSUME NEW n \in 0..(MaxBytes - offered), StreamWrite(n)
      PROVE  CallInv'
  <2>1. /\ UNCHANGED <<mode, err, code, answer>> /\ pc = "handler" /\ mode = "stream"
        /\ offered' = offered + n /\ (pc' = pc \/ (pc' = "send" /\ err = None))
    BY <1>5 DEF StreamWrite, CanCall, call
  <2> QED
    BY <2>1
<1>6. ASSUME NEW ok \in BOOLEAN, SendChunk(ok)
      PROVE  CallInv'
  <2>1. /\ UNCHANGED <<mode, offered, answer>> /\ pc = "send"
        /\ err' \in {None, "send", "message"} /\ code' \in {code, 200}
        /\ (pc' = "send" /\ err' = None) \/ pc' = "handler"
    BY <1>6 DEF SendChunk, call
  <2> QED
    BY <2>1
<1>7. CASE (\E v \in Verdicts : ForwardReturns(v)) \/ RequestReturns \/ StreamReturns
  <2>1. UNCHANGED <<mode, offered, code, err>> /\ pc' = "done"
    BY <1>7 DEF ForwardReturns, RequestReturns, StreamReturns, call
  <2> QED
    BY <2>1
<1> QED
  BY <1>1, <1>2, <1>3, <1>4, <1>5, <1>6, <1>7 DEF Next

-----------------------------------------------------------------------------
(* The buffered answers. *)

\* What Forward answers without an error.
LEMMA ForwardAnswerWhole ==
    ASSUME NEW v \in Verdicts, body \in Seq(Nat), ForwardAnswer(v).error = None
    PROVE  /\ err = None
           /\ \/ ForwardAnswer(v).body = body
              \/ /\ ForwardAnswer(v).body # <<>>
                 /\ \A i \in 1..Len(ForwardAnswer(v).body) : ForwardAnswer(v).body[i] = 0
<1> USE ResponsesAssumption
<1>0. v.own \in Nat
  BY DEF Verdicts
<1>1. /\ ~(v.err /\ v.kind = "Unknown") /\ err = None
  <2>1. CASE v.err /\ v.kind = "Unknown"
    BY <2>1 DEF ForwardAnswer, Failed
  <2>2. CASE ~(v.err /\ v.kind = "Unknown") /\ err # None
    BY <2>2 DEF ForwardAnswer, Failed
  <2> QED
    BY <2>1, <2>2
<1> DEFINE zeros == [i \in 1..v.own |-> 0]
<1>2. ForwardAnswer(v) = IF body # <<>> /\ v.own = 0
           THEN CheckedOutcome(v, IF v.status = 0 THEN code ELSE v.status, body)
           ELSE CheckedOutcome(v, v.status, zeros)
  BY <1>1 DEF ForwardAnswer
<1>3. ASSUME NEW st, NEW b, CheckedOutcome(v, st, b).error = None
      PROVE  CheckedOutcome(v, st, b).body = b
  BY <1>3 DEF CheckedOutcome, Failed, Answered
<1>4. CASE body # <<>> /\ v.own = 0
  BY <1>1, <1>2, <1>3, <1>4
<1>5. CASE ~(body # <<>> /\ v.own = 0)
  <2>1. ForwardAnswer(v).body = zeros
    BY <1>2, <1>3, <1>5
  <2>2. zeros \in Seq(Nat) /\ Len(zeros) = v.own /\ \A i \in 1..v.own : zeros[i] = 0
    BY <1>0
  <2> HIDE DEF zeros
  <2>3. CASE v.own = 0
    <3>1. body = <<>> /\ zeros = <<>>
      BY <2>2, <2>3, <1>5
    <3> QED
      BY <3>1, <2>1, <1>1
  <2>4. CASE v.own # 0
    <3>1. zeros # <<>>
      BY <2>2, <2>4
    <3> QED
      BY <3>1, <2>1, <2>2, <1>1
  <2> QED
    BY <2>3, <2>4
<1> QED
  BY <1>4, <1>5

\* Every step keeps BufferInv.
LEMMA BufferStep ==
    ASSUME RouteInv, CallInv, BufferInv, Next
    PROVE  BufferInv'
<1> USE ResponsesAssumption
<1>a. /\ body \in Seq(Nat) /\ offered \in Nat
      /\ mode # "stream" /\ err = None => body = Bytes(0, offered)
  BY DEF BufferInv, CallInv
<1>1. ASSUME UNCHANGED <<mode, body>>, answer' = None,
             mode # "stream" => UNCHANGED <<err, offered>>
      PROVE  BufferInv'
  BY <1>1, <1>a DEF BufferInv, AnswerIsWhole
<1>2. ASSUME pc # "done", UNCHANGED <<mode, body, answer>>,
             mode # "stream" => UNCHANGED <<err, offered>>
      PROVE  BufferInv'
  <2>1. answer = None
    BY <1>2 DEF CallInv
  <2> QED
    BY <2>1, <1>1, <1>2
<1>3. CASE \/ \E g \in Groups, p \in Patterns : Register(g, p)
           \/ \E r \in Requests : Request(r)
           \/ \E key \in unseen : MatchNext(key)
  BY <1>2, <1>3, MatchingFrame
<1>4. CASE Routed \/ (\E c \in Codes : WriteHeader(c))
           \/ (\E n \in 0..(MaxBytes - offered) : StreamWrite(n))
           \/ \E ok \in BOOLEAN : SendChunk(ok)
  <2>1. /\ UNCHANGED <<mode, body, answer>> /\ pc # "done"
        /\ pc = "send" \/ mode = "stream" \/ UNCHANGED <<err, offered>>
    BY <1>4 DEF Routed, Matched, WriteHeader, CanCall, StreamWrite, SendChunk, call
  <2>2. pc = "send" => mode = "stream"
    BY DEF CallInv
  <2> QED
    BY <2>1, <2>2, <1>2
<1>5. CASE Unrouted
  <2>1. UNCHANGED <<mode, body, err, offered>> /\ Refusal # None
    BY <1>5 DEF Unrouted, call
  <2>2. Refusal' = Refusal
    BY <1>5, RefusalFrame DEF Answering
  <2> QED
    BY <2>1, <2>2, <1>a DEF BufferInv, AnswerIsWhole
<1>6. ASSUME NEW n \in 0..(MaxBytes - offered), BufferWrite(n)
      PROVE  BufferInv'
  <2>1. /\ pc = "handler" /\ mode # "stream" /\ offered' = offered + n
        /\ UNCHANGED <<mode, answer>> /\ n \in Nat
    BY <1>6, <1>a DEF BufferWrite, CanCall, call
  <2>2. answer' = None
    BY <2>1 DEF CallInv
  <2>3. \/ err' # None /\ UNCHANGED body
        \/ err = None /\ body' = body \o Bytes(offered, n)
    BY <1>6 DEF BufferWrite
  <2>4. CASE err' # None /\ UNCHANGED body
    BY <2>2, <2>4, <1>a DEF BufferInv, AnswerIsWhole
  <2>5. CASE err = None /\ body' = body \o Bytes(offered, n)
    <3>1. body' = Bytes(0, offered) \o Bytes(offered, n)
      BY <2>1, <2>5, <1>a
    <3>2. body' = Bytes(0, offered + n)
      BY <3>1, <2>1, <1>a, BytesNext
    <3>3. body' \in Seq(Nat)
      BY <3>2, <2>1, <1>a, BytesType
    <3> QED
      BY <3>2, <3>3, <2>1, <2>2 DEF BufferInv, AnswerIsWhole
  <2> QED
    BY <2>3, <2>4, <2>5
<1>7. ASSUME NEW v \in Verdicts, ForwardReturns(v)
      PROVE  BufferInv'
  <2>1. UNCHANGED <<mode, body, err, offered>> /\ answer' = ForwardAnswer(v) /\ mode = "forward"
    BY <1>7 DEF ForwardReturns, call
  <2>2. ASSUME ForwardAnswer(v).error = None
        PROVE  \/ ForwardAnswer(v).body = Bytes(0, offered)
               \/ /\ ForwardAnswer(v).body # <<>>
                  /\ \A i \in 1..Len(ForwardAnswer(v).body) : ForwardAnswer(v).body[i] = 0
    BY <2>1, <2>2, <1>a, ForwardAnswerWhole
  <2> QED
    BY <2>1, <2>2, <1>a DEF BufferInv, AnswerIsWhole, Bytes
<1>8. CASE RequestReturns
  <2>1. /\ UNCHANGED <<mode, body, err, offered>> /\ mode = "request"
        /\ answer'.error = None => err = None /\ answer'.body = body
    BY <1>8 DEF RequestReturns, Failed, Answered, call
  <2> QED
    BY <2>1, <1>a DEF BufferInv, AnswerIsWhole, Bytes
<1>9. CASE StreamReturns
  <2>1. UNCHANGED <<mode, body, err, offered>> /\ mode = "stream"
    BY <1>9 DEF StreamReturns, call
  <2> QED
    BY <2>1, <1>a DEF BufferInv, AnswerIsWhole
<1> QED
  BY <1>3, <1>4, <1>5, <1>6, <1>7, <1>8, <1>9 DEF Next

-----------------------------------------------------------------------------
(* The streamed answers. *)

\* An open stream without a second status is whole so far.
LEMMA OpenIsWhole ==
    ASSUME OpenStream, \A i \in 1..Len(wire) : i > 1 => wire[i].status = 0,
           wire \in Seq(Chunks)
    PROVE  StreamIsWhole
<1>1. wire # <<>> => Len(wire) \in 1..Len(wire)
  OBVIOUS
<1> QED
  BY <1>1 DEF OpenStream, StreamIsWhole

\* The next chunk on the stream.
LEMMA WireAppend ==
    ASSUME wire \in Seq(Chunks), NEW c \in Chunks, wire' = Append(wire, c)
    PROVE  /\ wire' \in Seq(Chunks) /\ wire' # <<>>
           /\ Len(wire') = Len(wire) + 1 /\ Len(wire) \in Nat
           /\ wire'[Len(wire) + 1] = c
           /\ \A i \in 1..Len(wire) : wire'[i] = wire[i]
  OBVIOUS

\* One pass of Write's loop sends the next ChunkSize bytes.
LEMMA SendStep ==
    ASSUME CallInv, StreamInv, NEW ok \in BOOLEAN, SendChunk(ok)
    PROVE  StreamInv'
<1> DEFINE n == IF Len(data) < ChunkSize THEN Len(data) ELSE ChunkSize
           L == Len(received)
           fits == headerSent \/ headers = "fit"
           chunk == [status |-> IF headerSent THEN 0 ELSE IF code = 0 THEN 200 ELSE code,
                     done |-> FALSE]
           Sent == wire' = Append(wire, chunk) /\ received' = received \o SubSeq(data, 1, n)
<1>1. /\ pc = "send" /\ headerSent' = TRUE /\ UNCHANGED <<mode, offered>>
      /\ Sent \/ (~ok /\ UNCHANGED <<wire, received>>)
      /\ ok => Sent /\ err' = None /\ data' = SubSeq(data, n + 1, Len(data))
      /\ ~ok => err' # None
      /\ pc' = IF ok /\ n < Len(data) THEN "send" ELSE "handler"
  <2>1. CASE ok
    BY <2>1, ResponsesAssumption DEF SendChunk, Send, call
  <2>2. CASE ~ok
    BY <2>2, ResponsesAssumption DEF SendChunk, Send, call
  <2> QED
    BY <2>1, <2>2
<1>2. /\ wire \in Seq(Chunks) /\ received \in Seq(Nat) /\ OpenStream /\ StreamIsWhole
      /\ offered \in Nat /\ code \in Nat /\ L \in Nat /\ L <= offered
      /\ data = Bytes(L, offered - L) /\ err = None /\ mode = "stream"
      /\ headerSent => wire # <<>>
  <2>1. wire \in Seq(Chunks) /\ received \in Seq(Nat)
    BY DEF StreamInv
  <2>2. L \in Nat
    BY <2>1
  <2> QED
    BY <2>1, <2>2, <1>1 DEF StreamInv, CallInv
<1>3. /\ Len(data) = offered - L /\ offered - L \in Nat /\ n \in 0..(offered - L)
      /\ n \in Nat
  <2>1. offered - L \in Nat
    BY <1>2
  <2>2. Len(data) = offered - L
    BY <2>1, <1>2, BytesType
  <2> QED
    BY <2>1, <2>2, ResponsesAssumption
<1>4. /\ SubSeq(data, 1, n) = Bytes(L, n)
      /\ SubSeq(data, n + 1, Len(data)) = Bytes(L + n, (offered - L) - n)
  <2>1. Len(data) = offered - L /\ data = Bytes(L, offered - L)
    BY <1>2, <1>3
  <2> HIDE DEF n, L
  <2>2. /\ SubSeq(Bytes(L, offered - L), 1, n) = Bytes(L, n)
        /\ SubSeq(Bytes(L, offered - L), n + 1, offered - L) = Bytes(L + n, (offered - L) - n)
    <3>1. PICK m \in Nat, a \in Nat, k \in Nat :
             m = offered - L /\ a = L /\ k = n /\ k \in 0..m
      BY <1>2, <1>3
    <3>2. k \in 0..m
      BY <3>1
    <3>3. /\ SubSeq(Bytes(a, m), 1, k) = Bytes(a, k)
          /\ SubSeq(Bytes(a, m), k + 1, m) = Bytes(a + k, m - k)
      BY <3>2, BytesSplit, Zenon
    <3> QED
      BY <3>1, <3>3
  <2> QED
    BY <2>1, <2>2, Zenon
<1> HIDE DEF n, L
<1>5. ASSUME Sent
      PROVE  /\ received' = Bytes(0, L + n) /\ received' \in Seq(Nat) /\ Len(received') = L + n
             /\ wire' \in Seq(Chunks) /\ OpenStream' /\ wire' # <<>>
             /\ \A i \in 1..Len(wire') : i > 1 => wire'[i].status = 0
  <2>1. received = Bytes(0, L)
    BY <1>2 DEF OpenStream, L
  <2>2. received' = Bytes(0, L) \o Bytes(L, n)
    BY <2>1, <1>4, <1>5
  <2>3. received' = Bytes(0, L + n)
    BY <2>2, <1>2, <1>3, BytesNext
  <2>4. received' \in Seq(Nat) /\ Len(received') = L + n
    <3>1. L + n \in Nat /\ 0 \in Nat
      BY <1>2, <1>3
    <3> QED
      BY <3>1, <2>3, BytesType
  <2>5. chunk \in Chunks /\ ~chunk.done
    BY <1>2 DEF Chunks
  <2>6. /\ wire' \in Seq(Chunks) /\ wire' # <<>>
        /\ Len(wire') = Len(wire) + 1 /\ Len(wire) \in Nat
        /\ wire'[Len(wire) + 1] = chunk
        /\ \A i \in 1..Len(wire) : wire'[i] = wire[i]
    <3> HIDE DEF chunk
    <3> QED
      BY <2>5, <1>2, <1>5, WireAppend
  <2>7. \A i \in 1..Len(wire') : ~wire'[i].done
    <3>1. \A i \in 1..Len(wire) : ~wire[i].done
      BY <1>2 DEF OpenStream
    <3> HIDE DEF chunk
    <3> QED
      BY <3>1, <2>5, <2>6
  <2>8. /\ wire'[1].status # 0
        /\ \A i \in 1..Len(wire') : i > 1 => wire'[i].status = 0
    <3>1. CASE headerSent
      <4>1. Len(wire) >= 1 /\ wire[1].status # 0
        BY <3>1, <1>2 DEF OpenStream
      <4>2. chunk.status = 0
        BY <3>1
      <4>3. \A i \in 1..Len(wire) : i > 1 => wire[i].status = 0
        BY <1>2 DEF StreamIsWhole
      <4> HIDE DEF chunk
      <4> QED
        BY <4>1, <4>2, <4>3, <2>6
    <3>2. CASE ~headerSent
      <4>1. wire = <<>>
        BY <3>2, <1>2 DEF OpenStream
      <4>2. chunk.status # 0
        BY <3>2, <1>2
      <4> HIDE DEF chunk
      <4> QED
        BY <4>1, <4>2, <2>6
    <3> QED
      BY <3>1, <3>2
  <2>9. OpenStream'
    <3>1. received' = Bytes(0, Len(received'))
      BY <2>3, <2>4
    <3> QED
      BY <3>1, <2>6, <2>7, <2>8, <1>1 DEF OpenStream
  <2> QED
    BY <2>3, <2>4, <2>6, <2>8, <2>9
<1>6. CASE ok
  <2>1. /\ Sent /\ err' = None /\ data' = Bytes(L + n, (offered - L) - n)
        /\ wire' # <<>> /\ StreamIsWhole'
    <3>1. Sent /\ err' = None /\ data' = Bytes(L + n, (offered - L) - n)
      BY <1>1, <1>4, <1>6
    <3>2. StreamIsWhole'
      <4>1. OpenStream' /\ wire' \in Seq(Chunks)
            /\ \A i \in 1..Len(wire') : i > 1 => wire'[i].status = 0
        BY <3>1, <1>5
      <4>2. wire' # <<>> => Len(wire') \in 1..Len(wire')
        BY <4>1
      <4> QED
        BY <4>1, <4>2 DEF OpenStream, StreamIsWhole
    <3>3. wire' # <<>>
      BY <3>1, <1>5
    <3> QED
      BY <3>1, <3>2, <3>3
  <2>2. CASE n < Len(data)
    <3>1. /\ pc' = "send" /\ L + n <= offered /\ offered - (L + n) = (offered - L) - n
      BY <2>2, <1>1, <1>2, <1>3, <1>6
    <3>2. Len(received') <= offered' /\ data' = Bytes(Len(received'), offered' - Len(received'))
      BY <3>1, <2>1, <1>1, <1>5
    <3> QED
      BY <3>1, <3>2, <2>1, <1>5 DEF StreamInv
  <2>3. CASE ~(n < Len(data))
    <3>1. pc' = "handler" /\ L + n = offered /\ offered' = offered
      <4>1. n = offered - L
        BY <2>3, <1>3
      <4>2. L + n = offered
        BY <4>1, <1>2
      <4> QED
        BY <4>2, <2>3, <1>1
    <3>2. received' = Bytes(0, offered')
      BY <3>1, <2>1, <1>5
    <3> QED
      BY <3>1, <3>2, <2>1, <1>5 DEF StreamInv
  <2> QED
    BY <2>2, <2>3
<1>7. CASE ~ok
  <2>1. pc' = "handler" /\ err' # None
    BY <1>1, <1>7
  <2>2. /\ wire' \in Seq(Chunks) /\ received' \in Seq(Nat) /\ OpenStream'
        /\ \A i \in 1..Len(wire') : i > 1 => wire'[i].status = 0
    <3>1. CASE Sent
      BY <3>1, <1>5
    <3>2. CASE UNCHANGED <<wire, received>>
      BY <3>2, <1>1, <1>2 DEF OpenStream, StreamIsWhole
    <3> QED
      BY <3>1, <3>2, <1>1
  <2>3. StreamIsWhole'
    <3>1. wire' # <<>> => Len(wire') \in 1..Len(wire')
      BY <2>2
    <3> QED
      BY <3>1, <2>2 DEF OpenStream, StreamIsWhole
  <2> QED
    BY <2>1, <2>2, <2>3 DEF StreamInv
<1> QED
  BY <1>6, <1>7

\* A step that sends nothing leaves what Core has whole.
LEMMA NothingSent ==
    ASSUME StreamInv, pc \in {"handler", "send"}, UNCHANGED <<wire, received>>
    PROVE  /\ wire' \in Seq(Chunks) /\ received' \in Seq(Nat) /\ StreamIsWhole'
           /\ UNCHANGED headerSent => OpenStream'
<1>1. /\ wire \in Seq(Chunks) /\ received \in Seq(Nat) /\ OpenStream
      /\ \A i \in 1..Len(wire) : i > 1 => wire[i].status = 0
  BY DEF StreamInv, StreamIsWhole
<1>2. wire # <<>> => Len(wire) \in 1..Len(wire)
  BY <1>1
<1> QED
  BY <1>1, <1>2 DEF OpenStream, StreamIsWhole

\* Every step keeps StreamInv.
LEMMA StreamStep ==
    ASSUME RouteInv, CallInv, StreamInv, Next
    PROVE  StreamInv'
<1>1. CASE \/ \E g \in Groups, p \in Patterns : Register(g, p)
           \/ \E r \in Requests : Request(r)
           \/ \E key \in unseen : MatchNext(key)
  <2>1. /\ pc' \in {"register", "match"} /\ wire' = <<>> /\ received' = <<>>
        /\ ~(headerSent' /\ err' = None)
    BY <1>1, MatchingFrame DEF StreamInv
  <2>2. StreamIsWhole'
    BY <2>1, NoBytes DEF StreamIsWhole
  <2> QED
    BY <2>1, <2>2 DEF StreamInv
<1>2. CASE Routed
  <2>1. /\ pc = "match" /\ pc' = "handler" /\ UNCHANGED <<mode, err, offered, headerSent>>
        /\ wire' = <<>> /\ received' = <<>> /\ ~(headerSent' /\ err' = None) /\ offered' = 0
    BY <1>2 DEF Routed, Matched, call, StreamInv, CallInv
  <2>2. StreamIsWhole' /\ OpenStream' /\ received' = Bytes(0, offered')
    BY <2>1, NoBytes DEF StreamIsWhole, OpenStream
  <2> QED
    BY <2>1, <2>2 DEF StreamInv
<1>3. CASE Unrouted
  <2>1. /\ pc = "match" /\ pc' = "done" /\ Refusal # None
        /\ \/ UNCHANGED <<wire, received>>
           \/ /\ wire' = Append(wire, [status |-> Refusal, done |-> TRUE])
              /\ received' = received \o <<0>>
    BY <1>3 DEF Unrouted, Matched, Send
  <2>2. wire = <<>> /\ received = <<>>
    BY <2>1 DEF StreamInv
  <2>3. Refusal' = Refusal
    BY <1>3, RefusalFrame DEF Answering
  <2>4. Refusal \in Nat
    BY <2>1 DEF Refusal
  <2>5. CASE UNCHANGED <<wire, received>>
    BY <2>1, <2>2, <2>3, <2>5, NoBytes DEF StreamIsWhole, StreamInv
  <2>6. CASE /\ wire' = Append(wire, [status |-> Refusal, done |-> TRUE])
             /\ received' = received \o <<0>>
    <3>1. wire' = <<[status |-> Refusal, done |-> TRUE]>> /\ received' = <<0>>
      BY <2>2, <2>6
    <3>2. wire' \in Seq(Chunks) /\ received' \in Seq(Nat) /\ Len(wire') = 1
      BY <3>1, <2>4 DEF Chunks
    <3>3. StreamIsWhole'
      BY <3>2, <2>1, <2>3 DEF StreamIsWhole
    <3> QED
      BY <3>2, <3>3, <2>1 DEF StreamInv
  <2> QED
    BY <2>1, <2>5, <2>6
<1>4. ASSUME NEW c \in Codes, WriteHeader(c)
      PROVE  StreamInv'
  <2>1. /\ pc = "handler" /\ UNCHANGED <<pc, mode, err, offered, headerSent, wire, received>>
    BY <1>4 DEF WriteHeader, CanCall, call
  <2> QED
    BY <2>1, NothingSent DEF StreamInv
<1>5. ASSUME NEW n \in 0..(MaxBytes - offered), BufferWrite(n)
      PROVE  StreamInv'
  <2>1. /\ pc = "handler" /\ mode # "stream" /\ UNCHANGED <<pc, mode, headerSent, wire, received>>
        /\ err' = err \/ err' = "limit"
    BY <1>5 DEF BufferWrite, CanCall, call
  <2>2. "limit" # None
    BY ResponsesAssumption
  <2> QED
    BY <2>1, <2>2, NothingSent DEF StreamInv
<1>6. ASSUME NEW n \in 0..(MaxBytes - offered), StreamWrite(n)
      PROVE  StreamInv'
  <2>1. /\ pc = "handler" /\ mode = "stream"
        /\ UNCHANGED <<mode, err, headerSent, wire, received>>
        /\ offered' = offered + n
        /\ err = None => pc' = "send" /\ data' = Bytes(offered, n)
        /\ err # None => pc' = pc
    BY <1>6 DEF StreamWrite, CanCall, call
  <2>2. /\ wire' \in Seq(Chunks) /\ received' \in Seq(Nat) /\ StreamIsWhole' /\ OpenStream'
        /\ headerSent' /\ err' = None => wire' # <<>>
    BY <2>1, NothingSent DEF StreamInv
  <2>3. CASE err # None
    BY <2>1, <2>2, <2>3 DEF StreamInv
  <2>4. CASE err = None
    <3>1. received = Bytes(0, offered) /\ offered \in Nat /\ n \in Nat /\ 0 \in Nat
      BY <2>1, <2>4 DEF StreamInv, CallInv
    <3>2. Len(received) = offered
      BY <3>1, BytesType
    <3>3. /\ Len(received') = offered /\ offered' - offered = n /\ offered <= offered'
      BY <3>1, <3>2, <2>1
    <3>4. /\ Len(received') <= offered'
          /\ data' = Bytes(Len(received'), offered' - Len(received'))
      BY <3>3, <2>1, <2>4
    <3> QED
      BY <3>4, <2>1, <2>2, <2>4 DEF StreamInv
  <2> QED
    BY <2>3, <2>4
<1>7. CASE \E ok \in BOOLEAN : SendChunk(ok)
  BY <1>7, SendStep
<1>8. CASE (\E v \in Verdicts : ForwardReturns(v)) \/ RequestReturns
  <2>1. pc = "handler" /\ pc' = "done" /\ UNCHANGED <<wire, received>>
    BY <1>8 DEF ForwardReturns, RequestReturns
  <2> QED
    BY <2>1, NothingSent DEF StreamInv
<1>9. CASE StreamReturns
  <2>1. /\ pc = "handler" /\ pc' = "done" /\ mode = "stream" /\ UNCHANGED offered
        /\ \/ UNCHANGED <<wire, received>>
           \/ /\ err = None
              /\ wire' = Append(wire, [status |-> 0, done |-> TRUE])
              /\ received' = received \o <<>>
    BY <1>9 DEF StreamReturns, Send
  <2>2. CASE UNCHANGED <<wire, received>>
    BY <2>1, <2>2, NothingSent DEF StreamInv
  <2>3. CASE /\ err = None
             /\ wire' = Append(wire, [status |-> 0, done |-> TRUE])
             /\ received' = received \o <<>>
    <3>1. /\ wire \in Seq(Chunks) /\ received \in Seq(Nat) /\ OpenStream
          /\ received = Bytes(0, offered) /\ offered \in Nat /\ 0 \in Nat
          /\ \A i \in 1..Len(wire) : i > 1 => wire[i].status = 0
      BY <2>1, <2>3 DEF StreamInv, StreamIsWhole, CallInv
    <3>2. received' = received
      BY <3>1, <2>3
    <3>3. Len(received) = offered
      BY <3>1, BytesType
    <3> DEFINE last == [status |-> 0, done |-> TRUE]
    <3>4. last \in Chunks /\ last.status = 0
      BY DEF Chunks
    <3> HIDE DEF last
    <3>5. /\ wire' \in Seq(Chunks) /\ wire' # <<>>
          /\ Len(wire') = Len(wire) + 1 /\ Len(wire) \in Nat
          /\ wire'[Len(wire) + 1] = last
          /\ \A i \in 1..Len(wire) : wire'[i] = wire[i]
      BY <3>1, <3>4, <2>3, WireAppend DEF last
    <3>6. ASSUME NEW i \in 1..Len(wire'), i > 1
          PROVE  wire'[i].status = 0
      <4>1. CASE i = Len(wire) + 1
        BY <4>1, <3>4, <3>5
      <4>2. CASE i # Len(wire) + 1
        <5>1. i \in 1..Len(wire)
          BY <4>2, <3>5
        <5> QED
          BY <5>1, <3>1, <3>5, <3>6
      <4> QED
        BY <4>1, <4>2
    <3>7. received' # <<>> => wire'[1].status # 0
      <4>1. received # <<>> => 1 \in 1..Len(wire) /\ wire[1].status # 0
        BY <3>1 DEF OpenStream
      <4> QED
        BY <4>1, <3>2, <3>5
    <3>8. \A i \in 1..Len(wire') : wire'[i].done => i = Len(wire')
      <4>1. \A i \in 1..Len(wire) : ~wire[i].done
        BY <3>1 DEF OpenStream
      <4> QED
        BY <4>1, <3>5
    <3>9. received' = Bytes(0, Len(received')) /\ Len(received') = offered'
      <4>1. Len(received') = offered /\ offered' = offered
        BY <3>2, <3>3, <2>1
      <4> QED
        BY <4>1, <3>1, <3>2
    <3>10. StreamIsWhole'
      BY <3>6, <3>7, <3>8, <3>9, <2>1 DEF StreamIsWhole
    <3> QED
      BY <3>1, <3>2, <3>5, <3>10, <2>1 DEF StreamInv
  <2> QED
    BY <2>1, <2>2, <2>3
<1> QED
  BY <1>1, <1>2, <1>3, <1>4, <1>5, <1>6, <1>7, <1>8, <1>9 DEF Next

-----------------------------------------------------------------------------
(* The theorems. *)

\* A new call satisfies the invariant.
LEMMA InitIInv ==
    ASSUME Init
    PROVE  IInv
<1> USE ResponsesAssumption
<1>1. /\ registered = <<>> /\ handlers = <<>> /\ unseen = {} /\ best = Nobody
      /\ pc \in {"register", "match"} /\ mode \in Modes
      /\ (mode # "forward" /\ fault # "noRouter") => pc = "register"
      /\ offered = 0 /\ code = 0 /\ err = None /\ headerSent = FALSE
      /\ body = <<>> /\ wire = <<>> /\ received = <<>> /\ answer = None
  BY DEF Init, RouterInit
<1>2. RouteInv
  BY <1>1 DEF RouteInv, RouteType, HandlersInv, MatchInv
<1>3. CallInv
  BY <1>1 DEF CallInv
<1>4. BufferInv
  BY <1>1, NoBytes DEF BufferInv, AnswerIsWhole
<1>5. StreamInv
  BY <1>1, NoBytes DEF StreamInv, StreamIsWhole
<1> QED
  BY <1>2, <1>3, <1>4, <1>5 DEF IInv

\* Every step keeps it.
LEMMA NextIInv ==
    ASSUME IInv, [Next]_vars
    PROVE  IInv'
<1>1. CASE Next
  BY <1>1, RouteStep, CallStep, BufferStep, StreamStep DEF IInv
<1>2. CASE UNCHANGED vars
  <2>1. UNCHANGED <<registered, handlers, request, unseen, best, mode, headers, fault, pc, calls,
                    offered, code, err, cancelled, body, headerSent, data, wire, received,
                    answer>>
    BY <1>2 DEF vars, call, routerVars
  <2>2. RouteInv'
    BY <2>1 DEF IInv, RouteInv, RouteType, HandlersInv, MatchInv, Chosen, Accepts
  <2>3. CallInv'
    BY <2>1 DEF IInv, CallInv
  <2>4. BufferInv' /\ StreamInv'
    BY <2>1 DEF IInv, BufferInv, StreamInv, OpenStream, AnswerIsWhole, StreamIsWhole, Refusal
  <2> QED
    BY <2>2, <2>3, <2>4 DEF IInv
<1> QED
  BY <1>1, <1>2

\* The route, the budget and the chunks are as the three invariants say in every call
\* of Forward, HandleRequest and HandleStreamRequest.
THEOREM Invariance == Spec => []IInv
<1>1. Init => IInv
  BY InitIInv
<1>2. IInv /\ [Next]_vars => IInv'
  BY NextIInv
<1> QED
  BY <1>1, <1>2, PTL DEF Spec

\* Whatever the routes, the groups and the order in which the map is walked, a request
\* runs the handler registered last for the longest key that accepts it.
THEOREM LongestRouteWins == Spec => []MostSpecificRoute
<1>1. ASSUME IInv
      PROVE  MostSpecificRoute
  <2> SUFFICES ASSUME pc \notin {"register", "match"}, mode # "forward", fault # "noRouter"
               PROVE  LET accepting == {i \in DOMAIN registered : Accepts(registered[i])}
                      IN  IF best = Nobody THEN accepting = {}
                          ELSE /\ best.handler \in accepting
                               /\ \A i \in accepting :
                                   LET chosen == registered[best.handler]
                                   IN  /\ Len(registered[i].path) <= Len(chosen.path)
                                       /\ registered[i] = chosen => i <= best.handler
    BY DEF MostSpecificRoute
  <2>1. /\ registered \in Seq(Keys) /\ HandlersInv
        /\ best = Nobody \/ \E key \in DOMAIN handlers : Chosen(key)
        /\ \A key \in DOMAIN handlers : Accepts(key) => Len(key.path) <= best.len
    BY <1>1 DEF IInv, RouteInv, RouteType, MatchInv
  <2>2. DOMAIN registered = 1..Len(registered) /\ Len(registered) \in Nat
    BY <2>1
  <2>3. CASE best = Nobody
    <3>1. ASSUME NEW i \in 1..Len(registered), Accepts(registered[i])
          PROVE  FALSE
      <4>1. registered[i] \in DOMAIN handlers /\ Len(registered[i].path) <= 0
        BY <3>1, <2>1, <2>3 DEF HandlersInv, Nobody
      <4>2. registered[i] \in Keys
        BY <2>1, <2>2
      <4>3. registered[i].path \in Seq(STRING)
        BY <4>2 DEF Keys
      <4>4. registered[i].path = <<>>
        BY <4>1, <4>3
      <4>5. registered[i] = request
        <5>1. request \in Keys
          BY <1>1 DEF IInv, RouteInv, RouteType
        <5> QED
          BY <5>1, <4>2, <4>4, <3>1, AcceptsProperties DEF IsPattern
      <4>6. Chosen(request) /\ handlers[request] # 0
        BY <4>1, <4>5, <2>1, <1>1 DEF IInv, RouteInv, MatchInv, HandlersInv
      <4> QED
        BY <4>6, <2>3 DEF Chosen, Nobody
    <3> QED
      BY <3>1, <2>2, <2>3
  <2>4. CASE best # Nobody
    <3>1. PICK key \in DOMAIN handlers : Chosen(key)
      BY <2>1, <2>4
    <3>2. /\ best.handler = handlers[key] /\ best.len = Len(key.path) /\ Accepts(key)
          /\ best.handler \in 1..Len(registered) /\ registered[best.handler] = key
      BY <3>1, <2>1 DEF Chosen, HandlersInv
    <3>3. ASSUME NEW i \in 1..Len(registered), Accepts(registered[i])
          PROVE  /\ Len(registered[i].path) <= Len(key.path)
                 /\ registered[i] = key => i <= best.handler
      BY <3>1, <3>2, <3>3, <2>1 DEF HandlersInv
    <3> QED
      BY <3>2, <3>3, <2>2, <2>4
  <2> QED
    BY <2>3, <2>4
<1> QED
  BY <1>1, Invariance, PTL

\* A buffered answer without an error is whole for every budget.
THEOREM BufferedAnswerWhole == Spec => []AnswerIsWhole
<1>1. IInv => AnswerIsWhole
  BY DEF IInv, BufferInv
<1> QED
  BY <1>1, Invariance, PTL

\* A streamed answer is whole, and has its status first, for every chunk size.
THEOREM StreamedAnswerWhole == Spec => []StreamIsWhole
<1>1. IInv => StreamIsWhole
  BY DEF IInv, StreamInv
<1> QED
  BY <1>1, Invariance, PTL

\* Nothing follows a chunk that could not be sent.
THEOREM ErrorEndsStream == Spec => SilentAfterError
<1>1. ASSUME IInv, Next, err # None
      PROVE  UNCHANGED <<wire, received>>
  <2>1. pc \notin {"register", "match", "send"}
    BY <1>1 DEF IInv, CallInv
  <2>2. CASE \/ \E g \in Groups, p \in Patterns : Register(g, p)
             \/ \E r \in Requests : Request(r)
             \/ \E key \in unseen : MatchNext(key)
    BY <2>1, <2>2, MatchingFrame
  <2>3. CASE Unrouted \/ Routed
    BY <2>1, <2>3 DEF Unrouted, Routed, Matched
  <2>4. CASE (\E c \in Codes : WriteHeader(c))
             \/ \E n \in 0..(MaxBytes - offered) : BufferWrite(n) \/ StreamWrite(n)
    BY <2>4 DEF WriteHeader, BufferWrite, StreamWrite
  <2>5. CASE \E ok \in BOOLEAN : SendChunk(ok)
    BY <2>1, <2>5 DEF SendChunk
  <2>6. CASE (\E v \in Verdicts : ForwardReturns(v)) \/ RequestReturns \/ StreamReturns
    BY <1>1, <2>6 DEF ForwardReturns, RequestReturns, StreamReturns
  <2> QED
    BY <1>1, <2>2, <2>3, <2>4, <2>5, <2>6 DEF Next
<1>2. ASSUME IInv, [Next]_vars
      PROVE  [err # None => UNCHANGED <<wire, received>>]_vars
  BY <1>1, <1>2 DEF vars
<1> QED
  BY <1>2, Invariance, PTL DEF Spec, SilentAfterError
=============================================================================
