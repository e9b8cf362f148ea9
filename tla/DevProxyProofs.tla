---------------------------- MODULE DevProxyProofs ----------------------------
(***************************************************************************)
(* Proofs about DevProxy for any number of requests, accounts, outcomes    *)
(* and management calls.                                                   *)
(*                                                                         *)
(* The requests and the store only meet in what Select returns, and        *)
(* nothing is assumed of that here: StoreInv is about the AccountStore,    *)
(* RequestInv about one request, whatever accounts it is given.            *)
(* The round robin is arithmetic about one state: NthBijection numbers the *)
(* slots, TurnBijection says that a turn of the counter takes each once.   *)
(***************************************************************************)
EXTENDS DevProxy, FiniteSetTheorems, SequenceTheorems, WellFoundedInduction, TLAPS

\* A sequence, of whatever its elements are.
IsSeq(s) == s \in Seq(ToSet(s))

\* The fields of a request.
Fields == {"pc", "stream", "account", "attempt", "maxAttempts", "tried", "buffer",
           "outcome", "used", "response"}

\* Answers to a client that does not stream.
OneAnswer(q) ==
    /\ Len(q.response) <= 1
    /\ \A i \in 1..Len(q.response) : ToSet(q.response[i]) \subseteq {0, q.account}

\* The accounts used so far are among those tried; the one a request is about to use
\* is tried and not used. Nothing is in the buffer when an attempt begins, and
\* nothing but the current attempt's bytes afterwards.
RequestInv(q) ==
    /\ DOMAIN q = Fields /\ q.stream \in BOOLEAN
    /\ IsSeq(q.used)
    /\ \A i, j \in 1..Len(q.used) : i # j => q.used[i] # q.used[j]
    /\ q.pc \in {"select", "count"} => q.used = <<>> /\ q.tried = {}
    /\ q.pc # "done" => ToSet(q.used) \subseteq q.tried
    /\ q.pc = "forward" => q.account \in q.tried \ ToSet(q.used) /\ q.buffer = <<>>
    /\ q.pc \in {"report", "decide"} => ToSet(q.buffer) \subseteq {q.account}
    /\ ~q.stream => /\ q.pc # "done" => q.response = <<>>
                    /\ OneAnswer(q)

RequestsInv == DOMAIN req = Requests /\ \A r \in Requests : RequestInv(req[r])

\* The accounts have IDs of their own, below next, and none of them is deleted; the
\* deleted ones are below next too, so that none is given out again.
GoodStore(accs, next, gone) ==
    /\ accs \in Seq(Accounts) /\ next \in Nat \ {0}
    /\ \A i, j \in 1..Len(accs) : i # j => accs[i].id # accs[j].id
    /\ \A i \in 1..Len(accs) : accs[i].id < next /\ accs[i].id \notin gone
    /\ \A id \in gone : id \in Nat /\ id < next

\* The file is the store; what setWeight has read is an account ID and a weight.
StoreInv ==
    /\ file = accounts
    /\ GoodStore(accounts, nextID, deleted)
    /\ setting = <<>> \/ \E id \in 1..MaxID, w \in Weights : setting = <<id, w>>

\* The counter of the round robin is not negative.
IInv == StoreInv /\ RequestsInv /\ counter \in Nat

-----------------------------------------------------------------------------
(* A request. *)

\* A sequence with one more element.
LEMMA SeqAppend ==
    ASSUME NEW s, IsSeq(s), NEW x
    PROVE  /\ IsSeq(Append(s, x)) /\ Len(s) \in Nat
           /\ Len(Append(s, x)) = Len(s) + 1
           /\ \A i \in 1..Len(s) : Append(s, x)[i] = s[i] /\ s[i] \in ToSet(s)
           /\ Append(s, x)[Len(s) + 1] = x
           /\ ToSet(Append(s, x)) = ToSet(s) \cup {x}
<1> DEFINE S == ToSet(s) \cup {x}
           t == Append(s, x)
<1>1. s \in Seq(S) /\ x \in S
  BY DEF IsSeq
<1>2. /\ t \in Seq(S) /\ Len(s) \in Nat /\ Len(t) = Len(s) + 1
      /\ \A i \in 1..Len(s) : t[i] = s[i]
      /\ t[Len(s) + 1] = x
  BY <1>1
<1>3. DOMAIN s = 1..Len(s) /\ DOMAIN t = 1..Len(t)
  BY <1>1, <1>2
<1> HIDE DEF t
<1>4. ToSet(t) = S
  BY <1>2, <1>3 DEF ToSet
<1> QED
  BY <1>2, <1>3, <1>4 DEF IsSeq, ToSet, t

\* A sequence of one element.
LEMMA Single ==
    ASSUME NEW x
    PROVE  /\ <<x>> \in Seq({x}) /\ Len(<<x>>) = 1 /\ <<x>>[1] = x
           /\ ToSet(<<x>>) = {x} /\ <<>> \o <<x>> = <<x>>
<1>1. <<x>> \in Seq({x}) /\ Len(<<x>>) = 1 /\ <<x>>[1] = x /\ DOMAIN <<x>> = 1..1
  OBVIOUS
<1> QED
  BY <1>1 DEF ToSet

\* Nothing is in the empty sequence.
LEMMA Nothing == IsSeq(<<>>) /\ Len(<<>>) = 0 /\ ToSet(<<>>) = {}
  BY DEF IsSeq, ToSet

\* A new request.
LEMMA NewRequestInv ==
    ASSUME NEW s \in BOOLEAN
    PROVE  /\ RequestInv(NewRequest(s))
           /\ RequestInv([NewRequest(s) EXCEPT !.pc = "done"])
<1>1. /\ DOMAIN NewRequest(s) = Fields /\ NewRequest(s).stream = s /\ NewRequest(s).used = <<>>
      /\ NewRequest(s).tried = {} /\ NewRequest(s).response = <<>>
      /\ NewRequest(s).pc = "select"
  BY DEF NewRequest, Fields
<1> QED
  BY <1>1, Nothing DEF RequestInv, OneAnswer, Fields

\* handleHTTP answers a client that does not stream with a page or an outcome of the
\* current account.
LEMMA FinishInv ==
    ASSUME NEW q, RequestInv(q), q.pc # "done",
           NEW x, ToSet(x) \subseteq {0, q.account}
    PROVE  /\ RequestInv(Finish(q, <<x>>))
           /\ q.stream => RequestInv(Finish(q, <<>>))
<1>1. ASSUME NEW w
      PROVE  /\ DOMAIN Finish(q, w) = Fields /\ Finish(q, w).pc = "done"
             /\ Finish(q, w).stream = q.stream /\ Finish(q, w).account = q.account
             /\ Finish(q, w).used = q.used /\ Finish(q, w).response = q.response \o w
  BY DEF Finish, NewRequest, Fields
<1>2. ~q.stream => q.response = <<>>
  BY DEF RequestInv
<1>3. ASSUME ~q.stream
      PROVE  OneAnswer(Finish(q, <<x>>))
  <2>1. Finish(q, <<x>>).response = <<>> \o <<x>> /\ Finish(q, <<x>>).account = q.account
    BY <1>1, <1>2, <1>3, Zenon
  <2>2. Finish(q, <<x>>).response = <<x>>
    BY <2>1, Single, Zenon
  <2> DEFINE f == Finish(q, <<x>>)
             t == <<x>>
  <2>3. f.response = t /\ f.account = q.account /\ Len(t) = 1 /\ t[1] = x
    BY <2>1, <2>2, Single, Zenon
  <2> HIDE DEF f, t
  <2>4. OneAnswer(f)
    BY <2>3 DEF OneAnswer
  <2> QED
    BY <2>4 DEF f
<1> HIDE DEF Finish
<1> QED
  BY <1>1, <1>3 DEF RequestInv

\* A client that has no answer yet.
LEMMA NoAnswerYet ==
    ASSUME NEW q, q.response = <<>>
    PROVE  OneAnswer(q)
  BY Nothing DEF OneAnswer

\* The first account is selected.
LEMMA SelectedInv ==
    ASSUME NEW q, RequestInv(q), q.pc = "select", NEW a
    PROVE  RequestInv([q EXCEPT !.pc = "count", !.account = a])
<1> DEFINE p == [q EXCEPT !.pc = "count", !.account = a]
<1>1. /\ DOMAIN p = Fields /\ p.pc = "count" /\ p.stream = q.stream /\ p.used = q.used
      /\ p.tried = q.tried /\ p.response = q.response
  BY DEF RequestInv, Fields
<1> HIDE DEF p
<1>2. RequestInv(p)
  BY <1>1, NoAnswerYet DEF RequestInv
<1> QED
  BY <1>2 DEF p

\* An attempt begins with an account that was not tried.
LEMMA AttemptInv ==
    ASSUME NEW q, RequestInv(q), q.pc \in {"count", "reselect"}, NEW id, id \notin q.tried,
           NEW n
    PROVE  /\ RequestInv(Attempt(q, id))
           /\ RequestInv([Attempt(q, id) EXCEPT !.maxAttempts = n])
<1>1. ASSUME NEW p, DOMAIN p = Fields, p.pc = "forward", p.account = id,
             p.tried = q.tried \cup {id}, p.buffer = <<>>, p.stream = q.stream,
             p.used = q.used, p.response = q.response
      PROVE  RequestInv(p)
  BY <1>1, NoAnswerYet DEF RequestInv
<1> DEFINE p == Attempt(q, id)
           p2 == [p EXCEPT !.maxAttempts = n]
<1>2. /\ DOMAIN p = Fields /\ p.pc = "forward" /\ p.account = id
      /\ p.tried = q.tried \cup {id} /\ p.buffer = <<>> /\ p.stream = q.stream
      /\ p.used = q.used /\ p.response = q.response
  BY DEF RequestInv, Attempt, Fields
<1> HIDE DEF p
<1>3. /\ DOMAIN p2 = Fields /\ p2.pc = "forward" /\ p2.account = id
      /\ p2.tried = q.tried \cup {id} /\ p2.buffer = <<>> /\ p2.stream = q.stream
      /\ p2.used = q.used /\ p2.response = q.response
  BY <1>2 DEF Fields
<1> HIDE DEF p2
<1>4. RequestInv(p)
  BY <1>1, <1>2
<1>5. RequestInv(p2)
  BY <1>1, <1>3
<1> QED
  BY <1>4, <1>5 DEF p, p2

\* The attempt's bytes go to the client of a stream, or to the attempt's own buffer.
LEMMA ForwardInv ==
    ASSUME NEW q, RequestInv(q), q.pc = "forward", NEW o
    PROVE  RequestInv(Forwarded(q, o))
<1> DEFINE p == Forwarded(q, o)
<1>1. /\ DOMAIN p = Fields /\ p.pc = "report" /\ p.stream = q.stream
      /\ p.account = q.account /\ p.tried = q.tried
      /\ p.used = Append(q.used, q.account)
      /\ ~q.stream => p.response = q.response
      /\ p.buffer \in {q.buffer, Append(q.buffer, q.account)}
  BY DEF RequestInv, Fields, Forwarded
<1> HIDE DEF p
<1>2. /\ IsSeq(q.used) /\ q.account \in q.tried /\ q.account \notin ToSet(q.used)
      /\ ToSet(q.used) \subseteq q.tried /\ q.buffer = <<>> /\ q.stream \in BOOLEAN
      /\ ~q.stream => q.response = <<>>
      /\ \A i, j \in 1..Len(q.used) : i # j => q.used[i] # q.used[j]
  BY DEF RequestInv
<1> DEFINE u == q.used
           v == p.used
           n == Len(u)
<1>3. /\ IsSeq(v) /\ ToSet(v) = ToSet(u) \cup {q.account}
      /\ n \in Nat /\ Len(v) = n + 1
      /\ \A i \in 1..n : v[i] = u[i] /\ u[i] \in ToSet(u)
      /\ v[n + 1] = q.account
  <2>1. v = Append(u, q.account) /\ IsSeq(u)
    BY <1>1, <1>2
  <2> HIDE DEF u, v
  <2> QED
    BY <2>1, SeqAppend
<1>4. \A i, j \in 1..Len(p.used) : i # j => p.used[i] # p.used[j]
  <2>1. /\ n \in Nat /\ Len(v) = n + 1
        /\ \A i \in 1..n : v[i] = u[i] /\ u[i] \in ToSet(u)
        /\ v[n + 1] = q.account /\ q.account \notin ToSet(u)
        /\ \A i, j \in 1..n : i # j => u[i] # u[j]
    BY <1>2, <1>3
  <2> HIDE DEF u, v, n
  <2>2. \A i, j \in 1..(n + 1) : i # j => v[i] # v[j]
    <3> SUFFICES ASSUME NEW i \in 1..(n + 1), NEW j \in 1..(n + 1), i # j, v[i] = v[j]
                 PROVE  FALSE
      OBVIOUS
    <3>1. CASE i = n + 1
      <4>1. j \in 1..n
        BY <3>1, <2>1
      <4> QED
        BY <3>1, <4>1, <2>1
    <3>2. CASE j = n + 1
      <4>1. i \in 1..n
        BY <3>2, <2>1
      <4> QED
        BY <3>2, <4>1, <2>1
    <3>3. CASE i # n + 1 /\ j # n + 1
      <4>1. i \in 1..n /\ j \in 1..n
        BY <3>3, <2>1
      <4> QED
        BY <4>1, <2>1
    <3> QED
      BY <3>1, <3>2, <3>3
  <2>3. \A i, j \in 1..Len(v) : i # j => v[i] # v[j]
    BY <2>1, <2>2
  <2> QED
    BY <2>3 DEF v
<1>5. ToSet(p.buffer) \subseteq {p.account}
  <2>1. ToSet(q.buffer) = {} /\ ToSet(Append(q.buffer, q.account)) = {} \cup {q.account}
    <3>1. IsSeq(q.buffer) /\ ToSet(q.buffer) = {}
      BY <1>2, Nothing
    <3> QED
      BY <3>1, SeqAppend
  <2> QED
    BY <2>1, <1>1
<1>6. RequestInv(p)
  BY <1>1, <1>2, <1>3, <1>4, <1>5, NoAnswerYet DEF RequestInv
<1> QED
  BY <1>6 DEF p

\* The outcome is reported, and the request goes on.
LEMMA GoOnInv ==
    ASSUME NEW q, RequestInv(q), NEW a
    PROVE  /\ q.pc = "report" => RequestInv([q EXCEPT !.pc = "decide"])
           /\ q.pc = "decide" => RequestInv([q EXCEPT !.pc = "reselect", !.attempt = a])
<1>1. ASSUME NEW p, DOMAIN p = Fields, p.pc \in {"decide", "reselect"}, p.account = q.account,
             p.tried = q.tried, p.buffer = q.buffer, p.stream = q.stream,
             p.used = q.used, p.response = q.response, q.pc \in {"report", "decide"}
      PROVE  RequestInv(p)
  BY <1>1, NoAnswerYet DEF RequestInv
<1>2. ASSUME q.pc = "report"
      PROVE  RequestInv([q EXCEPT !.pc = "decide"])
  <2> DEFINE p == [q EXCEPT !.pc = "decide"]
  <2>1. /\ DOMAIN p = Fields /\ p.pc = "decide" /\ p.account = q.account
        /\ p.tried = q.tried /\ p.buffer = q.buffer /\ p.stream = q.stream
        /\ p.used = q.used /\ p.response = q.response
    BY DEF RequestInv, Fields
  <2> HIDE DEF p
  <2>2. RequestInv(p)
    BY <2>1, <1>1, <1>2
  <2> QED
    BY <2>2 DEF p
<1>3. ASSUME q.pc = "decide"
      PROVE  RequestInv([q EXCEPT !.pc = "reselect", !.attempt = a])
  <2> DEFINE p == [q EXCEPT !.pc = "reselect", !.attempt = a]
  <2>1. /\ DOMAIN p = Fields /\ p.pc = "reselect" /\ p.account = q.account
        /\ p.tried = q.tried /\ p.buffer = q.buffer /\ p.stream = q.stream
        /\ p.used = q.used /\ p.response = q.response
    BY DEF RequestInv, Fields
  <2> HIDE DEF p
  <2>2. RequestInv(p)
    BY <2>1, <1>1, <1>3
  <2> QED
    BY <2>2 DEF p
<1> QED
  BY <1>2, <1>3

\* A step of one request changes that request alone.
LEMMA RequestChanged ==
    ASSUME RequestsInv, NEW r \in Requests, NEW p, RequestInv(p), req' = [req EXCEPT ![r] = p]
    PROVE  RequestsInv'
  BY DEF RequestsInv

\* Every step keeps RequestsInv.
LEMMA RequestsStep ==
    ASSUME RequestsInv, Next
    PROVE  RequestsInv'
<1>1. ASSUME NEW r \in Requests, Handle(r)
      PROVE  RequestsInv'
  <2> DEFINE q == req[r]
  <2>0. RequestInv(q)
    BY DEF RequestsInv
  <2>p. ToSet(Page) \subseteq {0, q.account} /\ ToSet(Exhausted) \subseteq {0, q.account}
    BY Nothing, Single DEF Page, Exhausted
  <2>1. CASE Begin(r)
    <3>1. /\ q.pc = "select"
          /\ \/ req' = [req EXCEPT ![r] = Finish(q, <<Page>>)]
             \/ req' = [req EXCEPT ![r] = [q EXCEPT !.pc = "count", !.account = Select]]
      BY <2>1 DEF Begin
    <3>2. RequestInv(Finish(q, <<Page>>))
          /\ RequestInv([q EXCEPT !.pc = "count", !.account = Select])
      BY <3>1, <2>0, <2>p, FinishInv, SelectedInv
    <3> QED
      BY <3>1, <3>2, RequestChanged
  <2>2. CASE CountAttempts(r)
    <3>1. /\ q.pc = "count"
          /\ req' = [req EXCEPT ![r] = [Attempt(q, q.account) EXCEPT
                                            !.maxAttempts = Max({1, Len(accounts)})]]
      BY <2>2 DEF CountAttempts
    <3>2. q.account \notin q.tried
      BY <3>1, <2>0 DEF RequestInv
    <3>3. RequestInv([Attempt(q, q.account) EXCEPT !.maxAttempts = Max({1, Len(accounts)})])
      BY <3>1, <3>2, <2>0, AttemptInv
    <3> QED
      BY <3>1, <3>3, RequestChanged
  <2>3. CASE ReportResult(r)
    <3>1. q.pc = "report" /\ req' = [req EXCEPT ![r] = [q EXCEPT !.pc = "decide"]]
      BY <2>3 DEF ReportResult
    <3>2. RequestInv([q EXCEPT !.pc = "decide"])
      BY <3>1, <2>0, GoOnInv
    <3> QED
      BY <3>1, <3>2, RequestChanged
  <2>4. CASE Decide(r)
    <3>1. /\ q.pc = "decide"
          /\ \/ req' = [req EXCEPT ![r] = [q EXCEPT !.pc = "reselect", !.attempt = q.attempt + 1]]
             \/ req' = [req EXCEPT ![r] = Finish(q, <<Exhausted>>)]
             \/ req' = [req EXCEPT ![r] = Finish(q, <<Page>>)]
             \/ q.stream /\ req' = [req EXCEPT ![r] = Finish(q, <<>>)]
             \/ req' = [req EXCEPT ![r] = Finish(q, <<OutcomeBody(q)>>)]
      BY <2>4 DEF Decide
    <3>2. ToSet(OutcomeBody(q)) \subseteq {0, q.account}
      BY <3>1, <2>0, Single DEF OutcomeBody, RequestInv
    <3>3. /\ RequestInv([q EXCEPT !.pc = "reselect", !.attempt = q.attempt + 1])
          /\ RequestInv(Finish(q, <<Exhausted>>))
          /\ RequestInv(Finish(q, <<Page>>))
          /\ q.stream => RequestInv(Finish(q, <<>>))
          /\ RequestInv(Finish(q, <<OutcomeBody(q)>>))
      BY <3>1, <3>2, <2>0, <2>p, FinishInv, GoOnInv
    <3> QED
      BY <3>1, <3>3, RequestChanged
  <2>5. CASE Reselect(r)
    <3>1. /\ q.pc = "reselect"
          /\ \/ Select \notin q.tried /\ req' = [req EXCEPT ![r] = Attempt(q, Select)]
             \/ req' = [req EXCEPT ![r] = Finish(q, <<Exhausted>>)]
      <4>1. MayUse(q, Select) => Select \notin q.tried
        BY DEF MayUse
      <4> QED
        BY <4>1, <2>5 DEF Reselect
    <3>2. /\ Select \notin q.tried => RequestInv(Attempt(q, Select))
          /\ RequestInv(Finish(q, <<Exhausted>>))
      BY <3>1, <2>0, <2>p, FinishInv, AttemptInv
    <3> QED
      BY <3>1, <3>2, RequestChanged
  <2>6. ASSUME NEW o \in Outcomes, Forward(r, o)
        PROVE  RequestsInv'
    <3>1. q.pc = "forward" /\ req' = [req EXCEPT ![r] = Forwarded(q, o)]
      BY <2>6 DEF Forward
    <3>2. RequestInv(Forwarded(q, o))
      BY <3>1, <2>0, ForwardInv
    <3> QED
      BY <3>1, <3>2, RequestChanged
  <2> QED
    BY <1>1, <2>1, <2>2, <2>3, <2>4, <2>5, <2>6 DEF Handle
<1>2. CASE HandleWebSocket \/ Manage \/ \E id \in 1..MaxID : CooldownExpires(id)
  <2>1. UNCHANGED req
    BY <1>2 DEF HandleWebSocket, Manage, CooldownExpires, Create, Update, SetWeightGet,
       SetWeightUpdate, Delete, SetPolicy, SetPinned
  <2> QED
    BY <2>1 DEF RequestsInv
<1>3. CASE Restart
  <2>1. req' = [r \in Requests |-> [NewRequest(req[r].stream) EXCEPT !.pc = "done"]]
    BY <1>3 DEF Restart
  <2>2. \A r \in Requests : req[r].stream \in BOOLEAN
    BY DEF RequestsInv, RequestInv
  <2>3. \A r \in Requests : RequestInv([NewRequest(req[r].stream) EXCEPT !.pc = "done"])
    BY <2>2, NewRequestInv
  <2> QED
    BY <2>1, <2>3 DEF RequestsInv
<1> QED
  BY <1>1, <1>2, <1>3 DEF Next

-----------------------------------------------------------------------------
(* load: the largest ID. *)

\* A set of natural numbers has a least element.
LEMMA Least ==
    ASSUME NEW T, T \subseteq Nat, T # {}
    PROVE  \E x \in T : \A y \in T : x <= y
<1> DEFINE R == OpToRel(<, Nat)
<1>1. \A x, y \in Nat : x < y => <<x, y>> \in R
  BY DEF OpToRel
<1>2. IsWellFoundedOn(R, Nat)
  BY NatLessThanWellFounded
<1> HIDE DEF R
<1>3. PICK x \in T : \A y \in T : ~(<<y, x>> \in R)
  BY <1>2, WFMin
<1>4. ASSUME NEW y \in T
      PROVE  x <= y
  <2>1. x \in Nat /\ y \in Nat
    BY Zenon
  <2>2. ~(y < x)
    BY <1>1, <1>3, <2>1, Zenon
  <2> QED
    BY <2>1, <2>2
<1> QED
  BY <1>4

\* The IDs in a store are bounded: otherwise there is a shortest prefix of it whose IDs
\* are not, and the prefix before that one has a bound.
LEMMA Bounded ==
    ASSUME NEW accs \in Seq(Accounts)
    PROVE  \E u \in Nat : \A i \in 1..Len(accs) : accs[i].id <= u
<1> DEFINE Bound(n, u) == \A i \in 1..n : accs[i].id <= u
           T == {n \in 0..Len(accs) : ~\E u \in Nat : Bound(n, u)}
<1>0. Len(accs) \in Nat /\ \A i \in 1..Len(accs) : accs[i].id \in Nat
  <2>1. \A i \in 1..Len(accs) : accs[i] \in Accounts
    OBVIOUS
  <2> QED
    BY <2>1 DEF Accounts
<1>1. T = {}
  <2> SUFFICES ASSUME T # {}
               PROVE  FALSE
    OBVIOUS
  <2>1. T \subseteq Nat
    BY <1>0
  <2>2. PICK n \in T : \A m \in T : n <= m
    <3> HIDE DEF T
    <3> QED
      BY <2>1, Least
  <2>3. n \in 0..Len(accs) /\ n \in Nat /\ ~\E u \in Nat : Bound(n, u)
    BY <2>1
  <2>4. n # 0
    BY <2>3
  <2>5. n - 1 \in 0..Len(accs) /\ n \in 1..Len(accs)
    BY <2>3, <2>4, <1>0
  <2>6. n - 1 \notin T
    <3> HIDE DEF T
    <3> QED
      BY <2>2, <2>3, <2>5
  <2>7. PICK u \in Nat : Bound(n - 1, u)
    <3> HIDE DEF Bound
    <3> QED
      BY <2>5, <2>6
  <2> HIDE DEF T
  <2>8. PICK v \in Nat : u <= v /\ accs[n].id <= v
    <3>1. PICK a \in Nat : a = accs[n].id
      BY <2>5, <1>0
    <3>2. \E v \in Nat : u <= v /\ a <= v
      <4>1. a + u \in Nat /\ u <= a + u /\ a <= a + u
        OBVIOUS
      <4> QED
        BY <4>1
    <3> QED
      BY <3>1, <3>2
  <2>9. Bound(n, v)
    <3> SUFFICES ASSUME NEW i \in 1..n
                 PROVE  accs[i].id <= v
      OBVIOUS
    <3>1. CASE i = n
      BY <3>1, <2>8
    <3>2. CASE i # n
      <4>1. i \in 1..(n - 1) /\ i \in 1..Len(accs)
        BY <3>2, <2>3, <2>5, <1>0
      <4>2. accs[i].id <= u /\ accs[i].id \in Nat
        BY <4>1, <2>7, <1>0
      <4> QED
        BY <4>2, <2>8
    <3> QED
      BY <3>1, <3>2
  <2> QED
    BY <2>3, <2>9
<1>2. Len(accs) \notin T /\ Len(accs) \in 0..Len(accs)
  <2> HIDE DEF T
  <2> QED
    BY <1>0, <1>1
<1> QED
  BY <1>2

\* A set of natural numbers with a bound has a largest element.
LEMMA Largest ==
    ASSUME NEW T, T \subseteq Nat, T # {}, NEW b \in Nat, \A x \in T : x <= b
    PROVE  Max(T) \in T /\ \A y \in T : y <= Max(T)
<1> DEFINE U == {u \in Nat : \A x \in T : x <= u}
<1>1. U \subseteq Nat /\ U # {}
  OBVIOUS
<1>2. PICK m \in U : \A u \in U : m <= u
  <2> HIDE DEF U
  <2> QED
    BY <1>1, Least
<1>3. m \in Nat /\ \A x \in T : x \in Nat /\ x <= m
  OBVIOUS
<1>4. m \in T
  <2> SUFFICES ASSUME m \notin T
               PROVE  FALSE
    OBVIOUS
  <2>1. PICK x \in T : TRUE
    OBVIOUS
  <2>2. m - 1 \in Nat
    BY <1>3, <2>1
  <2>3. \A y \in T : y <= m - 1
    BY <1>3
  <2>4. m - 1 \in U
    BY <2>2, <2>3
  <2> QED
    BY <1>2, <1>3, <2>4
<1>5. \E x \in T : \A y \in T : x >= y
  BY <1>3, <1>4
<1>6. Max(T) \in T /\ \A y \in T : Max(T) >= y
  BY <1>5 DEF Max
<1>7. Max(T) \in Nat /\ \A y \in T : y \in Nat
  BY <1>6, <1>3
<1> QED
  BY <1>6, <1>7

\* load: nextID is above every ID in the file.
LEMMA LoadNextID ==
    ASSUME NEW accs \in Seq(Accounts)
    PROVE  /\ NextIDAfter(accs) \in Nat \ {0}
           /\ \A i \in 1..Len(accs) : accs[i].id < NextIDAfter(accs)
<1> DEFINE T == {0} \cup IDs(accs)
<1>0. Len(accs) \in Nat /\ \A i \in 1..Len(accs) : accs[i].id \in Nat
  <2>1. \A i \in 1..Len(accs) : accs[i] \in Accounts
    OBVIOUS
  <2> QED
    BY <2>1 DEF Accounts
<1>1. T \subseteq Nat /\ T # {} /\ \A i \in 1..Len(accs) : accs[i].id \in T
  BY <1>0 DEF IDs
<1>2. PICK b \in Nat : \A i \in 1..Len(accs) : accs[i].id <= b
  BY Bounded
<1>3. \A x \in T : x <= b
  BY <1>2 DEF IDs
<1> HIDE DEF T
<1>4. Max(T) \in T /\ \A y \in T : y <= Max(T)
  BY <1>1, <1>3, Largest
<1>5. Max(T) \in Nat
  BY <1>1, <1>4
<1>6. NextIDAfter(accs) = Max(T) + 1
  BY DEF NextIDAfter, T
<1>7. ASSUME NEW i \in 1..Len(accs)
      PROVE  accs[i].id < Max(T) + 1
  <2>1. accs[i].id \in Nat /\ accs[i].id <= Max(T)
    BY <1>0, <1>1, <1>4
  <2> QED
    BY <2>1, <1>5
<1> QED
  BY <1>5, <1>6, <1>7

-----------------------------------------------------------------------------
(* AccountStore. *)

\* The elements of a store.
LEMMA StoreElements ==
    ASSUME NEW accs \in Seq(Accounts)
    PROVE  /\ Len(accs) \in Nat
           /\ \A i \in 1..Len(accs) : accs[i] \in Accounts /\ accs[i].id \in Nat
<1>1. Len(accs) \in Nat /\ \A i \in 1..Len(accs) : accs[i] \in Accounts
  OBVIOUS
<1> QED
  BY <1>1 DEF Accounts

\* load.
LEMMA Loaded ==
    ASSUME NEW accs \in Seq(Accounts),
           \A i, j \in 1..Len(accs) : i # j => accs[i].id # accs[j].id
    PROVE  GoodStore(accs, NextIDAfter(accs), {})
  BY LoadNextID DEF GoodStore

\* Create.
LEMMA Created ==
    ASSUME NEW accs, NEW next, NEW gone, GoodStore(accs, next, gone), NEW w \in Int
    PROVE  GoodStore(Append(accs, [id |-> next, weight |-> w]), next + 1, gone)
<1> DEFINE a == [id |-> next, weight |-> w]
           t == Append(accs, a)
           n == Len(accs)
<1>1. accs \in Seq(Accounts) /\ next \in Nat \ {0}
  BY DEF GoodStore
<1>2. a \in Accounts /\ a.id = next
  BY <1>1 DEF Accounts
<1>3. n \in Nat /\ \A i \in 1..n : accs[i].id \in Nat
  BY <1>1, StoreElements
<1> HIDE DEF a
<1>4. /\ t \in Seq(Accounts) /\ Len(t) = n + 1 /\ t[n + 1] = a
      /\ \A i \in 1..n : t[i] = accs[i]
  BY <1>1, <1>2
<1> HIDE DEF t
<1>5. \A i \in 1..(n + 1) : i \in 1..n \/ i = n + 1
  BY <1>3
<1>6. \A i \in 1..n : accs[i].id < next /\ accs[i].id \notin gone
  BY DEF GoodStore
<1>7. \A id \in gone : id \in Nat /\ id < next
  BY DEF GoodStore
<1> HIDE DEF n
<1>8. \A i \in 1..Len(t) : t[i].id < next + 1 /\ t[i].id \notin gone
  <2> SUFFICES ASSUME NEW i \in 1..Len(t)
               PROVE  t[i].id < next + 1 /\ t[i].id \notin gone
    OBVIOUS
  <2>1. CASE i = n + 1
    BY <2>1, <1>1, <1>2, <1>4, <1>7
  <2>2. CASE i \in 1..n
    <3>1. t[i].id = accs[i].id /\ accs[i].id \in Nat /\ accs[i].id < next
          /\ accs[i].id \notin gone
      BY <2>2, <1>3, <1>4, <1>6
    <3> QED
      BY <3>1, <1>1
  <2> QED
    BY <2>1, <2>2, <1>4, <1>5
<1>9. \A i, j \in 1..Len(t) : i # j => t[i].id # t[j].id
  <2>1. \A i \in 1..n : t[i].id = accs[i].id /\ t[i].id # next
    BY <1>1, <1>3, <1>4, <1>6
  <2>2. \A i, j \in 1..n : i # j => accs[i].id # accs[j].id
    BY DEF GoodStore, n
  <2> SUFFICES ASSUME NEW i \in 1..Len(t), NEW j \in 1..Len(t), i # j
               PROVE  t[i].id # t[j].id
    OBVIOUS
  <2>3. CASE i = n + 1 \/ j = n + 1
    BY <2>1, <2>3, <1>2, <1>4, <1>5
  <2>4. CASE i \in 1..n /\ j \in 1..n
    BY <2>1, <2>2, <2>4
  <2> QED
    BY <2>3, <2>4, <1>4, <1>5
<1>10. \A id \in gone : id \in Nat /\ id < next + 1
  BY <1>1, <1>7
<1>11. next + 1 \in Nat \ {0}
  BY <1>1
<1>12. GoodStore(t, next + 1, gone)
  BY <1>4, <1>8, <1>9, <1>10, <1>11 DEF GoodStore
<1> QED
  BY <1>12 DEF t, a

\* Update changes no ID.
LEMMA UpdatedStore ==
    ASSUME GoodStore(accounts, nextID, deleted), NEW id \in 1..MaxID, NEW w \in Weights
    PROVE  GoodStore(Updated(id, w), nextID, deleted)
<1> DEFINE t == Updated(id, w)
           n == Len(accounts)
<1>1. accounts \in Seq(Accounts)
  BY DEF GoodStore
<1>2. n \in Nat /\ \A i \in 1..n : accounts[i] \in Accounts
  BY <1>1, StoreElements
<1>3. [id |-> id, weight |-> w] \in Accounts
  BY DevProxyAssumption DEF Accounts
<1>4. /\ t \in Seq(Accounts) /\ Len(t) = n
      /\ \A i \in 1..n : t[i].id = accounts[i].id
  BY <1>2, <1>3 DEF Updated
<1> HIDE DEF t
<1>5. GoodStore(t, nextID, deleted)
  BY <1>4 DEF GoodStore
<1> QED
  BY <1>5 DEF t

\* Delete.
LEMMA Removed ==
    ASSUME NEW accs, NEW next, NEW gone, GoodStore(accs, next, gone), NEW k \in 1..Len(accs)
    PROVE  GoodStore(RemoveAt(accs, k), next, gone \cup {accs[k].id})
<1> DEFINE t == RemoveAt(accs, k)
           n == Len(accs)
           From(i) == IF i < k THEN i ELSE i + 1
<1>1. accs \in Seq(Accounts) /\ next \in Nat \ {0}
  BY DEF GoodStore
<1>2. n \in Nat /\ \A i \in 1..n : accs[i].id \in Nat
  BY <1>1, StoreElements
<1>3. /\ t \in Seq(Accounts) /\ Len(t) = n - 1
      /\ \A i \in 1..(n - 1) : t[i] = accs[From(i)]
  <2> DEFINE a == SubSeq(accs, 1, k - 1)
             b == SubSeq(accs, k + 1, n)
  <2>1. /\ a \in Seq(Accounts) /\ Len(a) = k - 1
        /\ \A i \in 1..(k - 1) : a[i] = accs[i]
    BY <1>1, <1>2
  <2>2. /\ b \in Seq(Accounts) /\ Len(b) = n - k
        /\ \A i \in 1..(n - k) : b[i] = accs[k + i]
    BY <1>1, <1>2
  <2>3. t = a \o b
    BY DEF RemoveAt
  <2> HIDE DEF a, b, t
  <2>4. t \in Seq(Accounts) /\ Len(t) = n - 1
    <3>0. a \in Seq(Accounts) /\ b \in Seq(Accounts)
      BY <2>1, <2>2
    <3>1. t \in Seq(Accounts) /\ Len(t) = Len(a) + Len(b)
      BY <3>0, <2>3, ConcatProperties
    <3>2. (k - 1) + (n - k) = n - 1
      BY <1>2
    <3> QED
      BY <3>1, <3>2, <2>1, <2>2
  <2>5. ASSUME NEW i \in 1..(n - 1)
        PROVE  t[i] = accs[From(i)]
    <3>1. CASE i < k
      BY <3>1, <2>1, <2>2, <2>3, <1>2
    <3>2. CASE ~(i < k)
      <4>1. PICK m \in Nat : m = i - (k - 1)
        BY <3>2, <1>2
      <4>2. m \in 1..(n - k) /\ i = (k - 1) + m /\ k + m = i + 1
        BY <4>1, <3>2, <1>2
      <4>3. t[i] = b[m]
        BY <4>2, <2>1, <2>2, <2>3, <1>2
      <4>4. b[m] = accs[k + m]
        BY <4>2, <2>2
      <4> QED
        BY <4>2, <4>3, <4>4, <3>2
    <3> QED
      BY <3>1, <3>2
  <2> QED
    BY <2>4, <2>5
<1>4. /\ \A i \in 1..(n - 1) : From(i) \in 1..n /\ From(i) # k
      /\ \A i, j \in 1..(n - 1) : i # j => From(i) # From(j)
  BY <1>2
<1> HIDE DEF t, From
<1>5. \A i, j \in 1..Len(t) : i # j => t[i].id # t[j].id
  BY <1>3, <1>4 DEF GoodStore
<1>6. \A i \in 1..Len(t) : t[i].id < next /\ t[i].id \notin gone \cup {accs[k].id}
  BY <1>3, <1>4 DEF GoodStore
<1>7. \A id \in gone \cup {accs[k].id} : id \in Nat /\ id < next
  BY <1>2 DEF GoodStore
<1>8. GoodStore(t, next, gone \cup {accs[k].id})
  BY <1>1, <1>3, <1>5, <1>6, <1>7 DEF GoodStore
<1> QED
  BY <1>8 DEF t

\* Every step keeps StoreInv.
LEMMA StoreStep ==
    ASSUME StoreInv, Next
    PROVE  StoreInv'
<1> USE DEF StoreInv
<1>1. ASSUME NEW w \in Weights, Create(w)
      PROVE  StoreInv'
  <2>1. /\ accounts' = Append(accounts, [id |-> nextID, weight |-> w]) /\ file' = accounts'
        /\ nextID' = nextID + 1 /\ UNCHANGED <<setting, deleted>>
    BY <1>1 DEF Create, Store
  <2>2. w \in Int
    BY DevProxyAssumption
  <2> QED
    BY <2>1, <2>2, Created
<1>2. ASSUME NEW id \in 1..MaxID, NEW w \in Weights, Update(id, w)
      PROVE  StoreInv'
  <2>1. /\ accounts' = Updated(id, w) /\ file' = accounts'
        /\ UNCHANGED <<nextID, setting, deleted>>
    BY <1>2 DEF Update, Store
  <2> QED
    BY <2>1, UpdatedStore
<1>3. ASSUME NEW id \in 1..MaxID, NEW w \in Weights, SetWeightGet(id, w)
      PROVE  StoreInv'
  <2>1. setting' = <<id, w>> /\ UNCHANGED <<accounts, nextID, file, deleted>>
    BY <1>3 DEF SetWeightGet, storeVars
  <2> QED
    BY <2>1
<1>4. CASE SetWeightUpdate
  <2>1. PICK id \in 1..MaxID, w \in Weights : setting = <<id, w>>
    BY <1>4 DEF SetWeightUpdate
  <2>2. /\ accounts' = Updated(id, w) /\ file' = accounts'
        /\ UNCHANGED <<nextID, deleted>> /\ setting' = <<>>
    BY <1>4, <2>1 DEF SetWeightUpdate, Store
  <2> QED
    BY <2>2, UpdatedStore
<1>5. ASSUME NEW id \in 1..MaxID, Delete(id)
      PROVE  StoreInv'
  <2>1. PICK k \in 1..Len(accounts) :
            accounts[k].id = id /\ accounts' = RemoveAt(accounts, k) /\ file' = accounts'
    BY <1>5 DEF Delete, Store
  <2>2. deleted' = deleted \cup {id} /\ UNCHANGED <<nextID, setting>>
    BY <1>5 DEF Delete
  <2>3. GoodStore(RemoveAt(accounts, k), nextID, deleted \cup {accounts[k].id})
    BY Removed
  <2> QED
    BY <2>1, <2>2, <2>3
<1>6. CASE Restart
  <2>1. /\ accounts' = file /\ nextID' = NextIDAfter(file) /\ deleted' = {} /\ setting' = <<>>
        /\ UNCHANGED file
    BY <1>6 DEF Restart
  <2>2. GoodStore(accounts, NextIDAfter(accounts), {})
    BY Loaded DEF GoodStore
  <2> QED
    BY <2>1, <2>2
<1>7. CASE \/ \E r \in Requests : Handle(r)
           \/ HandleWebSocket
           \/ \E p \in Policies : SetPolicy(p)
           \/ \E id \in 0..MaxID : SetPinned(id)
           \/ \E id \in 1..MaxID : CooldownExpires(id)
  <2>1. UNCHANGED <<accounts, nextID, file, deleted, setting>>
    BY <1>7 DEF Handle, Begin, CountAttempts, ReportResult, Decide, Reselect, Forward,
       HandleWebSocket, SetPolicy, SetPinned, CooldownExpires, storeVars, mgmtVars
  <2> QED
    BY <2>1
<1> QED
  BY <1>1, <1>2, <1>3, <1>4, <1>5, <1>6, <1>7 DEF Next, Manage

-----------------------------------------------------------------------------
(* The round robin. *)

\* The slots before p.
Earlier(S, p) == {q \in S : Before(q, p)}

\* Before orders the slots of a finite set, so that each number stands for one of them.
LEMMA NthBijection ==
    ASSUME NEW S \in SUBSET (Nat \X Nat), IsFiniteSet(S)
    PROVE  /\ \A n \in 0..(Cardinality(S) - 1) : Nth(S, n) \in S
           /\ \A n, m \in 0..(Cardinality(S) - 1) : Nth(S, n) = Nth(S, m) => n = m
           /\ \A p \in S : \E n \in 0..(Cardinality(S) - 1) : Nth(S, n) = p
<1> DEFINE N == Cardinality(S)
           r == [p \in S |-> Cardinality(Earlier(S, p))]
<1>1. N \in Nat
  BY FS_CardinalityType
<1>2. \A p \in S : IsFiniteSet(Earlier(S, p)) /\ r[p] \in 0..(N - 1)
  <2> TAKE p \in S
  <2>1. Earlier(S, p) \in SUBSET S /\ p \notin Earlier(S, p)
    <3>1. p[1] \in Nat /\ p[2] \in Nat
      OBVIOUS
    <3> QED
      BY <3>1 DEF Earlier, Before
  <2>2. IsFiniteSet(Earlier(S, p)) /\ r[p] <= N /\ r[p] # N
    BY <2>1, FS_Subset
  <2>3. r[p] \in Nat
    BY <2>2, FS_CardinalityType
  <2> QED
    BY <1>1, <2>2, <2>3
<1>3. \A p, q \in S : Before(q, p) => r[q] < r[p]
  <2> SUFFICES ASSUME NEW p \in S, NEW q \in S, Before(q, p) PROVE r[q] < r[p]
    OBVIOUS
  <2>0. p[1] \in Nat /\ p[2] \in Nat /\ q[1] \in Nat /\ q[2] \in Nat
    OBVIOUS
  <2>1. ASSUME NEW x \in S, Before(x, q)
        PROVE  Before(x, p)
    <3>1. x[1] \in Nat /\ x[2] \in Nat
      OBVIOUS
    <3> QED
      BY <2>0, <2>1, <3>1 DEF Before
  <2>2. Earlier(S, q) \in SUBSET Earlier(S, p)
    BY <2>1 DEF Earlier
  <2>3. q \in Earlier(S, p) /\ q \notin Earlier(S, q)
    BY <2>0 DEF Earlier, Before
  <2>4. r[q] <= r[p] /\ r[q] # r[p]
    BY <1>2, <2>2, <2>3, FS_Subset
  <2>5. r[q] \in Nat /\ r[p] \in Nat
    BY <1>2, <1>1
  <2> QED
    BY <2>4, <2>5
<1>4. \A p, q \in S : r[p] = r[q] => p = q
  <2> SUFFICES ASSUME NEW p \in S, NEW q \in S, r[p] = r[q] PROVE p = q
    OBVIOUS
  <2>1. r[p] \in Nat /\ r[q] \in Nat
    BY <1>2, <1>1
  <2>2. ~Before(q, p) /\ ~Before(p, q)
    BY <1>3, <2>1
  <2>3. p[1] \in Nat /\ p[2] \in Nat /\ q[1] \in Nat /\ q[2] \in Nat
    OBVIOUS
  <2>4. p[1] = q[1] /\ p[2] = q[2]
    BY <2>2, <2>3 DEF Before
  <2> QED
    BY <2>4
<1>5. r \in Injection(S, 0..(N - 1))
  <2>1. r \in [S -> 0..(N - 1)] /\ DOMAIN r = S
    BY <1>2
  <2> HIDE DEF r, N
  <2> QED
    BY <1>4, <2>1 DEF Injection, IsInjective
<1>6. IsFiniteSet(0..(N - 1)) /\ Cardinality(0..(N - 1)) = N
  <2> HIDE DEF N
  <2> QED
    BY <1>1, FS_Interval
<1>7. \A n \in 0..(N - 1) : \E p \in S : r[p] = n
  <2>1. r \in Surjection(S, 0..(N - 1))
    BY <1>5, <1>6, FS_Injection
  <2> QED
    BY <2>1 DEF Surjection
<1>8. \A n \in 0..(N - 1) : Nth(S, n) \in S /\ r[Nth(S, n)] = n
  <2> TAKE n \in 0..(N - 1)
  <2>1. \E p \in S : Cardinality({q \in S : Before(q, p)}) = n
    BY <1>7 DEF Earlier
  <2>2. Nth(S, n) \in S /\ Cardinality({q \in S : Before(q, Nth(S, n))}) = n
    BY <2>1 DEF Nth
  <2> QED
    BY <2>2 DEF Earlier
<1>9. \A p \in S : r[p] \in 0..(N - 1) /\ Nth(S, r[p]) = p
  BY <1>2, <1>4, <1>8
<1> HIDE DEF r
<1> QED
  BY <1>8, <1>9

\* Consecutive values of the counter differ modulo the number of slots.
LEMMA TurnInjective ==
    ASSUME NEW L \in Nat \ {0}, NEW n \in Nat, NEW m \in Nat, n <= m, m < n + L,
           n % L = m % L
    PROVE  n = m
<1> DEFINE a == n \div L
           b == m \div L
<1>1. a \in Int /\ b \in Int /\ n = L * a + (n % L) /\ m = L * b + (m % L)
  OBVIOUS
<1>2. m - n = L * (b - a)
  BY <1>1
<1>3. b - a \in Int /\ 0 <= L * (b - a) /\ L * (b - a) < L
  BY <1>2
<1>4. b - a < 1
  BY <1>3
<1>5. b - a >= 0
  BY <1>3
<1> QED
  BY <1>2, <1>3, <1>4, <1>5

\* A full turn of the counter takes every slot once.
LEMMA TurnBijection ==
    ASSUME NEW L \in Nat \ {0}, NEW c \in Nat
    PROVE  /\ \A n \in c..(c + L - 1) : n % L \in 0..(L - 1)
           /\ \A n, m \in c..(c + L - 1) : n % L = m % L => n = m
           /\ \A k \in 0..(L - 1) : \E n \in c..(c + L - 1) : n % L = k
<1> DEFINE f == [n \in c..(c + L - 1) |-> n % L]
<1>1. \A n \in c..(c + L - 1) : n \in Nat /\ n % L \in 0..(L - 1)
  OBVIOUS
<1>2. \A n, m \in c..(c + L - 1) : n % L = m % L => n = m
  <2> SUFFICES ASSUME NEW n \in c..(c + L - 1), NEW m \in c..(c + L - 1), n % L = m % L
               PROVE  n = m
    OBVIOUS
  <2>1. n \in Nat /\ m \in Nat /\ n < m + L /\ m < n + L
    OBVIOUS
  <2>2. n <= m \/ m <= n
    BY <2>1
  <2> QED
    BY <2>1, <2>2, TurnInjective
<1>3. f \in Injection(c..(c + L - 1), 0..(L - 1))
  <2>1. f \in [c..(c + L - 1) -> 0..(L - 1)] /\ DOMAIN f = c..(c + L - 1)
    BY <1>1
  <2>2. \A n, m \in c..(c + L - 1) : f[n] = f[m] => n = m
    BY <1>2
  <2> HIDE DEF f
  <2> QED
    BY <2>1, <2>2 DEF Injection, IsInjective
<1>4. /\ IsFiniteSet(0..(L - 1)) /\ Cardinality(0..(L - 1)) = L
      /\ Cardinality(c..(c + L - 1)) = L
  BY FS_Interval
<1>5. f \in Surjection(c..(c + L - 1), 0..(L - 1))
  BY <1>3, <1>4, FS_Injection
<1>6. \A k \in 0..(L - 1) : \E n \in c..(c + L - 1) : f[n] = k
  BY <1>5 DEF Surjection
<1> QED
  BY <1>1, <1>2, <1>6

\* The slots of a store are finitely many pairs.
LEMMA SlotsOf ==
    ASSUME NEW accs \in Seq(Accounts), NEW cooling
    PROVE  /\ Slots(accs, cooling) \in SUBSET (Nat \X Nat)
           /\ IsFiniteSet(Slots(accs, cooling))
           /\ \A p : p \in Slots(accs, cooling) <=>
                /\ p = <<p[1], p[2]>> /\ p[1] \in 1..Len(accs)
                /\ accs[p[1]].id \notin cooling /\ p[2] \in 1..WeightOf(accs[p[1]])
<1> DEFINE I == {j \in 1..Len(accs) : accs[j].id \notin cooling}
           copies(i) == {i} \X (1..WeightOf(accs[i]))
           all == {copies(i) : i \in I}
<1>0. Len(accs) \in Nat /\ \A i \in 1..Len(accs) : accs[i] \in Accounts
  OBVIOUS
<1>1. \A i \in I : i \in Nat /\ WeightOf(accs[i]) \in Nat
  BY <1>0 DEF WeightOf, Accounts
<1>2. Slots(accs, cooling) = UNION all
  BY DEF Slots
<1>3. \A i \in I : copies(i) \in SUBSET (Nat \X Nat) /\ IsFiniteSet(copies(i))
  <2> TAKE i \in I
  <2>0. WeightOf(accs[i]) \in Int
    BY <1>1
  <2>1. IsFiniteSet({i}) /\ IsFiniteSet(1..WeightOf(accs[i]))
    <3>1. IsFiniteSet({i})
      BY FS_Singleton
    <3>2. IsFiniteSet(1..WeightOf(accs[i]))
      BY <2>0, FS_Interval
    <3> QED
      BY <3>1, <3>2
  <2>2. IsFiniteSet(copies(i))
    BY <2>1, FS_Product
  <2>3. copies(i) \in SUBSET (Nat \X Nat)
    BY <1>1
  <2> QED
    BY <2>2, <2>3
<1>4. IsFiniteSet(I)
  <2>1. IsFiniteSet(1..Len(accs)) /\ I \in SUBSET (1..Len(accs))
    BY <1>0, FS_Interval
  <2> QED
    BY <2>1, FS_Subset
<1>5. IsFiniteSet(all)
  <2> DEFINE f == [i \in I |-> copies(i)]
  <2> HIDE DEF I, copies
  <2>1. f \in [I -> all] /\ \A T \in all : \E i \in I : f[i] = T
    OBVIOUS
  <2>2. f \in Surjection(I, all)
    <3> HIDE DEF f, all
    <3> QED
      BY <2>1 DEF Surjection
  <2> HIDE DEF f, all
  <2> QED
    BY <1>4, <2>2, FS_Surjection
<1>6. IsFiniteSet(UNION all) /\ UNION all \in SUBSET (Nat \X Nat)
  <2> HIDE DEF copies
  <2>1. \A T \in all : IsFiniteSet(T) /\ T \in SUBSET (Nat \X Nat)
    BY <1>3
  <2> HIDE DEF all
  <2> QED
    BY <1>5, <2>1, FS_UNION
<1>7. \A p : p \in UNION all <=> \E i \in I : p \in copies(i)
  OBVIOUS
<1>8. \A p, i : p \in copies(i) <=>
          p = <<p[1], p[2]>> /\ p[1] = i /\ p[2] \in 1..WeightOf(accs[i])
  OBVIOUS
<1>9. \A p : p \in UNION all <=>
          p = <<p[1], p[2]>> /\ p[1] \in I /\ p[2] \in 1..WeightOf(accs[p[1]])
  <2> HIDE DEF copies, all, I
  <2> QED
    BY <1>7, <1>8
<1> QED
  BY <1>2, <1>6, <1>9

\* With distinct IDs a full turn of the counter meets each slot of an account, and so
\* selects the account as often as it has slots.
LEMMA ShareOf ==
    ASSUME NEW accs \in Seq(Accounts), NEW cooling, NEW c \in Nat,
           NEW L, L = Cardinality(Slots(accs, cooling)), L > 0,
           \A k, l \in 1..Len(accs) : k # l => accs[k].id # accs[l].id,
           NEW i \in 1..Len(accs), accs[i].id \notin cooling
    PROVE  Cardinality({n \in c..(c + L - 1) :
                            accs[Nth(Slots(accs, cooling), n % L)[1]].id = accs[i].id})
               = WeightOf(accs[i])
<1> DEFINE S == Slots(accs, cooling)
           turn == c..(c + L - 1)
           slot(n) == Nth(S, n % L)
           T == {n \in turn : accs[slot(n)[1]].id = accs[i].id}
           w == WeightOf(accs[i])
           g == [n \in T |-> slot(n)[2]]
<1>1. L \in Nat \ {0} /\ w \in Nat
  <2>1. L \in Nat
    BY SlotsOf, FS_CardinalityType
  <2>2. accs[i] \in Accounts
    OBVIOUS
  <2> QED
    BY <2>1, <2>2 DEF WeightOf, Accounts
<1>2. /\ \A n \in 0..(L - 1) : Nth(S, n) \in S
      /\ \A n, m \in 0..(L - 1) : Nth(S, n) = Nth(S, m) => n = m
      /\ \A p \in S : \E n \in 0..(L - 1) : Nth(S, n) = p
  BY SlotsOf, NthBijection
<1>3. /\ \A n \in turn : n % L \in 0..(L - 1)
      /\ \A n, m \in turn : n % L = m % L => n = m
      /\ \A k \in 0..(L - 1) : \E n \in turn : n % L = k
  BY <1>1, TurnBijection
<1>4. \A p : p \in S <=> /\ p = <<p[1], p[2]>> /\ p[1] \in 1..Len(accs)
                         /\ accs[p[1]].id \notin cooling /\ p[2] \in 1..WeightOf(accs[p[1]])
  BY SlotsOf
<1>5. IsFiniteSet(turn)
  BY <1>1, FS_Interval
<1> HIDE DEF S, turn
<1>6. /\ \A n \in turn : slot(n) \in S
      /\ \A n, m \in turn : slot(n) = slot(m) => n = m
      /\ \A p \in S : \E n \in turn : slot(n) = p
  BY <1>2, <1>3
<1> HIDE DEF slot
<1>7. \A n \in T : slot(n) = <<i, slot(n)[2]>> /\ slot(n)[2] \in 1..w
  BY <1>4, <1>6
<1>8. \A k \in 1..w : \E n \in T : slot(n)[2] = k
  <2> TAKE k \in 1..w
  <2>1. <<i, k>> \in S
    BY <1>4
  <2>2. PICK n \in turn : slot(n) = <<i, k>>
    BY <1>6, <2>1
  <2> QED
    BY <2>2
<1>9. g \in Bijection(T, 1..w)
  <2>1. \A n, m \in T : slot(n)[2] = slot(m)[2] => n = m
    <3>1. \A n \in T : n \in turn
      OBVIOUS
    <3> HIDE DEF T
    <3> QED
      BY <1>6, <1>7, <3>1
  <2>2. g \in [T -> 1..w] /\ DOMAIN g = T
    BY <1>7
  <2>3. \A n, m \in T : g[n] = g[m] => n = m
    BY <2>1
  <2>4. \A k \in 1..w : \E n \in T : g[n] = k
    BY <1>8
  <2> HIDE DEF g, T, w
  <2> QED
    BY <2>2, <2>3, <2>4 DEF Bijection, Injection, Surjection, IsInjective
<1>10. IsFiniteSet(T)
  <2>1. T \in SUBSET turn
    OBVIOUS
  <2> QED
    BY <1>5, <2>1, FS_Subset
<1>11. Cardinality(T) = Cardinality(1..w)
  <2>1. ExistsBijection(T, 1..w)
    BY <1>9 DEF ExistsBijection
  <2> HIDE DEF T, w
  <2> QED
    BY <1>10, <2>1, FS_Bijection
<1>12. Cardinality(1..w) = w
  <2> HIDE DEF w
  <2> QED
    BY <1>1, FS_Interval
<1> QED
  BY <1>11, <1>12 DEF T, slot, S, turn, w

\* An account has as many slots as its weight says, and at least one.
LEMMA WeightIsMax ==
    ASSUME NEW a \in Accounts
    PROVE  WeightOf(a) = Max({1, a.weight})
<1>1. a.weight \in Int
  BY DEF Accounts
<1>2. \E x \in {1, a.weight} : \A y \in {1, a.weight} : x >= y
  BY <1>1
<1>3. /\ Max({1, a.weight}) \in {1, a.weight}
      /\ \A y \in {1, a.weight} : Max({1, a.weight}) >= y
  BY <1>2 DEF Max
<1> QED
  BY <1>1, <1>3 DEF WeightOf

\* Every step keeps the counter, moves it on or starts it again.
LEMMA CounterStep ==
    ASSUME counter \in Nat, Next
    PROVE  counter' \in Nat
<1>1. Advance => counter' \in {counter, counter + 1}
  BY DEF Advance
<1>2. CASE \E r \in Requests : Handle(r)
  <2>1. PICK r \in Requests : Handle(r)
    BY <1>2
  <2>2. Advance \/ UNCHANGED counter
    BY <2>1 DEF Handle, Begin, CountAttempts, ReportResult, Decide, Reselect, Forward, schedVars
  <2> QED
    BY <1>1, <2>2
<1>3. CASE HandleWebSocket
  BY <1>1, <1>3 DEF HandleWebSocket
<1>4. CASE Manage
  <2>1. UNCHANGED counter
    BY <1>4 DEF Manage, Create, Update, SetWeightGet, SetWeightUpdate, Delete, SetPolicy,
       SetPinned, schedVars
  <2> QED
    BY <2>1
<1>5. CASE Restart \/ \E id \in 1..MaxID : CooldownExpires(id)
  BY <1>5 DEF Restart, CooldownExpires
<1> QED
  BY <1>2, <1>3, <1>4, <1>5 DEF Next

-----------------------------------------------------------------------------
(* The theorems. *)

\* The file's accounts are loaded and no request has begun.
LEMMA InitIInv ==
    ASSUME Init
    PROVE  IInv
<1>1. GoodStore(Initial, NextIDAfter(Initial), {})
  BY DevProxyAssumption, Loaded
<1>2. StoreInv
  BY <1>1 DEF Init, StoreInv
<1>3. req \in [Requests -> {NewRequest(s) : s \in BOOLEAN}]
  BY DEF Init
<1>4. \A r \in Requests : \E s \in BOOLEAN : req[r] = NewRequest(s)
  BY <1>3
<1>5. RequestsInv
  BY <1>3, <1>4, NewRequestInv DEF RequestsInv
<1>6. counter \in Nat
  BY DEF Init
<1> QED
  BY <1>2, <1>5, <1>6 DEF IInv

\* Every step keeps the invariant.
LEMMA NextIInv ==
    ASSUME IInv, [Next]_vars
    PROVE  IInv'
<1>1. CASE Next
  BY <1>1, StoreStep, RequestsStep, CounterStep DEF IInv
<1>2. CASE UNCHANGED vars
  <2>1. UNCHANGED <<accounts, nextID, file, deleted, setting, req, counter>>
    BY <1>2 DEF vars, storeVars, schedVars, mgmtVars
  <2> QED
    BY <2>1 DEF IInv, StoreInv, RequestsInv
<1> QED
  BY <1>1, <1>2

\* The store and every request are as StoreInv and RequestInv say, however requests,
\* management calls and restarts interleave.
THEOREM Invariance == Spec => []IInv
<1>1. Init => IInv
  BY InitIInv
<1>2. IInv /\ [Next]_vars => IInv'
  BY NextIInv
<1> QED
  BY <1>1, <1>2, PTL DEF Spec

\* For any number of accounts and requests, failover never comes back to an account,
\* although the accounts, their weights and the policy may change under it.
THEOREM NoAccountTwice == Spec => []TriedOnce
<1>1. IInv => TriedOnce
  BY DEF IInv, RequestsInv, RequestInv, TriedOnce
<1> QED
  BY <1>1, Invariance, PTL

\* A client that does not stream gets one answer, of the last attempt alone.
THEOREM OneAnswerEach == Spec => []SingleResponse
<1>1. IInv => SingleResponse
  BY DEF IInv, RequestsInv, RequestInv, OneAnswer, SingleResponse
<1> QED
  BY <1>1, Invariance, PTL

\* IDs stay distinct through creations, deletions and restarts, for any file the server
\* starts with.
THEOREM IDsDistinct == Spec => []UniqueIDs
<1>1. IInv => UniqueIDs
  BY DEF IInv, StoreInv, GoodStore, UniqueIDs
<1> QED
  BY <1>1, Invariance, PTL

\* A deleted account stays deleted for as long as the process runs.
THEOREM NoResurrection == Spec => []DeletedStaysDeleted
<1>1. IInv => DeletedStaysDeleted
  BY DEF IInv, StoreInv, GoodStore, DeletedStaysDeleted, IDs
<1> QED
  BY <1>1, Invariance, PTL

\* In a full turn of the counter each account that is not cooling is selected as often
\* as its weight says, for any accounts, weights, cooldowns and place of the counter.
THEOREM ShareIsWeight == Spec => []WeightedShare
<1>1. IInv => WeightedShare
  <2> DEFINE L == Cardinality(Slots(accounts, cooldown))
  <2> SUFFICES ASSUME IInv, L > 0, NEW i \in 1..Len(accounts), accounts[i].id \notin cooldown
               PROVE  Cardinality({n \in counter..(counter + L - 1) :
                                      SelectWeightedRR(n) = accounts[i].id})
                          = Max({1, accounts[i].weight})
    BY DEF WeightedShare
  <2>1. /\ accounts \in Seq(Accounts) /\ counter \in Nat
        /\ \A k, l \in 1..Len(accounts) : k # l => accounts[k].id # accounts[l].id
    BY DEF IInv, StoreInv, GoodStore
  <2>2. Slots(accounts, cooldown) # {}
    BY FS_EmptySet
  <2>3. \A n : SelectWeightedRR(n) = accounts[Nth(Slots(accounts, cooldown), n % L)[1]].id
    BY <2>2 DEF SelectWeightedRR
  <2>4. accounts[i] \in Accounts
    BY <2>1
  <2>5. WeightOf(accounts[i]) = Max({1, accounts[i].weight})
    BY <2>4, WeightIsMax
  <2>6. Cardinality({n \in counter..(counter + L - 1) :
            accounts[Nth(Slots(accounts, cooldown), n % L)[1]].id = accounts[i].id})
            = WeightOf(accounts[i])
    BY <2>1, ShareOf
  <2> HIDE DEF L
  <2> QED
    BY <2>3, <2>5, <2>6
<1> QED
  BY <1>1, Invariance, PTL
=============================================================================
