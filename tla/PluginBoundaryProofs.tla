------------------------- MODULE PluginBoundaryProofs -------------------------
(***************************************************************************)
(* Proofs of PluginBoundary, for every table of values the SDK's types     *)
(* allow.  A lemma per pair of conversions says what its round trip does   *)
(* (RoundTrip puts them together); the inductive invariant carries that to *)
(* the states, and the second half proves what Declarations computes.      *)
(***************************************************************************)
EXTENDS PluginBoundary, FiniteSetTheorems, SequenceTheorems, TLAPS
-----------------------------------------------------------------------------
(* Lists, structs and pointers, and the conversions one by one. *)

\* An interval from 1 has as many members as its end says.
LEMMA IntervalSize ==
    ASSUME NEW n \in Nat
    PROVE  IsFiniteSet(1..n) /\ Cardinality(1..n) = n
<1>1. 1 \in Int /\ n \in Int
  OBVIOUS
<1>2. Cardinality(1..n) = IF 1 > n THEN 0 ELSE n - 1 + 1
  BY <1>1, FS_Interval, Zenon
<1>3. IsFiniteSet(1..n)
  BY <1>1, FS_Interval, Zenon
<1> QED BY <1>2, <1>3

\* Picking every position of a list gives the list.
LEMMA PickAll ==
    ASSUME NEW s, s \in Seq({s[i] : i \in DOMAIN s})
    PROVE  Pick(s, DOMAIN s) = s
<1> DEFINE n == Len(s)
           at(k) == CHOOSE i \in 1..n : Cardinality({j \in 1..n : j <= i}) = k
<1>1. n \in Nat /\ DOMAIN s = 1..n /\ s = [i \in 1..n |-> s[i]]
  BY LenProperties, SMT
<1> HIDE DEF n
<1>2. \A i \in 1..n : Cardinality({j \in 1..n : j <= i}) = i
  <2> TAKE i \in 1..n
  <2>1. {j \in 1..n : j <= i} = 1..i
    BY <1>1
  <2>2. Cardinality(1..i) = i
    BY <1>1, IntervalSize
  <2> QED BY <2>1, <2>2, Zenon
<1>3. Cardinality(1..n) = n
  BY <1>1, IntervalSize
<1>4. \A k \in 1..n : at(k) = k
  BY <1>2
<1>5. Pick(s, DOMAIN s) = [k \in 1..n |-> s[at(k)]]
  BY <1>1, <1>3 DEF Pick
<1> QED BY <1>1, <1>4, <1>5

\* No pointer in a list that was just built is nil.
LEMMA NonNilAll ==
    ASSUME NEW s, s \in Seq({s[i] : i \in DOMAIN s}),
           NEW p, p = [i \in DOMAIN s |-> <<s[i]>>]
    PROVE  NonNil(p) = s
<1>1. Len(s) \in Nat /\ DOMAIN s = 1..Len(s) /\ s = [i \in 1..Len(s) |-> s[i]]
  BY LenProperties, SMT
<1>2. p \in Seq({p[i] : i \in DOMAIN p}) /\ DOMAIN p = DOMAIN s
  BY <1>1
<1>3. {i \in DOMAIN p : p[i] # Nil} = DOMAIN p
  BY DEF Nil
<1>a. Pick(p, {i \in DOMAIN p : p[i] # Nil}) = p
  <2>1. Pick(p, DOMAIN p) = p
    BY <1>2, PickAll
  <2> QED BY <1>3, <2>1, Zenon
<1>4. NonNil(p) = [i \in DOMAIN p |-> Head(p[i])]
  BY <1>a DEF NonNil, Each
<1>5. \A i \in DOMAIN p : Head(p[i]) = s[i]
  BY <1>2
<1> QED BY <1>1, <1>2, <1>4, <1>5

\* Two structs with the same fields, and the same values in them, are equal.
LEMMA StructEq ==
    ASSUME NEW F, NEW u, NEW v, IsStruct(u, F), IsStruct(v, F), \A f \in F : u[f] = v[f]
    PROVE  u = v
  BY DEF IsStruct

\* Headers survive httpHeadersToProto and protoHeadersToHTTP.
LEMMA HeadersBack ==
    ASSUME NEW h, IsMap(h)
    PROVE  protoHeadersToHTTP(httpHeadersToProto(h)) = h
<1> DEFINE ph == httpHeadersToProto(h)
<1>1. DOMAIN ph = DOMAIN h /\ \A k \in DOMAIN h : ph[k] # Nil /\ ph[k][1].Values = h[k]
  BY DEF httpHeadersToProto, Nil
<1>2. {k \in DOMAIN ph : ph[k] # Nil} = DOMAIN h
  BY <1>1
<1> QED
  BY <1>1, <1>2 DEF protoHeadersToHTTP, IsMap, IsStruct

\* An account survives accountToProto and buildAccount, credentials included.
LEMMA AccountBack ==
    ASSUME NEW a, IsAccount(a)
    PROVE  buildAccount(<<accountToProto(a)>>) = a
<1> DEFINE p == accountToProto(a)
           r == buildAccount(<<p>>)
           F == {"ID", "Name", "Platform", "Type", "ProxyURL"}
<1>1. p.CredentialsJson = <<a.Credentials>> /\ \A f \in F : p[f] = a[f]
  BY DEF accountToProto, Copy, @@
<1>a. F \cup {"Credentials"} = Account
  BY DEF Account
<1>2. IsStruct(r, F \cup {"Credentials"})
  BY DEF buildAccount, IsStruct, Copy, @@, Nil
<1>3. r.Credentials = a.Credentials
  BY <1>1 DEF buildAccount, Copy, @@, Nil, Empty
<1>4. \A f \in F : r[f] = a[f]
  BY <1>1 DEF buildAccount, Copy, @@, Nil
<1> QED
  BY <1>2, <1>3, <1>4, <1>a, StructEq DEF IsAccount

\* int32(n) is n for every number an int32 holds.
LEMMA Int32Back ==
    ASSUME NEW n \in Int32s
    PROVE  Int32(n) = n
<1>1. n + Half \in Nat /\ n + Half < 2 * Half
  BY WireAssumption DEF Int32s
<1>2. (n + Half) % (2 * Half) = n + Half
  BY <1>1, WireAssumption
<1> QED
  BY <1>2, WireAssumption DEF Int32, Int32s

\* Dividing and multiplying again drops the remainder, and nothing else.
LEMMA WholePart == \A n \in Int : (n \div PerMs) * PerMs = n - (n % PerMs)
  BY WireAssumption

\* A sign can be moved out of a product.
LEMMA NegTimes ==
    ASSUME NEW a \in Int, NEW b \in Int
    PROVE  (-a) * b = -(a * b)
  OBVIOUS

\* A duration sent in milliseconds comes back without its part of one, negative or not.
LEMMA DurationBack ==
    ASSUME NEW d \in Int
    PROVE  Duration(Milliseconds(d)) = WholeMs(d)
<1>1. \A n \in Int : (n \div PerMs) * PerMs = n - (n % PerMs)
  BY WholePart
<1>2. \A n \in Int : n \div PerMs \in Int /\ n % PerMs \in Int
  BY WireAssumption
<1>3. CASE d >= 0
  BY <1>1, <1>3 DEF Duration, Milliseconds, WholeMs
<1>4. CASE ~(d >= 0)
  <2> DEFINE q == (-d) \div PerMs
  <2>1. Milliseconds(d) = -q /\ q \in Int /\ q * PerMs = (-d) - ((-d) % PerMs)
    BY <1>1, <1>2, <1>4 DEF Milliseconds
  <2>2. WholeMs(d) = -(q * PerMs)
    BY <1>4, <2>1 DEF WholeMs
  <2> HIDE DEF q
  <2>3. Duration(Milliseconds(d)) = -(q * PerMs)
    BY <2>1, NegTimes, WireAssumption DEF Duration
  <2> QED BY <2>2, <2>3
<1> QED BY <1>3, <1>4

\* dispatchGateToProto keeps every field of a gate.
LEMMA GateTo ==
    ASSUME NEW g, IsGate(g)
    PROVE  dispatchGateToProto(g) = g
<1> DEFINE p == dispatchGateToProto(g)
           F == {"RequiredOperation", "ErrorType", "Code", "Message"}
<1>1. p.Status = g.Status
  BY Int32Back DEF dispatchGateToProto, Copy, @@, IsGate
<1>2. IsStruct(p, F \cup {"Status"}) /\ \A f \in F : p[f] = g[f]
  BY DEF dispatchGateToProto, Copy, @@, IsStruct
<1>3. F \cup {"Status"} = DispatchGate
  BY DEF DispatchGate
<1> QED
  BY <1>1, <1>2, <1>3, StructEq DEF IsGate

\* A gate survives both conversions.
LEMMA GateBack ==
    ASSUME NEW g, IsGate(g)
    PROVE  dispatchGateFromProto(<<dispatchGateToProto(g)>>) = g
<1>1. dispatchGateFromProto(<<g>>) = g
  BY DEF dispatchGateFromProto, Copy, IsGate, IsStruct, DispatchGate, Nil
<1> QED BY <1>1, GateTo

\* A dispatch plan survives both conversions; the zero plan travels as no plan.
LEMMA PlanBack ==
    ASSUME NEW plan, IsPlan(plan)
    PROVE  dispatchPlanFromProto(dispatchPlanToProto(plan)) = plan
<1> DEFINE p == dispatchPlanToProto(plan)
           r == dispatchPlanFromProto(p)
           F == {"ClientModel", "SchedulingModel", "WireModel", "RuleID", "Operation",
                 "TimeoutProfile"}
<1>1. CASE plan = ZeroPlan
  BY <1>1 DEF dispatchPlanToProto, dispatchPlanFromProto
<1>2. CASE plan # ZeroPlan
  <2>1. p # Nil /\ p[1].Gate = <<dispatchGateToProto(plan.Gate)>> /\ \A f \in F : p[1][f] = plan[f]
    BY <1>2 DEF dispatchPlanToProto, Copy, @@, Nil
  <2> HIDE DEF p
  <2>2. IsStruct(r, F \cup {"Gate"}) /\ \A f \in F : r[f] = plan[f]
    BY <2>1 DEF dispatchPlanFromProto, IsStruct, Copy, @@
  <2>3. r.Gate = dispatchGateFromProto(p[1].Gate)
    BY <2>1 DEF dispatchPlanFromProto, Copy, @@
  <2>4. r.Gate = plan.Gate
    BY <2>1, <2>3, GateBack DEF IsPlan
  <2>5. F \cup {"Gate"} = DispatchPlan
    BY DEF DispatchPlan
  <2> QED BY <2>2, <2>4, <2>5, StructEq DEF IsPlan, p
<1> QED BY <1>1, <1>2

\* cloneBillingAmount keeps an unset quote unset, and a quote of zero zero.
LEMMA AmountBack == ASSUME NEW a, IsAmount(a) PROVE cloneBillingAmount(a) = a
<1>1. CASE a = Nil
  BY <1>1 DEF cloneBillingAmount, Each, Nil
<1>2. CASE a = <<a[1]>>
  BY <1>2 DEF cloneBillingAmount, Each
<1> QED BY <1>1, <1>2 DEF IsAmount, IsPointer

\* Copying the three quotes of a billing gives the billing back.
LEMMA BillingBack == ASSUME NEW b, IsBilling(b)
  PROVE b = [f \in BillingAdjustments |-> cloneBillingAmount(b[f])]
  BY AmountBack DEF IsBilling, IsStruct

\* The fields of a usage that are copied as they are.
UsageCopied == {"Model", "AccountCost", "UserCost", "BillingMultiplier", "Currency", "Summary",
        "FirstEventMs", "FirstTokenMs", "WSDialMs", "Metadata", "InputTokens", "OutputTokens",
        "CachedInputTokens", "CacheCreationTokens", "ReasoningOutputTokens",
        "ReasoningEffort", "InputPrice", "OutputPrice", "CachedInputPrice",
        "CacheCreationPrice", "InputCost", "OutputCost", "CachedInputCost",
        "CacheCreationCost"}

\* The fields of a usage: the copied ones, and its billing.
LEMMA UsageFields == Usage = UsageCopied \cup {"Billing"}
  BY DEF Usage, UsageCopied

\* Copying the fields of a usage gives the usage back.
LEMMA UsageTo ==
   ASSUME NEW u, IsUsage(u)
   PROVE usageToProto(u) = u
<1> DEFINE p == usageToProto(u)
<1>1. p.Billing = u.Billing
  <2>1. CASE u.Billing = Nil
    BY <2>1 DEF usageToProto, Each, Nil, Copy, @@
  <2>2. CASE u.Billing = <<u.Billing[1]>> /\ IsBilling(u.Billing[1])
    <3>1. p.Billing = Each(u.Billing, LAMBDA b :
                          [f \in BillingAdjustments |-> cloneBillingAmount(b[f])])
      BY DEF usageToProto, Copy, @@
    <3> QED BY <3>1, <2>2, BillingBack DEF Each
  <2> QED BY <2>1, <2>2 DEF IsUsage, IsPointer
<1>2. IsStruct(p, UsageCopied \cup {"Billing"})
  BY DEF usageToProto, UsageCopied, IsStruct, Copy, @@
<1>3. \A f \in UsageCopied : p[f] = u[f]
  BY DEF usageToProto, UsageCopied, Copy, @@
<1> QED BY <1>1, <1>2, <1>3, UsageFields, StructEq DEF IsUsage

\* A forward request survives the wire; ForwardStream sets its Stream flag, and only that.
LEMMA RequestBack ==
    ASSUME NEW r, IsRequest(r)
    PROVE  /\ forwardRequestFromProto(buildProtoRequest(r)) = r
           /\ streamRequestFromProto(buildProtoRequest(r)) = [r EXCEPT !.Stream = "Stream"]
<1> DEFINE p == buildProtoRequest(r)
           t == forwardRequestFromProto(p)
           u == streamRequestFromProto(p)
           F == {"Body", "Model", "TraceFinalError"}
           G == {"Account", "Headers", "DispatchPlan"}
<1>1. /\ \A f \in F : p[f] = r[f]
      /\ p.Stream = r.Stream
      /\ p.Account = <<accountToProto(r.Account)>>
      /\ p.Headers = httpHeadersToProto(r.Headers)
      /\ p.DispatchPlan = dispatchPlanToProto(r.DispatchPlan)
  BY DEF buildProtoRequest, Copy, @@
<1>2. /\ buildAccount(p.Account) = r.Account
      /\ protoHeadersToHTTP(p.Headers) = r.Headers
      /\ dispatchPlanFromProto(p.DispatchPlan) = r.DispatchPlan
  BY <1>1, AccountBack, HeadersBack, PlanBack DEF IsRequest
<1>3. F \cup G \cup {"Stream"} = ForwardRequest
  BY DEF ForwardRequest
<1> HIDE DEF p
<1>4. /\ IsStruct(t, F \cup G \cup {"Stream"}) /\ t.Stream = r.Stream
      /\ \A f \in F : t[f] = r[f]
  BY <1>1 DEF forwardRequestFromProto, IsStruct, Copy, @@
<1>5. \A f \in G : t[f] = r[f]
  BY <1>2 DEF forwardRequestFromProto, Copy, @@
<1>6. t = r
  BY <1>3, <1>4, <1>5, StructEq DEF IsRequest
<1>7. /\ IsStruct(u, F \cup G \cup {"Stream"}) /\ u.Stream = "Stream"
      /\ \A f \in F : u[f] = r[f]
  BY <1>1 DEF streamRequestFromProto, IsStruct, Copy, @@
<1>8. \A f \in G : u[f] = r[f]
  BY <1>2 DEF streamRequestFromProto, Copy, @@
<1> DEFINE v == [r EXCEPT !.Stream = "Stream"]
<1>9. /\ IsStruct(v, ForwardRequest) /\ v.Stream = "Stream"
      /\ \A f \in F \cup G : v[f] = r[f]
  BY DEF IsRequest, IsStruct, ForwardRequest
<1>10. u = v
  <2> HIDE DEF u, v
  <2>1. IsStruct(u, ForwardRequest) /\ \A f \in ForwardRequest : u[f] = v[f]
    BY <1>3, <1>7, <1>8, <1>9
  <2> QED
    BY <1>9, <2>1, StructEq
<1> QED
  BY <1>6, <1>10 DEF p

\* The information about a new WebSocket survives both conversions.
LEMMA ConnectBack ==
    ASSUME NEW i, IsConnect(i)
    PROVE  convertConnectInfo(connectInfoToProto(i)) = i
<1> DEFINE p == connectInfoToProto(i)
           r == convertConnectInfo(p)
           F == {"Path", "Query", "RemoteAddr", "ConnectionID"}
<1>1. /\ \A f \in F : p[f] = i[f]
      /\ p.Account = <<accountToProto(i.Account)>>
      /\ p.Headers = httpHeadersToProto(i.Headers)
  BY DEF connectInfoToProto, Copy, @@
<1>2. buildAccount(p.Account) = i.Account /\ protoHeadersToHTTP(p.Headers) = i.Headers
  BY <1>1, AccountBack, HeadersBack DEF IsConnect
<1> HIDE DEF p
<1>3. IsStruct(r, F \cup {"Account", "Headers"}) /\ \A f \in F : r[f] = i[f]
  BY <1>1 DEF convertConnectInfo, IsStruct, Copy, @@
<1>4. r.Account = i.Account /\ r.Headers = i.Headers
  BY <1>2 DEF convertConnectInfo, Copy, @@
<1>5. F \cup {"Account", "Headers"} = WebSocketConnectInfo
  BY DEF WebSocketConnectInfo
<1> QED
  BY <1>3, <1>4, <1>5, StructEq DEF IsConnect, p

\* Copying the fields of a usage twice gives the usage back.
LEMMA UsageFrom ==
    ASSUME NEW u, IsUsage(u)
    PROVE  usageFromProto(u) = u
  BY UsageTo DEF usageFromProto, usageToProto

\* An upstream response survives both conversions.
LEMMA UpstreamBack ==
    ASSUME NEW u, IsUpstream(u)
    PROVE  upstreamFromProto(upstreamToProto(u)) = u
<1> DEFINE r == upstreamFromProto(upstreamToProto(u))
<1>1. r = [StatusCode |-> Int32(u.StatusCode),
           Headers |-> protoHeadersToHTTP(httpHeadersToProto(u.Headers)), Body |-> u.Body]
  BY DEF upstreamFromProto, upstreamToProto
<1>2. r = [StatusCode |-> u.StatusCode, Headers |-> u.Headers, Body |-> u.Body]
  BY <1>1, Int32Back, HeadersBack DEF IsUpstream
<1> QED
  BY <1>2 DEF IsUpstream, IsStruct, UpstreamResponse

\* Lists of pointers to messages, built and read.
LEMMA ListBack ==
    ASSUME NEW s, s \in Seq({s[i] : i \in DOMAIN s}),
           NEW p, p = [i \in DOMAIN s |-> <<p[i][1]>>]
    PROVE  NonNil(p) = [i \in DOMAIN s |-> p[i][1]]
<1> DEFINE t == [i \in DOMAIN s |-> p[i][1]]
<1>1. Len(s) \in Nat /\ DOMAIN s = 1..Len(s)
  BY LenProperties
<1>2. t \in Seq({t[i] : i \in DOMAIN t}) /\ DOMAIN t = DOMAIN s
  BY <1>1
<1>3. p = [i \in DOMAIN t |-> <<t[i]>>]
  OBVIOUS
<1> HIDE DEF t
<1>4. NonNil(p) = t
  BY <1>2, <1>3, NonNilAll
<1> QED
  BY <1>4 DEF t

\* The diagnostic of a final error survives, with every outbound request in its order.
LEMMA DiagnosticBack ==
    ASSUME NEW d, IsDiagnostic(d)
    PROVE  finalErrorDiagnosticFromProto(finalErrorDiagnosticToProto(d)) = d
<1> DEFINE F == {"Transport", "Method", "URL", "Body", "BodyOriginalSize"}
           to(r) == Copy(r, F) @@ [Headers |-> httpHeadersToProto(r.Headers),
                                   StatusCode |-> Int32(r.StatusCode)]
           from(r) == Copy(r, {"Transport", "Method", "URL", "Body", "StatusCode",
                               "BodyOriginalSize"})
                      @@ [Headers |-> protoHeadersToHTTP(r.Headers)]
           s == d.OutboundRequests
           p == [i \in DOMAIN s |-> <<to(s[i])>>]
<1>1. ASSUME NEW r, IsOutbound(r) PROVE from(to(r)) = r
  <2>1. /\ \A f \in F : to(r)[f] = r[f]
        /\ to(r).Headers = httpHeadersToProto(r.Headers) /\ to(r).StatusCode = Int32(r.StatusCode)
    BY DEF Copy, @@
  <2>2. /\ IsStruct(from(to(r)), F \cup {"StatusCode", "Headers"})
        /\ \A f \in F \cup {"StatusCode"} : from(to(r))[f] = to(r)[f]
        /\ from(to(r)).Headers = protoHeadersToHTTP(to(r).Headers)
    <3> DEFINE m == to(r)
    <3> HIDE DEF m
    <3> SUFFICES /\ IsStruct(from(m), F \cup {"StatusCode", "Headers"})
                 /\ \A f \in F \cup {"StatusCode"} : from(m)[f] = m[f]
                 /\ from(m).Headers = protoHeadersToHTTP(m.Headers)
      BY DEF m
    <3> QED BY DEF IsStruct, Copy, @@
  <2>3. F \cup {"StatusCode", "Headers"} = OutboundRequestDiagnostic
    BY DEF OutboundRequestDiagnostic
  <2>4. IsStruct(r, OutboundRequestDiagnostic) /\ r.StatusCode \in Int32s /\ IsMap(r.Headers)
    BY <1>1 DEF IsOutbound
  <2> HIDE DEF to, from
  <2>5. from(to(r)).Headers = r.Headers /\ from(to(r)).StatusCode = r.StatusCode
    BY <2>1, <2>2, <2>4, HeadersBack, Int32Back
  <2>6. \A f \in F \cup {"StatusCode", "Headers"} : from(to(r))[f] = r[f]
    BY <2>1, <2>2, <2>5
  <2> QED
    BY <2>2, <2>3, <2>4, <2>6, StructEq
<1>2. finalErrorDiagnosticToProto(d) =
          [UpstreamErrorBody |-> d.UpstreamErrorBody, OutboundRequests |-> p]
  BY DEF finalErrorDiagnosticToProto, Each
<1>3. s \in Seq({s[i] : i \in DOMAIN s}) /\ \A i \in DOMAIN s : IsOutbound(s[i])
  BY DEF IsDiagnostic, IsList
<1>4. NonNil(p) = [i \in DOMAIN s |-> to(s[i])]
  <2> HIDE DEF to
  <2>1. \A i \in DOMAIN s : p[i][1] = to(s[i])
    OBVIOUS
  <2>2. p = [i \in DOMAIN s |-> <<p[i][1]>>]
    OBVIOUS
  <2> HIDE DEF p
  <2>3. NonNil(p) = [i \in DOMAIN s |-> p[i][1]]
    BY <1>3, <2>2, ListBack
  <2> QED BY <2>1, <2>3
<1>5. finalErrorDiagnosticFromProto(finalErrorDiagnosticToProto(d)) =
          [UpstreamErrorBody |-> d.UpstreamErrorBody,
           OutboundRequests |-> [i \in DOMAIN NonNil(p) |-> from(NonNil(p)[i])]]
  BY <1>2 DEF finalErrorDiagnosticFromProto, Each
<1>6. [i \in DOMAIN NonNil(p) |-> from(NonNil(p)[i])] = s
  <2> HIDE DEF to, from, p
  <2>1. [i \in DOMAIN NonNil(p) |-> from(NonNil(p)[i])] = [i \in DOMAIN s |-> s[i]]
    BY <1>1, <1>3, <1>4
  <2> QED BY <2>1, <1>3
<1> HIDE DEF to, from, p
<1>7. finalErrorDiagnosticFromProto(finalErrorDiagnosticToProto(d)) =
          [UpstreamErrorBody |-> d.UpstreamErrorBody, OutboundRequests |-> d.OutboundRequests]
  BY <1>5, <1>6
<1> QED
  BY <1>7 DEF IsDiagnostic, IsStruct, FinalErrorDiagnostic

\* An outcome kind survives when this SDK knows it, and is Unknown otherwise.
LEMMA KindBack ==
    ASSUME NEW k
    PROVE  outcomeKindFromProto(outcomeKindToProto(k)) = IF k \in OutcomeKinds THEN k ELSE "Unknown"
<1>1. DOMAIN KindToProto = OutcomeKinds
  BY DEF KindToProto, OutcomeKinds
<1>2. CASE k \in OutcomeKinds
  <2>1. outcomeKindToProto(k) = KindToProto[k]
    BY <1>1, <1>2 DEF outcomeKindToProto
  <2> QED
    BY <1>2, <2>1 DEF OutcomeKinds, KindToProto, KindFromProto, outcomeKindFromProto
<1>3. CASE k \notin OutcomeKinds
  <2>1. outcomeKindToProto(k) = "OUTCOME_UNKNOWN"
    BY <1>1, <1>3 DEF outcomeKindToProto
  <2> QED
    BY <1>3, <2>1 DEF KindFromProto, outcomeKindFromProto
<1> QED BY <1>2, <1>3

\* What a pointer points at, converted and converted back.
LEMMA UsagePointer ==
    ASSUME NEW p, IsPointer(p, IsUsage)
    PROVE  Each(p, usageToProto) = p /\ Each(p, usageFromProto) = p
<1>1. CASE p = Nil
  BY <1>1 DEF Each, Nil
<1>2. CASE p = <<p[1]>> /\ IsUsage(p[1])
  BY <1>2, UsageTo, UsageFrom DEF Each
<1> QED BY <1>1, <1>2 DEF IsPointer

\* The same for a diagnostic.
LEMMA DiagnosticPointer ==
    ASSUME NEW p, IsPointer(p, IsDiagnostic)
    PROVE  Each(Each(p, finalErrorDiagnosticToProto), finalErrorDiagnosticFromProto) = p
<1>1. CASE p = Nil
  BY <1>1 DEF Each, Nil
<1>2. CASE p = <<p[1]>> /\ IsDiagnostic(p[1])
  BY <1>2, DiagnosticBack DEF Each
<1> QED BY <1>1, <1>2 DEF IsPointer

\* A verdict survives but for parts of a millisecond and an unknown kind.
LEMMA OutcomeBack ==
    ASSUME NEW o, IsOutcome(o)
    PROVE  /\ outcomeFromProto(outcomeToProto(o)) = Expected("Outcome", o)
           /\ outcomeFromProto(outcomeToProto(o)).Usage = o.Usage
<1> DEFINE p == outcomeToProto(o)
           r == outcomeFromProto(p)
           F == {"FailoverScope", "ModelFallbackReason", "Reason", "UpdatedCredentials",
                 "SafetyRejected"}
           G == {"Upstream", "Usage", "FinalErrorDiagnostic"}
           H == {"Kind", "Duration", "RetryAfter"}
<1>1. /\ \A f \in F : p[f] = o[f]
      /\ p.Kind = outcomeKindToProto(o.Kind) /\ p.Upstream = upstreamToProto(o.Upstream)
      /\ p.DurationMs = Milliseconds(o.Duration) /\ p.RetryAfterMs = Milliseconds(o.RetryAfter)
      /\ p.Usage = Each(o.Usage, usageToProto)
      /\ p.FinalErrorDiagnostic = Each(o.FinalErrorDiagnostic, finalErrorDiagnosticToProto)
  BY DEF outcomeToProto, Copy, @@
<1> HIDE DEF p
<1>2. /\ IsStruct(r, F \cup G \cup H) /\ \A f \in F : r[f] = o[f]
      /\ r.Kind = outcomeKindFromProto(p.Kind) /\ r.Upstream = upstreamFromProto(p.Upstream)
      /\ r.Duration = Duration(p.DurationMs) /\ r.RetryAfter = Duration(p.RetryAfterMs)
      /\ r.Usage = Each(p.Usage, usageFromProto)
      /\ r.FinalErrorDiagnostic = Each(p.FinalErrorDiagnostic, finalErrorDiagnosticFromProto)
  BY <1>1 DEF outcomeFromProto, IsStruct, Copy, @@
<1>3. /\ IsStruct(o, ForwardOutcome)
      /\ IsUpstream(o.Upstream) /\ o.Duration \in Int /\ o.RetryAfter \in Int
      /\ IsPointer(o.Usage, IsUsage) /\ IsPointer(o.FinalErrorDiagnostic, IsDiagnostic)
  BY DEF IsOutcome
<1> HIDE DEF r
<1>4. r.Upstream = o.Upstream
  BY <1>1, <1>2, <1>3, UpstreamBack
<1>5. r.Usage = o.Usage
  BY <1>1, <1>2, <1>3, UsagePointer
<1>6. r.FinalErrorDiagnostic = o.FinalErrorDiagnostic
  BY <1>1, <1>2, <1>3, DiagnosticPointer
<1>7. /\ r.Kind = IF o.Kind \in OutcomeKinds THEN o.Kind ELSE "Unknown"
      /\ r.Duration = WholeMs(o.Duration) /\ r.RetryAfter = WholeMs(o.RetryAfter)
  BY <1>1, <1>2, <1>3, KindBack, DurationBack
<1> DEFINE e == Expected("Outcome", o)
<1>8. /\ IsStruct(e, ForwardOutcome)
      /\ e.Kind = IF o.Kind \in OutcomeKinds THEN o.Kind ELSE "Unknown"
      /\ e.Duration = WholeMs(o.Duration) /\ e.RetryAfter = WholeMs(o.RetryAfter)
      /\ \A f \in F \cup G : e[f] = o[f]
  BY <1>3 DEF Expected, IsStruct, ForwardOutcome
<1>9. F \cup G \cup H = ForwardOutcome
  BY DEF ForwardOutcome
<1> HIDE DEF e
<1>10. \A f \in F \cup G \cup H : r[f] = e[f]
  BY <1>2, <1>4, <1>5, <1>6, <1>7, <1>8
<1> QED
  BY <1>2, <1>5, <1>8, <1>9, <1>10, StructEq DEF e, r, p

\* A list of structs, copied field by field.
LEMMA CopyAll ==
    ASSUME NEW F, NEW s, s \in Seq({s[i] : i \in DOMAIN s}),
           \A i \in DOMAIN s : IsStruct(s[i], F)
    PROVE  [i \in DOMAIN s |-> Copy(s[i], F)] = s
<1>1. \A i \in DOMAIN s : Copy(s[i], F) = s[i]
  BY DEF IsStruct, Copy
<1> QED
  BY <1>1

\* A list whose elements an operation gives back.
LEMMA Kept ==
    ASSUME NEW s, s \in Seq({s[i] : i \in DOMAIN s}),
           NEW t, t = [i \in DOMAIN s |-> t[i]], \A i \in DOMAIN s : t[i] = s[i]
    PROVE  t = s
  OBVIOUS

\* The candidates of a rule survive both conversions, in order.
LEMMA CandidatesBack ==
    ASSUME NEW s, IsList(s, IsCandidate)
    PROVE  dispatchCandidatesFromProto(dispatchCandidatesToProto(s)) = s
<1> DEFINE F == {"Scheduling", "Wire"}
           p == [i \in DOMAIN s |-> <<Copy(s[i], F)>>]
<1>1. s \in Seq({s[i] : i \in DOMAIN s}) /\ \A i \in DOMAIN s : IsStruct(s[i], F)
  BY DEF IsList, IsCandidate, DispatchCandidate
<1>2. dispatchCandidatesToProto(s) = p
  BY DEF dispatchCandidatesToProto, Each
<1>3. p = [i \in DOMAIN s |-> <<s[i]>>]
  BY <1>1 DEF IsStruct, Copy
<1> HIDE DEF p
<1>4. NonNil(p) = s
  BY <1>1, <1>3, NonNilAll
<1>5. dispatchCandidatesFromProto(p) = [i \in DOMAIN s |-> Copy(s[i], F)]
  BY <1>4 DEF dispatchCandidatesFromProto, Each
<1> QED
  BY <1>1, <1>2, <1>5, CopyAll

\* Account plans survive both conversions, in order.
LEMMA AccountPlansBack ==
    ASSUME NEW s, IsList(s, IsAccountPlan)
    PROVE  accountPlansFromProto(accountPlansToProto(s)) = s
<1> DEFINE F == {"Key", "Label", "CredentialKey", "MatchMode", "Matches"}
           p == [i \in DOMAIN s |-> <<Copy(s[i], F)>>]
<1>1. s \in Seq({s[i] : i \in DOMAIN s}) /\ \A i \in DOMAIN s : IsStruct(s[i], F)
  BY DEF IsList, IsAccountPlan, AccountPlan
<1>2. accountPlansToProto(s) = p
  BY DEF accountPlansToProto, Each
<1>3. p = [i \in DOMAIN s |-> <<s[i]>>]
  BY <1>1 DEF IsStruct, Copy
<1> HIDE DEF p
<1>4. NonNil(p) = s
  BY <1>1, <1>3, NonNilAll
<1>5. accountPlansFromProto(p) = [i \in DOMAIN s |-> Copy(s[i], F)]
  BY <1>4 DEF accountPlansFromProto, Each
<1> QED
  BY <1>1, <1>2, <1>5, CopyAll

\* What dispatchDSLToProto and dispatchDSLFromProto make of one rule.
RuleTo(r) ==
    Copy(r, {"ID", "Operation", "TimeoutProfile", "ContextWindowFallback"})
    @@ [When |-> dispatchWhenToProto(r.When), Model |-> dispatchModelToProto(r.Model),
        Gate |-> <<dispatchGateToProto(r.Gate)>>,
        Candidates |-> dispatchCandidatesToProto(r.Candidates)]

RuleFrom(p) ==
    Copy(p, {"ID", "Operation", "TimeoutProfile", "ContextWindowFallback"})
    @@ [When |-> dispatchWhenFromProto(p.When), Model |-> dispatchModelFromProto(p.Model),
        Gate |-> dispatchGateFromProto(p.Gate),
        Candidates |-> dispatchCandidatesFromProto(p.Candidates)]

\* A dispatch rule survives both conversions.
LEMMA RuleBack ==
    ASSUME NEW r, IsRule(r)
    PROVE  RuleFrom(RuleTo(r)) = r
<1> DEFINE F == {"ID", "Operation", "TimeoutProfile", "ContextWindowFallback"}
           G == {"When", "Model", "Gate", "Candidates"}
           p == RuleTo(r)
           t == RuleFrom(p)
<1>1. /\ \A f \in F : p[f] = r[f]
      /\ p.When = dispatchWhenToProto(r.When) /\ p.Model = dispatchModelToProto(r.Model)
      /\ p.Gate = <<dispatchGateToProto(r.Gate)>>
      /\ p.Candidates = dispatchCandidatesToProto(r.Candidates)
  BY DEF RuleTo, Copy, @@
<1> HIDE DEF p
<1>2. /\ IsStruct(t, F \cup G) /\ \A f \in F : t[f] = r[f]
      /\ t.When = dispatchWhenFromProto(p.When) /\ t.Model = dispatchModelFromProto(p.Model)
      /\ t.Gate = dispatchGateFromProto(p.Gate)
      /\ t.Candidates = dispatchCandidatesFromProto(p.Candidates)
  BY <1>1 DEF RuleFrom, IsStruct, Copy, @@
<1>3. /\ IsStruct(r, DispatchRule)
      /\ IsStruct(r.When, DispatchWhen) /\ IsStruct(r.Model, {"StripSuffix"})
      /\ IsGate(r.Gate) /\ IsList(r.Candidates, IsCandidate)
  BY DEF IsRule
<1> HIDE DEF t
<1>4. dispatchWhenFromProto(dispatchWhenToProto(r.When)) = r.When
  BY <1>3 DEF dispatchWhenFromProto, dispatchWhenToProto, Copy, IsStruct, DispatchWhen
<1>5. dispatchModelFromProto(dispatchModelToProto(r.Model)) = r.Model
  BY <1>3 DEF dispatchModelFromProto, dispatchModelToProto, IsStruct
<1>6. \A f \in F \cup G : t[f] = r[f]
  BY <1>1, <1>2, <1>3, <1>4, <1>5, GateBack, CandidatesBack
<1>7. F \cup G = DispatchRule
  BY DEF DispatchRule
<1> QED
  BY <1>2, <1>3, <1>6, <1>7, StructEq DEF t, p

\* A dispatch DSL survives both conversions; one without rules travels as none.
LEMMA DSLBack ==
    ASSUME NEW s, IsList(s, IsRule)
    PROVE  dispatchDSLFromProto(dispatchDSLToProto(s)) = s
<1> DEFINE p == [i \in DOMAIN s |-> <<RuleTo(s[i])>>]
<1>1. s \in Seq({s[i] : i \in DOMAIN s}) /\ \A i \in DOMAIN s : IsRule(s[i])
  BY DEF IsList
<1>2. CASE s = Empty
  BY <1>2 DEF dispatchDSLToProto, dispatchDSLFromProto, Nil, Empty
<1>3. CASE s # Empty
  <2>1. dispatchDSLToProto(s) = <<p>>
    BY <1>3 DEF dispatchDSLToProto, Each, RuleTo
  <2>2. \A i \in DOMAIN s : p[i][1] = RuleTo(s[i])
    OBVIOUS
  <2>3. p = [i \in DOMAIN s |-> <<p[i][1]>>]
    OBVIOUS
  <2> HIDE DEF p
  <2>4. NonNil(p) = [i \in DOMAIN s |-> p[i][1]]
    BY <1>1, <2>3, ListBack
  <2>5. dispatchDSLFromProto(<<p>>) =
            [i \in DOMAIN NonNil(p) |-> RuleFrom(NonNil(p)[i])]
    BY DEF dispatchDSLFromProto, Each, RuleFrom, Nil
  <2>6. @ = [i \in DOMAIN s |-> RuleFrom(RuleTo(s[i]))]
    BY <2>2, <2>4
  <2>7. @ = [i \in DOMAIN s |-> s[i]]
    BY <1>1, RuleBack
  <2> QED
    BY <1>1, <2>1, <2>5, <2>6, <2>7
<1> QED
  BY <1>2, <1>3

\* What GetInfo and InfoContext make of the entries of the lists.
ConfigCopy(c) ==
    Copy(c, {"Key", "Label", "Type", "Required", "Default", "Description", "Placeholder"})
    @@ [Options |-> Each(c.Options, LAMBDA o : Copy(o, {"Value", "Label"}))]

TypeCopy(t) ==
    Copy(t, {"Key", "Label", "Description"})
    @@ [Fields |-> Each(t.Fields, LAMBDA f : Copy(f, {"Key", "Label", "Type", "Required",
                                                      "Placeholder", "EditDisabled"}))]

\* Copying a configuration field and its options gives the field back.
LEMMA ConfigBack ==
    ASSUME NEW c, IsConfig(c)
    PROVE  ConfigCopy(c) = c
<1> DEFINE F == {"Key", "Label", "Type", "Required", "Default", "Description", "Placeholder"}
           s == c.Options
<1>1. s \in Seq({s[i] : i \in DOMAIN s}) /\ \A i \in DOMAIN s : IsStruct(s[i], {"Value", "Label"})
  BY DEF IsConfig, IsList, IsOption, ConfigOption
<1>2. [i \in DOMAIN s |-> Copy(s[i], {"Value", "Label"})] = s
  BY <1>1, CopyAll
<1>3. ConfigCopy(c).Options = s
  BY <1>2 DEF ConfigCopy, Copy, Each, @@
<1>4. IsStruct(ConfigCopy(c), F \cup {"Options"}) /\ \A f \in F : ConfigCopy(c)[f] = c[f]
  BY DEF ConfigCopy, IsStruct, Copy, @@
<1>5. F \cup {"Options"} = ConfigField /\ IsStruct(c, ConfigField)
  BY DEF ConfigField, IsConfig
<1> QED
  BY <1>3, <1>4, <1>5, StructEq

\* Copying an account type and its credential fields gives the type back.
LEMMA AccountTypeBack ==
    ASSUME NEW t, IsAccountType(t)
    PROVE  TypeCopy(t) = t
<1> DEFINE F == {"Key", "Label", "Description"}
           G == {"Key", "Label", "Type", "Required", "Placeholder", "EditDisabled"}
           s == t.Fields
<1>1. s \in Seq({s[i] : i \in DOMAIN s}) /\ \A i \in DOMAIN s : IsStruct(s[i], G)
  BY DEF IsAccountType, IsList, IsCredential, CredentialField
<1>2. [i \in DOMAIN s |-> Copy(s[i], G)] = s
  BY <1>1, CopyAll
<1>3. TypeCopy(t).Fields = s
  BY <1>2 DEF TypeCopy, Copy, Each, @@
<1>4. IsStruct(TypeCopy(t), F \cup {"Fields"}) /\ \A f \in F : TypeCopy(t)[f] = t[f]
  BY DEF TypeCopy, IsStruct, Copy, @@
<1>5. F \cup {"Fields"} = AccountType /\ IsStruct(t, AccountType)
  BY DEF AccountType, IsAccountType
<1> QED
  BY <1>3, <1>4, <1>5, StructEq

\* So for a list of configuration fields,
LEMMA ConfigsBack ==
    ASSUME NEW s, IsList(s, IsConfig)
    PROVE  [i \in DOMAIN s |-> ConfigCopy(s[i])] = s
<1>1. s \in Seq({s[i] : i \in DOMAIN s}) /\ \A i \in DOMAIN s : IsConfig(s[i])
  BY DEF IsList
<1> QED
  BY <1>1, ConfigBack

\* a list of account types,
LEMMA AccountTypesBack ==
    ASSUME NEW s, IsList(s, IsAccountType)
    PROVE  [i \in DOMAIN s |-> TypeCopy(s[i])] = s
<1>1. s \in Seq({s[i] : i \in DOMAIN s}) /\ \A i \in DOMAIN s : IsAccountType(s[i])
  BY DEF IsList
<1> QED
  BY <1>1, AccountTypeBack

\* a list of pages,
LEMMA PagesBack ==
    ASSUME NEW s, IsList(s, IsPage)
    PROVE  [i \in DOMAIN s |-> Copy(s[i], {"Path", "Title", "Icon", "Description", "Audience"})]
               = s
<1>1. s \in Seq({s[i] : i \in DOMAIN s})
      /\ \A i \in DOMAIN s :
             IsStruct(s[i], {"Path", "Title", "Icon", "Description", "Audience"})
  BY DEF IsList, IsPage, FrontendPage
<1> QED
  BY <1>1, CopyAll

\* and a list of widgets.
LEMMA WidgetsBack ==
    ASSUME NEW s, IsList(s, IsWidget)
    PROVE  [i \in DOMAIN s |-> Copy(s[i], {"Slot", "EntryFile", "Title"})] = s
<1>1. s \in Seq({s[i] : i \in DOMAIN s})
      /\ \A i \in DOMAIN s : IsStruct(s[i], {"Slot", "EntryFile", "Title"})
  BY DEF IsList, IsWidget, FrontendWidget
<1> QED
  BY <1>1, CopyAll

\* What GetInfo sends of a plugin's information, InfoContext gives back.
LEMMA InfoBack ==
    ASSUME NEW info, IsInfo(info)
    PROVE  InfoContext(GetInfo(info)) = info
<1> DEFINE F == {"ID", "Name", "Version", "SDKVersion", "Description", "Author", "Type",
                 "Dependencies", "Metadata", "InstructionPresets", "Capabilities", "Priority"}
           G == {"DispatchDSL", "AccountPlans", "ConfigSchema", "AccountTypes",
                 "FrontendPages", "FrontendWidgets"}
           p == GetInfo(info)
           r == InfoContext(p)
<1>1. \A f \in F : p[f] = info[f]
  BY DEF GetInfo, Copy, @@
<1>2. /\ p.DispatchDSL = dispatchDSLToProto(info.DispatchDSL)
      /\ p.AccountPlans = accountPlansToProto(info.AccountPlans)
  BY DEF GetInfo, Copy, @@
<1>3. p.ConfigSchema = [i \in DOMAIN info.ConfigSchema |-> ConfigCopy(info.ConfigSchema[i])]
  BY DEF GetInfo, ConfigCopy, Copy, Each, @@
<1>4. p.AccountTypes = [i \in DOMAIN info.AccountTypes |-> TypeCopy(info.AccountTypes[i])]
  BY DEF GetInfo, TypeCopy, Copy, Each, @@
<1>5. p.FrontendPages = [i \in DOMAIN info.FrontendPages |->
          Copy(info.FrontendPages[i], {"Path", "Title", "Icon", "Description", "Audience"})]
  BY DEF GetInfo, Copy, Each, @@
<1>6. p.FrontendWidgets = [i \in DOMAIN info.FrontendWidgets |->
          Copy(info.FrontendWidgets[i], {"Slot", "EntryFile", "Title"})]
  BY DEF GetInfo, Copy, Each, @@
<1>7. /\ IsStruct(info, PluginInfo)
      /\ IsList(info.DispatchDSL, IsRule) /\ IsList(info.AccountPlans, IsAccountPlan)
      /\ IsList(info.ConfigSchema, IsConfig) /\ IsList(info.AccountTypes, IsAccountType)
      /\ IsList(info.FrontendPages, IsPage) /\ IsList(info.FrontendWidgets, IsWidget)
  BY DEF IsInfo
<1> HIDE DEF p
<1>8. /\ p.ConfigSchema = info.ConfigSchema /\ p.AccountTypes = info.AccountTypes
      /\ p.FrontendPages = info.FrontendPages /\ p.FrontendWidgets = info.FrontendWidgets
  BY <1>3, <1>4, <1>5, <1>6, <1>7, ConfigsBack, AccountTypesBack, PagesBack, WidgetsBack
<1>9. /\ IsStruct(r, F \cup G) /\ \A f \in F : r[f] = p[f]
  BY DEF InfoContext, IsStruct, Copy, @@
<1>10. /\ r.DispatchDSL = dispatchDSLFromProto(p.DispatchDSL)
       /\ r.AccountPlans = accountPlansFromProto(p.AccountPlans)
  BY DEF InfoContext, Copy, @@
<1>11. /\ r.ConfigSchema = [i \in DOMAIN p.ConfigSchema |-> ConfigCopy(p.ConfigSchema[i])]
       /\ r.AccountTypes = [i \in DOMAIN p.AccountTypes |-> TypeCopy(p.AccountTypes[i])]
  BY DEF InfoContext, ConfigCopy, TypeCopy, Copy, Each, @@
<1>12. /\ r.FrontendPages = [i \in DOMAIN p.FrontendPages |->
              Copy(p.FrontendPages[i], {"Path", "Title", "Icon", "Description", "Audience"})]
       /\ r.FrontendWidgets = [i \in DOMAIN p.FrontendWidgets |->
              Copy(p.FrontendWidgets[i], {"Slot", "EntryFile", "Title"})]
  BY DEF InfoContext, Copy, Each, @@
<1> HIDE DEF r
<1>13. /\ r.ConfigSchema = info.ConfigSchema /\ r.AccountTypes = info.AccountTypes
       /\ r.FrontendPages = info.FrontendPages /\ r.FrontendWidgets = info.FrontendWidgets
  BY <1>7, <1>8, <1>11, <1>12, ConfigsBack, AccountTypesBack, PagesBack, WidgetsBack
<1>14. r.DispatchDSL = info.DispatchDSL /\ r.AccountPlans = info.AccountPlans
  BY <1>2, <1>7, <1>10, DSLBack, AccountPlansBack
<1>15. \A f \in F \cup G : r[f] = info[f]
  BY <1>1, <1>9, <1>13, <1>14
<1>16. F \cup G = PluginInfo
  BY DEF PluginInfo
<1> QED
  BY <1>7, <1>9, <1>15, <1>16, StructEq DEF r, p

\* A catalog of models survives GetModels and convertModels.
LEMMA ModelsBack ==
    ASSUME NEW s, IsList(s, IsModel)
    PROVE  convertModels(GetModels(s)) = s
<1> DEFINE F == {"ID", "Name", "ContextWindow", "MaxOutputTokens", "Capabilities", "Metadata"}
<1>1. s \in Seq({s[i] : i \in DOMAIN s}) /\ \A i \in DOMAIN s : IsStruct(s[i], F)
  BY DEF IsList, IsModel, ModelInfo
<1>2. GetModels(s) = s /\ convertModels(s) = s
  BY <1>1, CopyAll DEF GetModels, convertModels, Each
<1> QED
  BY <1>2

\* Routes survive GetRoutes and Routes.
LEMMA RoutesBack ==
    ASSUME NEW s, IsList(s, IsRoute)
    PROVE  Routes(GetRoutes(s)) = s
<1> DEFINE F == {"Method", "Path", "Description", "Metadata"}
<1>1. s \in Seq({s[i] : i \in DOMAIN s}) /\ \A i \in DOMAIN s : IsStruct(s[i], F)
  BY DEF IsList, IsRoute, RouteDefinition
<1>2. GetRoutes(s) = s /\ Routes(s) = s
  BY <1>1, CopyAll DEF GetRoutes, Routes, Each
<1> QED
  BY <1>2

\* Background tasks survive but for parts of a millisecond in their intervals.
LEMMA TasksBack ==
    ASSUME NEW s, IsList(s, IsTask)
    PROVE  BackgroundTasks(GetBackgroundTasks(s)) = Expected("Tasks", s)
<1>1. \A i \in DOMAIN s : /\ s[i].Interval \in Int
                          /\ s[i] = [f \in {"Name", "Interval"} |-> s[i][f]]
  BY DEF IsList, IsTask, IsStruct
<1>2. BackgroundTasks(GetBackgroundTasks(s)) =
          [i \in DOMAIN s |-> [Name |-> s[i].Name,
                               Interval |-> Duration(Milliseconds(s[i].Interval))]]
  BY DEF BackgroundTasks, GetBackgroundTasks, Each
<1>3. \A i \in DOMAIN s :
          [Name |-> s[i].Name, Interval |-> Duration(Milliseconds(s[i].Interval))]
              = [s[i] EXCEPT !.Interval = WholeMs(s[i].Interval)]
  BY <1>1, DurationBack
<1>4. Expected("Tasks", s) = [i \in DOMAIN s |-> [s[i] EXCEPT !.Interval = WholeMs(s[i].Interval)]]
  BY DEF Expected
<1> QED
  BY <1>2, <1>3, <1>4

\* A payload schema survives both conversions; the zero one travels as none.
LEMMA PayloadSchemaBack ==
    ASSUME NEW s, IsPayloadSchema(s)
    PROVE  payloadSchemaFromProto(payloadSchemaToProto(s)) = s
<1>1. CASE s = ZeroPayload
  BY <1>1 DEF payloadSchemaToProto, payloadSchemaFromProto
<1>2. CASE s # ZeroPayload
  <2>1. payloadSchemaFromProto(payloadSchemaToProto(s)) = [f \in PayloadSchema |-> s[f]]
    BY <1>2 DEF payloadSchemaToProto, payloadSchemaFromProto, Copy, PayloadSchema, Nil
  <2> QED BY <2>1 DEF IsPayloadSchema, IsStruct
<1> QED BY <1>1, <1>2

\* What schemaToProto and schemaFromProto make of one entry with fields F, and payload
\* schemas in the fields G.
EntryTo(e, F, G) == Copy(e, F) @@ [f \in G |-> payloadSchemaToProto(e[f])]
EntryFrom(p, F, G) == Copy(p, F) @@ [f \in G |-> payloadSchemaFromProto(p[f])]

\* An entry of a plugin schema survives both conversions,
LEMMA EntryBack ==
    ASSUME NEW F, NEW G, F \cap G = {}, NEW e, IsEntry(e, F \cup G, G)
    PROVE  EntryFrom(EntryTo(e, F, G), F, G) = e
<1> DEFINE p == EntryTo(e, F, G)
           r == EntryFrom(p, F, G)
<1>1. /\ \A f \in F : p[f] = e[f]
      /\ \A f \in G : p[f] = payloadSchemaToProto(e[f])
  BY DEF EntryTo, Copy, @@
<1> HIDE DEF p
<1>2. /\ IsStruct(r, F \cup G)
      /\ \A f \in F : r[f] = p[f]
      /\ \A f \in G : r[f] = payloadSchemaFromProto(p[f])
  BY DEF EntryFrom, IsStruct, Copy, @@
<1>3. IsStruct(e, F \cup G) /\ \A f \in G : IsPayloadSchema(e[f])
  BY DEF IsEntry
<1>4. \A f \in F \cup G : r[f] = e[f]
  BY <1>1, <1>2, <1>3, PayloadSchemaBack
<1> HIDE DEF r
<1> QED
  BY <1>2, <1>3, <1>4, StructEq DEF r, p

\* A list of schema entries with fields H, those in G payload schemas.
AreEntries(s, H, G) ==
    s \in Seq({s[i] : i \in DOMAIN s}) /\ \A i \in DOMAIN s : IsEntry(s[i], H, G)

\* What schemaToProto and schemaFromProto make of a list of entries.
EntriesTo(s, F, G) == [i \in DOMAIN s |-> EntryTo(s[i], F, G)]
EntriesFrom(p, F, G) == [i \in DOMAIN p |-> EntryFrom(p[i], F, G)]

\* and so does a list of them,
LEMMA EntriesBack ==
    ASSUME NEW H, NEW F, NEW G, F \cap G = {}, F \cup G = H, NEW s, AreEntries(s, H, G)
    PROVE  EntriesFrom(EntriesTo(s, F, G), F, G) = s
<1> DEFINE p == EntriesTo(s, F, G)
<1>1. \A i \in DOMAIN s : IsEntry(s[i], F \cup G, G)
  BY Zenon DEF AreEntries
<1>2. DOMAIN p = DOMAIN s /\ \A i \in DOMAIN s : p[i] = EntryTo(s[i], F, G)
  BY DEF EntriesTo
<1> HIDE DEF p
<1>3. \A i \in DOMAIN s : EntryFrom(p[i], F, G) = s[i]
  BY <1>1, <1>2, EntryBack
<1>4. s \in Seq({s[i] : i \in DOMAIN s})
  BY DEF AreEntries
<1>5. EntriesFrom(p, F, G) = s
  BY <1>2, <1>3, <1>4 DEF EntriesFrom
<1> QED
  BY <1>5 DEF p

\* The fields of the four kinds of entries that are copied as they are.
RouteFields == {"Method", "Path", "Summary", "Metadata"}
TaskFields == {"Type", "Summary", "Metadata"}
EventFields == {"Type", "Source", "Summary", "Metadata"}
InvokeFields == {"Method", "Summary", "Transport", "Metadata"}
InvokePayloads == {"Request", "Response", "ClientFrame", "ServerFrame"}

\* and the plugin schema.
LEMMA SchemaBack ==
    ASSUME NEW s, IsSchema(s)
    PROVE  schemaFromProto(schemaToProto(s)) = s
<1> DEFINE p == schemaToProto(s)
           r == schemaFromProto(p)
<1>1. /\ p.Metadata = s.Metadata
      /\ p.Routes = EntriesTo(s.Routes, RouteFields, {"Request", "Response"})
      /\ p.Tasks = EntriesTo(s.Tasks, TaskFields, {"Input", "Output"})
  BY DEF schemaToProto, CopyPayloads, EntriesTo, EntryTo, RouteFields, TaskFields, Each
<1>2. /\ p.Events = EntriesTo(s.Events, EventFields, {"Payload"})
      /\ p.Invokes = EntriesTo(s.Invokes, InvokeFields, InvokePayloads)
  BY DEF schemaToProto, CopyPayloads, EntriesTo, EntryTo, EventFields, InvokeFields,
         InvokePayloads, Each
<1>3. r = [Metadata |-> p.Metadata,
           Routes |-> EntriesFrom(p.Routes, RouteFields, {"Request", "Response"}),
           Tasks |-> EntriesFrom(p.Tasks, TaskFields, {"Input", "Output"}),
           Events |-> EntriesFrom(p.Events, EventFields, {"Payload"}),
           Invokes |-> EntriesFrom(p.Invokes, InvokeFields, InvokePayloads)]
  <2> HIDE DEF p
  <2> QED
    BY DEF schemaFromProto, CopyPayloads, EntriesFrom, EntryFrom, RouteFields, TaskFields,
           EventFields, InvokeFields, InvokePayloads, Each
<1> HIDE DEF p, r
<1>4. /\ RouteFields \cup {"Request", "Response"} = RouteSchema
      /\ RouteFields \cap {"Request", "Response"} = {}
      /\ TaskFields \cup {"Input", "Output"} = TaskSchema
      /\ TaskFields \cap {"Input", "Output"} = {}
      /\ EventFields \cup {"Payload"} = EventSchema
      /\ EventFields \cap {"Payload"} = {}
      /\ InvokeFields \cup InvokePayloads = InvokeSchema
      /\ InvokeFields \cap InvokePayloads = {}
  BY DEF RouteFields, TaskFields, EventFields, InvokeFields, InvokePayloads, RouteSchema,
         TaskSchema, EventSchema, InvokeSchema
<1>5. /\ IsStruct(s, PluginSchema)
      /\ AreEntries(s.Routes, RouteSchema, {"Request", "Response"})
      /\ AreEntries(s.Tasks, TaskSchema, {"Input", "Output"})
      /\ AreEntries(s.Events, EventSchema, {"Payload"})
      /\ AreEntries(s.Invokes, InvokeSchema, InvokePayloads)
  BY DEF IsSchema, InvokePayloads, IsList, AreEntries
<1>6. EntriesFrom(p.Routes, RouteFields, {"Request", "Response"}) = s.Routes
  BY <1>1, <1>4, <1>5, EntriesBack
<1>7. EntriesFrom(p.Tasks, TaskFields, {"Input", "Output"}) = s.Tasks
  BY <1>1, <1>4, <1>5, EntriesBack
<1>8. EntriesFrom(p.Events, EventFields, {"Payload"}) = s.Events
  BY <1>2, <1>4, <1>5, EntriesBack
<1>9. EntriesFrom(p.Invokes, InvokeFields, InvokePayloads) = s.Invokes
  BY <1>2, <1>4, <1>5, EntriesBack
<1>10. r = [Metadata |-> s.Metadata, Routes |-> s.Routes, Tasks |-> s.Tasks,
            Events |-> s.Events, Invokes |-> s.Invokes]
  BY <1>1, <1>3, <1>6, <1>7, <1>8, <1>9
<1> QED
  BY <1>5, <1>10 DEF IsStruct, PluginSchema, r, p

\* Web assets survive as a list of files in any order.
LEMMA AssetsBack ==
    ASSUME NEW a, IsMap(a)
    PROVE  WebAssetsContext(GetWebAssets(a)) = a
<1> DEFINE file(q) == [Path |-> q, Content |-> a[q]]
           files == {file(q) : q \in DOMAIN a}
           found(q) == CHOOSE f \in files : f.Path = q
           g == GetWebAssets(a)
<1>1. CASE a = Empty
  BY <1>1 DEF GetWebAssets, WebAssetsContext
<1>2. CASE a # Empty
  <2>1. g.HasAssets = TRUE /\ g.Files = files
    BY <1>2 DEF GetWebAssets
  <2>2. \A q \in DOMAIN a : file(q) \in files /\ file(q).Path = q /\ file(q).Content = a[q]
    OBVIOUS
  <2>3. \A f \in files : f.Path \in DOMAIN a /\ f = file(f.Path)
    OBVIOUS
  <2>4. \A q \in DOMAIN a : found(q).Content = a[q]
    <3> TAKE q \in DOMAIN a
    <3> HIDE DEF file, files
    <3>1. found(q) \in files /\ found(q).Path = q
      BY <2>2
    <3>2. found(q) = file(q)
      BY <2>3, <3>1
    <3> HIDE DEF found
    <3> QED BY <2>2, <3>2
  <2> HIDE DEF file, files
  <2>5. {f.Path : f \in files} = DOMAIN a
    BY <2>2, <2>3
  <2>6. WebAssetsContext(g) = [q \in {f.Path : f \in files} |-> found(q).Content]
    <3> HIDE DEF g
    <3> QED BY <2>1 DEF WebAssetsContext
  <2> HIDE DEF found, g
  <2>7. WebAssetsContext(g) = [q \in DOMAIN a |-> a[q]]
    BY <2>4, <2>5, <2>6
  <2> QED BY <2>7 DEF IsMap, IsStruct, g
<1> QED BY <1>1, <1>2

\* An event subscription survives both conversions.
LEMMA SubscriptionBack ==
    ASSUME NEW s, IsStruct(s, EventSubscription)
    PROVE  subscriptionFromProto(subscriptionToProto(s)) = s
  BY DEF subscriptionFromProto, subscriptionToProto, Copy, IsStruct, EventSubscription

\* A decision survives both conversions, and none arrives as the one that allows.
LEMMA DecisionBack ==
    ASSUME NEW d, IsPointer(d, IsDecision)
    PROVE  middlewareDecisionFromProto(middlewareDecisionToProto(d)) =
               IF d = Nil THEN Allow ELSE d[1]
<1> DEFINE F == {"Action", "DenyStatusCode", "DenyMessage", "Metadata"}
           p == middlewareDecisionToProto(d)
           r == middlewareDecisionFromProto(p)
<1>1. F \cup {"SetHeaders"} = MiddlewareDecision
  BY DEF MiddlewareDecision
<1>2. IsStruct(r, F \cup {"SetHeaders"}) /\ \A f \in F : r[f] = p[f]
  <2> HIDE DEF p
  <2> QED BY DEF middlewareDecisionFromProto, IsStruct, Copy, @@
<1>3. r.SetHeaders = protoHeadersToHTTP(p.SetHeaders)
  <2> HIDE DEF p
  <2> QED BY DEF middlewareDecisionFromProto, Copy, @@
<1>4. CASE d = Nil
  <2>1. p = Allow /\ IsStruct(Allow, F \cup {"SetHeaders"})
    BY <1>1, <1>4 DEF middlewareDecisionToProto, Allow, IsStruct
  <2>2. Allow.SetHeaders = Empty
    BY DEF Allow, MiddlewareDecision
  <2>3. protoHeadersToHTTP(Empty) = Empty
    BY DEF protoHeadersToHTTP, Empty
  <2> HIDE DEF p, r
  <2>4. \A f \in F \cup {"SetHeaders"} : r[f] = Allow[f]
    BY <1>2, <1>3, <2>1, <2>2, <2>3
  <2>5. r = Allow
    BY <1>2, <2>1, <2>4, StructEq
  <2> QED BY <1>4, <2>5 DEF p, r
<1>5. CASE d # Nil
  <2>1. IsDecision(d[1])
    BY <1>5 DEF IsPointer
  <2>2. p.SetHeaders = httpHeadersToProto(d[1].SetHeaders) /\ \A f \in F : p[f] = d[1][f]
    BY <1>5 DEF middlewareDecisionToProto, Copy, @@
  <2>3. r.SetHeaders = d[1].SetHeaders
    BY <1>3, <2>1, <2>2, HeadersBack DEF IsDecision
  <2> HIDE DEF p, r
  <2>4. \A f \in F \cup {"SetHeaders"} : r[f] = d[1][f]
    BY <1>2, <2>2, <2>3
  <2>5. r = d[1]
    BY <1>1, <1>2, <2>1, <2>4, StructEq DEF IsDecision
  <2> QED BY <1>5, <2>5 DEF p, r
<1> QED BY <1>4, <1>5

\* A middleware request survives both conversions.
LEMMA MiddlewareRequestBack ==
    ASSUME NEW v, WithHeaders(v, MiddlewareRequest, "RequestHeaders")
    PROVE  middlewareRequestFromProto(middlewareRequestToProto(v)) = v
<1> DEFINE F == {"RequestID", "UserID", "GroupID", "AccountID", "Platform", "Model", "Stream",
                 "Metadata", "RequestBody"}
           p == middlewareRequestToProto(v)
           r == middlewareRequestFromProto(p)
<1>1. p.RequestHeaders = httpHeadersToProto(v.RequestHeaders) /\ \A f \in F : p[f] = v[f]
  BY DEF middlewareRequestToProto, Copy, @@
<1> HIDE DEF p
<1>2. /\ IsStruct(r, F \cup {"RequestHeaders"}) /\ \A f \in F : r[f] = p[f]
      /\ r.RequestHeaders = protoHeadersToHTTP(p.RequestHeaders)
  BY DEF middlewareRequestFromProto, IsStruct, Copy, @@
<1> HIDE DEF r
<1>3. r.RequestHeaders = v.RequestHeaders
  BY <1>1, <1>2, HeadersBack DEF WithHeaders
<1>4. F \cup {"RequestHeaders"} = MiddlewareRequest /\ IsStruct(v, MiddlewareRequest)
  BY DEF MiddlewareRequest, WithHeaders
<1>5. \A f \in F \cup {"RequestHeaders"} : r[f] = v[f]
  BY <1>1, <1>2, <1>3
<1> QED
  BY <1>2, <1>4, <1>5, StructEq DEF p, r

\* An HTTP request survives both conversions.
LEMMA HttpRequestBack ==
    ASSUME NEW v, WithHeaders(v, HttpRequest, "Headers")
    PROVE  httpRequestFromProto(httpRequestToProto(v)) = v
<1> DEFINE F == {"Method", "Path", "Query", "Body"}
           p == httpRequestToProto(v)
           r == httpRequestFromProto(p)
<1>1. p.Headers = httpHeadersToProto(v.Headers) /\ \A f \in F : p[f] = v[f]
  BY DEF httpRequestToProto, Copy, @@
<1> HIDE DEF p
<1>2. /\ IsStruct(r, F \cup {"Headers"}) /\ \A f \in F : r[f] = p[f]
      /\ r.Headers = protoHeadersToHTTP(p.Headers)
  BY DEF httpRequestFromProto, IsStruct, Copy, @@
<1> HIDE DEF r
<1>3. r.Headers = v.Headers
  BY <1>1, <1>2, HeadersBack DEF WithHeaders
<1>4. F \cup {"Headers"} = HttpRequest /\ IsStruct(v, HttpRequest)
  BY DEF HttpRequest, WithHeaders
<1>5. \A f \in F \cup {"Headers"} : r[f] = v[f]
  BY <1>1, <1>2, <1>3
<1> QED
  BY <1>2, <1>4, <1>5, StructEq DEF p, r

\* A middleware event survives but for part of a millisecond in its duration.
LEMMA MiddlewareEventBack ==
    ASSUME NEW e, IsMiddlewareEvent(e)
    PROVE  /\ middlewareEventFromProto(middlewareEventToProto(e)) = Expected("MiddlewareEvent", e)
           /\ middlewareEventFromProto(middlewareEventToProto(e)).Usage = e.Usage
<1> DEFINE F == {"RequestID", "UserID", "GroupID", "AccountID", "Platform", "Model", "Stream",
                 "ErrorKind", "ErrorMsg", "Metadata", "ResponseBody"}
           G == {"StatusCode", "Usage", "ResponseHeaders"}
           p == middlewareEventToProto(e)
           r == middlewareEventFromProto(p)
           x == Expected("MiddlewareEvent", e)
<1>1. /\ \A f \in F : p[f] = e[f]
      /\ p.StatusCode = e.StatusCode /\ p.DurationMs = Milliseconds(e.Duration)
      /\ p.Usage = Each(e.Usage, usageToProto)
      /\ p.ResponseHeaders = httpHeadersToProto(e.ResponseHeaders)
  BY DEF middlewareEventToProto, Copy, @@
<1> HIDE DEF p
<1>2. /\ IsStruct(r, F \cup G \cup {"Duration"}) /\ \A f \in F : r[f] = p[f]
      /\ r.StatusCode = Int32(p.StatusCode) /\ r.Duration = Duration(p.DurationMs)
      /\ r.Usage = Each(p.Usage, usageFromProto)
      /\ r.ResponseHeaders = protoHeadersToHTTP(p.ResponseHeaders)
  BY DEF middlewareEventFromProto, IsStruct, Copy, @@
<1> HIDE DEF r
<1>3. /\ IsStruct(e, MiddlewareEvent) /\ e.StatusCode \in Int32s /\ e.Duration \in Int
      /\ IsPointer(e.Usage, IsUsage) /\ IsMap(e.ResponseHeaders)
  BY DEF IsMiddlewareEvent
<1>4. r.Usage = e.Usage
  BY <1>1, <1>2, <1>3, UsagePointer
<1>5. r.StatusCode = e.StatusCode /\ r.ResponseHeaders = e.ResponseHeaders
  BY <1>1, <1>2, <1>3, Int32Back, HeadersBack
<1>6. r.Duration = WholeMs(e.Duration)
  BY <1>1, <1>2, <1>3, DurationBack
<1>7. /\ IsStruct(x, MiddlewareEvent) /\ x.Duration = WholeMs(e.Duration)
      /\ \A f \in F \cup G : x[f] = e[f]
  BY <1>3 DEF Expected, IsStruct, MiddlewareEvent
<1>8. F \cup G \cup {"Duration"} = MiddlewareEvent
  BY DEF MiddlewareEvent
<1> HIDE DEF x
<1>9. \A f \in F \cup G \cup {"Duration"} : r[f] = x[f]
  BY <1>1, <1>2, <1>4, <1>5, <1>6, <1>7
<1> QED
  BY <1>2, <1>4, <1>7, <1>8, <1>9, StructEq DEF x, r, p

\* A payload arrives with its integers as floats, and has a JSON text unless it holds a function.
LEMMA PayloadBack ==
    ASSUME NEW m, IsPayload(m)
    PROVE  /\ jsonPayloadToMap(mapToJSONPayload(m)) = AsFloat(m)
           /\ Encodable(m) <=> ~HasFunc(m)
<1>1. \A k \in DOMAIN m : m[k] \in {"text", "int", "float", "func"}
  BY DEF IsPayload
<1>2. Encodable(m) <=> ~HasFunc(m)
  BY DEF Encodable, HasFunc
<1>3. jsonPayloadToMap(mapToJSONPayload(m)) = AsFloat(m)
  BY <1>1 DEF jsonPayloadToMap, mapToJSONPayload, AsFloat
<1> QED BY <1>2, <1>3

\* A struct whose payload travels as JSON, and whose other fields F are copied.
JsonTo(v, F) == Copy(v, F) @@ [Payload |-> mapToJSONPayload(v.Payload)]
JsonFrom(p, F) == Copy(p, F) @@ [Payload |-> jsonPayloadToMap(p.Payload)]

\* Such a struct arrives with only the payload's numbers changed.
LEMMA JsonBack ==
    ASSUME NEW F, "Payload" \notin F, NEW v, IsStruct(v, F \cup {"Payload"}), IsPayload(v.Payload)
    PROVE  JsonFrom(JsonTo(v, F), F) = [v EXCEPT !.Payload = AsFloat(v.Payload)]
<1> DEFINE p == JsonTo(v, F)
           r == JsonFrom(p, F)
           x == [v EXCEPT !.Payload = AsFloat(v.Payload)]
<1>1. p.Payload = mapToJSONPayload(v.Payload) /\ \A f \in F : p[f] = v[f]
  BY DEF JsonTo, Copy, @@
<1> HIDE DEF p
<1>2. /\ IsStruct(r, F \cup {"Payload"}) /\ r.Payload = jsonPayloadToMap(p.Payload)
      /\ \A f \in F : r[f] = p[f]
  BY DEF JsonFrom, IsStruct, Copy, @@
<1>3. /\ IsStruct(x, F \cup {"Payload"}) /\ x.Payload = AsFloat(v.Payload)
      /\ \A f \in F : x[f] = v[f]
  BY DEF IsStruct
<1> HIDE DEF r
<1>4. r.Payload = x.Payload
  BY <1>1, <1>2, <1>3, PayloadBack
<1> HIDE DEF x
<1>5. \A f \in F \cup {"Payload"} : r[f] = x[f]
  BY <1>1, <1>2, <1>3, <1>4
<1> QED
  BY <1>2, <1>3, <1>5, StructEq DEF x, r, p

\* A frame of a host stream is sent unless its payload is not JSON, and arrives as said.
LEMMA FrameBack ==
    ASSUME NEW v, WithPayload(v, HostStreamFrame)
    PROVE  /\ frameToProto(v) = Nil <=> HasFunc(v.Payload)
           /\ frameToProto(v) # Nil => frameFromProto(frameToProto(v)[1]) = Expected("Frame", v)
<1> DEFINE F == {"Event", "Status", "Metadata", "Done"}
<1>1. /\ IsStruct(v, F \cup {"Payload"}) /\ IsPayload(v.Payload)
      /\ Expected("Frame", v) = [v EXCEPT !.Payload = AsFloat(v.Payload)]
  BY DEF WithPayload, HostStreamFrame, Expected
<1>2. frameToProto(v) = IF HasFunc(v.Payload) THEN Nil ELSE <<JsonTo(v, F)>>
  BY <1>1, PayloadBack DEF frameToProto, JsonTo
<1>3. \A p : frameFromProto(p) = JsonFrom(p, F)
  BY DEF frameFromProto, JsonFrom
<1>4. "Payload" \notin F
  OBVIOUS
<1> HIDE DEF F
<1>5. JsonFrom(JsonTo(v, F), F) = [v EXCEPT !.Payload = AsFloat(v.Payload)]
  BY <1>1, <1>4, JsonBack
<1> QED
  BY <1>1, <1>2, <1>3, <1>5 DEF Nil

\* So is a request to the Host, first frame of a stream or not,
LEMMA InvokeBack ==
    ASSUME NEW v, WithPayload(v, HostInvokeRequest), NEW k \in {"Invoke", "OpenStream"}
    PROVE  /\ toProto(k, v) = Nil <=> HasFunc(v.Payload)
           /\ toProto(k, v) # Nil => hostReads(toProto(k, v)[1]) = Expected(k, v)
<1> DEFINE F == {"Method", "IdempotencyKey", "Metadata"}
<1>1. /\ IsStruct(v, F \cup {"Payload"}) /\ IsPayload(v.Payload)
      /\ Expected(k, v) = [v EXCEPT !.Payload = AsFloat(v.Payload)]
  BY DEF WithPayload, HostInvokeRequest, Expected
<1>2. toProto(k, v) = IF HasFunc(v.Payload) THEN Nil ELSE <<JsonTo(v, F)>>
  BY <1>1, PayloadBack DEF toProto, invokeToProto, openStreamToProto, JsonTo
<1>3. \A p : hostReads(p) = JsonFrom(p, F)
  BY DEF hostReads, JsonFrom
<1>4. "Payload" \notin F
  OBVIOUS
<1> HIDE DEF F
<1>5. JsonFrom(JsonTo(v, F), F) = [v EXCEPT !.Payload = AsFloat(v.Payload)]
  BY <1>1, <1>4, JsonBack
<1> QED
  BY <1>1, <1>2, <1>3, <1>5 DEF Nil

\* and the Host's answer.
LEMMA AnswerBack ==
    ASSUME NEW v, WithPayload(v, HostInvokeResponse)
    PROVE  /\ hostAnswers(v) = Nil <=> HasFunc(v.Payload)
           /\ hostAnswers(v) # Nil =>
                  invokeFromProto(hostAnswers(v)[1]) = Expected("InvokeAnswer", v)
<1> DEFINE F == {"Status", "Metadata"}
<1>1. /\ IsStruct(v, F \cup {"Payload"}) /\ IsPayload(v.Payload)
      /\ Expected("InvokeAnswer", v) = [v EXCEPT !.Payload = AsFloat(v.Payload)]
  BY DEF WithPayload, HostInvokeResponse, Expected
<1>2. hostAnswers(v) = IF HasFunc(v.Payload) THEN Nil ELSE <<JsonTo(v, F)>>
  BY <1>1, PayloadBack DEF hostAnswers, JsonTo
<1>3. \A p : invokeFromProto(p) = JsonFrom(p, F)
  BY DEF invokeFromProto, JsonFrom
<1>4. "Payload" \notin F
  OBVIOUS
<1> HIDE DEF F
<1>5. JsonFrom(JsonTo(v, F), F) = [v EXCEPT !.Payload = AsFloat(v.Payload)]
  BY <1>1, <1>4, JsonBack
<1> QED
  BY <1>1, <1>2, <1>3, <1>5 DEF Nil

\* A task survives, with no input when the input is not JSON.
LEMMA TaskBack ==
    ASSUME NEW t, IsStruct(t, HostTask), IsPayload(t.Input)
    PROVE  taskFromProto(coreSendsTask(t)) = Expected("Task", t)
<1> DEFINE F == {"ID", "TaskType", "UserID"}
           p == coreSendsTask(t)
           r == taskFromProto(p)
           x == Expected("Task", t)
           input == IF HasFunc(t.Input) THEN Empty ELSE AsFloat(t.Input)
<1>1. /\ p.Input = (IF Encodable(t.Input) THEN mapToJSONPayload(t.Input) ELSE Empty)
      /\ \A f \in F : p[f] = t[f]
  BY DEF coreSendsTask, Copy, @@
<1> HIDE DEF p
<1>2. /\ IsStruct(r, F \cup {"Input"}) /\ r.Input = jsonPayloadToMap(p.Input)
      /\ \A f \in F : r[f] = p[f]
  BY DEF taskFromProto, IsStruct, Copy, @@
<1>3. jsonPayloadToMap(Empty) = Empty
  BY DEF jsonPayloadToMap, Empty
<1>4. r.Input = input
  <2> HIDE DEF r
  <2> QED BY <1>1, <1>2, <1>3, PayloadBack
<1>5. /\ IsStruct(x, F \cup {"Input"}) /\ x.Input = input
      /\ \A f \in F : x[f] = t[f]
  BY DEF Expected, IsStruct, HostTask
<1> HIDE DEF x, r
<1>6. \A f \in F \cup {"Input"} : r[f] = x[f]
  BY <1>1, <1>2, <1>4, <1>5
<1> QED
  BY <1>2, <1>5, <1>6, StructEq DEF r, p, x

\* Init takes the log level out of the configuration, and nothing else.
LEMMA InitBack ==
    ASSUME NEW c
    PROVE  initFromProto(initToProto(c)) = Expected("Init", c)
  BY DEF initFromProto, initToProto, Expected

\* A request ID survives the metadata of the RPC, the empty one as none.
LEMMA RequestIDBack ==
    ASSUME NEW id
    PROVE  injectRequestIDFromIncoming(appendRequestIDToOutgoing(id)) = id
  BY DEF injectRequestIDFromIncoming, appendRequestIDToOutgoing, Empty

\* A time is Nil or a number of units since 1970.
TimeOf(time) == IF time = Nil \/ time[1] < PerMs THEN Nil ELSE <<WholeMs(time[1])>>

\* UnixMilli and back: part of a millisecond, and a time before the first one, are lost.
LEMMA TimeBack ==
    ASSUME NEW time, IsPointer(time, LAMBDA t : t \in Int),
           NEW ms, ms = IF time = Nil THEN 0 ELSE time[1] \div PerMs
    PROVE  (IF ms > 0 THEN <<Duration(ms)>> ELSE Nil) = TimeOf(time)
<1>1. CASE time = Nil
  BY <1>1 DEF TimeOf
<1>2. CASE time # Nil
  <2>1. time[1] \in Int /\ ms = time[1] \div PerMs
    BY <1>2 DEF IsPointer
  <2>2. ms \in Int /\ (ms > 0 <=> time[1] >= PerMs)
    BY <2>1, WireAssumption
  <2>3. time[1] >= PerMs => Duration(ms) = WholeMs(time[1])
    BY <2>1, WholePart, WireAssumption DEF Duration, WholeMs
  <2> QED
    BY <1>2, <2>1, <2>2, <2>3, WireAssumption DEF TimeOf
<1> QED BY <1>1, <1>2

\* An event is sent unless its payload is not JSON, and arrives as said.
LEMMA EventBack ==
    ASSUME NEW e, IsEvent(e)
    PROVE  /\ eventToProto(e) = Nil <=> HasFunc(e.Payload)
           /\ eventToProto(e) # Nil =>
                  eventFromProto(eventToProto(e)[1]) = Expected("Event", e)
<1> DEFINE F == {"ID", "Type", "Source", "Subject", "UserID", "GroupID", "Metadata"}
           ms == IF e.OccurredAt = Nil THEN 0 ELSE e.OccurredAt[1] \div PerMs
           p == Copy(e, F) @@ [Payload |-> mapToJSONPayload(e.Payload), OccurredAt |-> ms]
           r == eventFromProto(p)
           x == Expected("Event", e)
<1>1. /\ IsStruct(e, PluginEvent) /\ IsPayload(e.Payload)
      /\ IsPointer(e.OccurredAt, LAMBDA t : t \in Int)
  BY DEF IsEvent
<1>2. eventToProto(e) = IF HasFunc(e.Payload) THEN Nil ELSE <<p>>
  BY <1>1, PayloadBack DEF eventToProto
<1> DEFINE back == IF ms > 0 THEN <<Duration(ms)>> ELSE Nil
<1>3. back = TimeOf(e.OccurredAt)
  BY <1>1, TimeBack
<1> HIDE DEF ms
<1>4. /\ p.Payload = mapToJSONPayload(e.Payload) /\ p.OccurredAt = ms
      /\ \A f \in F : p[f] = e[f]
  BY DEF Copy, @@
<1> HIDE DEF p
<1>5. /\ IsStruct(r, F \cup {"Payload", "OccurredAt"}) /\ \A f \in F : r[f] = p[f]
      /\ r.Payload = jsonPayloadToMap(p.Payload)
      /\ r.OccurredAt = IF p.OccurredAt > 0 THEN <<Duration(p.OccurredAt)>> ELSE Nil
  BY DEF eventFromProto, IsStruct, Copy, @@
<1> HIDE DEF r
<1>6. r.Payload = AsFloat(e.Payload)
  BY <1>1, <1>4, <1>5, PayloadBack
<1>7. r.OccurredAt = TimeOf(e.OccurredAt)
  BY <1>3, <1>4, <1>5
<1>8. /\ IsStruct(x, PluginEvent) /\ x.Payload = AsFloat(e.Payload)
      /\ x.OccurredAt = TimeOf(e.OccurredAt)
      /\ \A f \in F : x[f] = e[f]
  BY <1>1 DEF Expected, IsStruct, PluginEvent, TimeOf
<1>9. F \cup {"Payload", "OccurredAt"} = PluginEvent
  BY DEF PluginEvent
<1> HIDE DEF x
<1>10. \A f \in F \cup {"Payload", "OccurredAt"} : r[f] = x[f]
  BY <1>4, <1>5, <1>6, <1>7, <1>8
<1>11. r = x
  BY <1>5, <1>8, <1>9, <1>10, StructEq
<1> QED
  BY <1>2, <1>11 DEF r, x, Nil

\* The kinds that are refused when their payload is not JSON.
JsonKinds == {"Event", "Frame", "Invoke", "OpenStream", "InvokeAnswer"}

\* What crossing the boundary does to any value of any kind.
LEMMA RoundTrip ==
    ASSUME NEW k \in Kinds, NEW v, IsValue(k, v)
    PROVE  /\ toProto(k, v) = Nil <=> k \in JsonKinds /\ HasFunc(v.Payload)
           /\ toProto(k, v) # Nil => fromProto(k, toProto(k, v)[1]) = Expected(k, v)
<1> DEFINE Goal == /\ toProto(k, v) = Nil <=> k \in JsonKinds /\ HasFunc(v.Payload)
                   /\ toProto(k, v) # Nil => fromProto(k, toProto(k, v)[1]) = Expected(k, v)
           Simple(p) == toProto(k, v) = <<p>> /\ fromProto(k, p) = Expected(k, v)
<1> SUFFICES Goal
  OBVIOUS
<1>0. ASSUME k \notin JsonKinds, NEW p, Simple(p) PROVE Goal
  BY <1>0 DEF Nil
<1> HIDE DEF Goal
<1>1. CASE k = "Info"
  <2>1. Simple(GetInfo(v))
    BY <1>1, InfoBack DEF IsValue, toProto, fromProto, Expected
  <2> QED BY <1>0, <1>1, <2>1 DEF JsonKinds
<1>2. CASE k = "Models"
  <2>1. Simple(GetModels(v))
    BY <1>2, ModelsBack DEF IsValue, toProto, fromProto, Expected
  <2> QED BY <1>0, <1>2, <2>1 DEF JsonKinds
<1>3. CASE k = "Routes"
  <2>1. Simple(GetRoutes(v))
    BY <1>3, RoutesBack DEF IsValue, toProto, fromProto, Expected
  <2> QED BY <1>0, <1>3, <2>1 DEF JsonKinds
<1>4. CASE k = "Tasks"
  <2>1. Simple(GetBackgroundTasks(v))
    BY <1>4, TasksBack DEF IsValue, toProto, fromProto
  <2> QED BY <1>0, <1>4, <2>1 DEF JsonKinds
<1>5. CASE k = "Schema"
  <2>1. Simple(schemaToProto(v))
    BY <1>5, SchemaBack DEF IsValue, toProto, fromProto, Expected
  <2> QED BY <1>0, <1>5, <2>1 DEF JsonKinds
<1>6. CASE k = "Assets"
  <2>1. Simple(GetWebAssets(v))
    BY <1>6, AssetsBack DEF IsValue, toProto, fromProto, Expected
  <2> QED BY <1>0, <1>6, <2>1 DEF JsonKinds
<1>7. CASE k = "Subscription"
  <2>1. Simple(subscriptionToProto(v))
    BY <1>7, SubscriptionBack DEF IsValue, toProto, fromProto, Expected
  <2> QED BY <1>0, <1>7, <2>1 DEF JsonKinds
<1>8. CASE k = "Outcome"
  <2>1. Simple(outcomeToProto(v))
    BY <1>8, OutcomeBack DEF IsValue, toProto, fromProto
  <2> QED BY <1>0, <1>8, <2>1 DEF JsonKinds
<1>9. CASE k = "Decision"
  <2>1. Simple(middlewareDecisionToProto(v))
    BY <1>9, DecisionBack DEF IsValue, toProto, fromProto, Expected
  <2> QED BY <1>0, <1>9, <2>1 DEF JsonKinds
<1>10. CASE k = "Forward"
  <2>1. Simple(buildProtoRequest(v))
    BY <1>10, RequestBack DEF IsValue, toProto, fromProto, Expected
  <2> QED BY <1>0, <1>10, <2>1 DEF JsonKinds
<1>11. CASE k = "ForwardStream"
  <2>1. Simple(buildProtoRequest(v))
    BY <1>11, RequestBack DEF IsValue, toProto, fromProto, Expected
  <2> QED BY <1>0, <1>11, <2>1 DEF JsonKinds
<1>12. CASE k = "Connect"
  <2>1. Simple(connectInfoToProto(v))
    BY <1>12, ConnectBack DEF IsValue, toProto, fromProto, Expected
  <2> QED BY <1>0, <1>12, <2>1 DEF JsonKinds
<1>13. CASE k = "Event"
  <2>1. IsEvent(v) /\ toProto(k, v) = eventToProto(v)
    BY <1>13 DEF IsValue, toProto
  <2>2. \A p : fromProto(k, p) = eventFromProto(p)
    BY <1>13 DEF fromProto
  <2> QED BY <1>13, <2>1, <2>2, EventBack DEF Goal, JsonKinds
<1>14. CASE k = "MiddlewareRequest"
  <2>1. Simple(middlewareRequestToProto(v))
    BY <1>14, MiddlewareRequestBack DEF IsValue, toProto, fromProto, Expected
  <2> QED BY <1>0, <1>14, <2>1 DEF JsonKinds
<1>15. CASE k = "MiddlewareEvent"
  <2>1. Simple(middlewareEventToProto(v))
    BY <1>15, MiddlewareEventBack DEF IsValue, toProto, fromProto
  <2> QED BY <1>0, <1>15, <2>1 DEF JsonKinds
<1>16. CASE k = "HttpRequest"
  <2>1. Simple(httpRequestToProto(v))
    BY <1>16, HttpRequestBack DEF IsValue, toProto, fromProto, Expected
  <2> QED BY <1>0, <1>16, <2>1 DEF JsonKinds
<1>17. CASE k = "Frame"
  <2>1. WithPayload(v, HostStreamFrame) /\ toProto(k, v) = frameToProto(v)
    BY <1>17 DEF IsValue, toProto
  <2>2. \A p : fromProto(k, p) = frameFromProto(p)
    BY <1>17 DEF fromProto
  <2> QED BY <1>17, <2>1, <2>2, FrameBack DEF Goal, JsonKinds
<1>18. CASE k \in {"Invoke", "OpenStream"}
  <2>1. WithPayload(v, HostInvokeRequest)
    BY <1>18 DEF IsValue
  <2>2. \A p : fromProto(k, p) = hostReads(p)
    BY <1>18 DEF fromProto
  <2> QED BY <1>18, <2>1, <2>2, InvokeBack DEF Goal, JsonKinds
<1>19. CASE k = "InvokeAnswer"
  <2>1. WithPayload(v, HostInvokeResponse) /\ toProto(k, v) = hostAnswers(v)
    BY <1>19 DEF IsValue, toProto
  <2>2. \A p : fromProto(k, p) = invokeFromProto(p)
    BY <1>19 DEF fromProto
  <2> QED BY <1>19, <2>1, <2>2, AnswerBack DEF Goal, JsonKinds
<1>20. CASE k = "Task"
  <2>1. Simple(coreSendsTask(v))
    BY <1>20, TaskBack DEF IsValue, toProto, fromProto
  <2> QED BY <1>0, <1>20, <2>1 DEF JsonKinds
<1>21. CASE k = "Init"
  <2>1. Simple(initToProto(v))
    BY <1>21, InitBack DEF toProto, fromProto
  <2> QED BY <1>0, <1>21, <2>1 DEF JsonKinds
<1>22. CASE k = "UpdateConfig"
  <2>1. Simple(updateToProto(v))
    BY <1>22 DEF toProto, fromProto, Expected, updateToProto, updateFromProto
  <2> QED BY <1>0, <1>22, <2>1 DEF JsonKinds
<1>23. CASE k = "RequestID"
  <2>1. Simple(appendRequestIDToOutgoing(v))
    BY <1>23, RequestIDBack DEF toProto, fromProto, Expected
  <2> QED BY <1>0, <1>23, <2>1 DEF JsonKinds
<1> QED
  BY <1>1, <1>2, <1>3, <1>4, <1>5, <1>6, <1>7, <1>8, <1>9, <1>10, <1>11, <1>12, <1>13, <1>14,
     <1>15, <1>16, <1>17, <1>18, <1>19, <1>20, <1>21, <1>22, <1>23 DEF Kinds

-----------------------------------------------------------------------------
(* The states: what is on the wire, and what has arrived. *)

\* What is on the wire is the encoding of a value of its kind.
Crossing ==
    /\ phase \in {"idle", "sent", "failed", "received", "admitted"}
    /\ phase = "idle" => kind = "none" /\ origin = Nil
    /\ phase # "idle" => /\ kind \in Kinds /\ IsValue(kind, sent)
                         /\ wire = toProto(kind, sent)
                         /\ phase = "failed" <=> wire = Nil

\* What Core passes on has the usage of the verdict it comes from.
Carried == origin # Nil => kind = "MiddlewareEvent" /\ sent.Usage = origin[1].Usage

\* What has arrived is what was expected.
Arrived == phase \in {"received", "admitted"} => received = Expected(kind, sent)

\* A plugin is admitted by its own declarations, as it sent them.
Admission ==
    phase = "admitted" =>
        /\ kind = "Info"
        /\ admitted = [Plans |-> NormalizeAccountPlans(sent.AccountPlans),
                       Capabilities |-> ValidateCapabilities(sent.Type, sent.Capabilities)]

\* The inductive invariant.
IInv == Crossing /\ Carried /\ Arrived /\ Admission

\* The initial state satisfies the invariant.
LEMMA InitInv == Init => IInv
  BY DEF Init, IInv, Crossing, Carried, Arrived, Admission

\* Encoding a value of its kind leads to a state of the invariant.
LEMMA EncodeInv ==
    ASSUME NEW k \in Kinds, NEW v, IsValue(k, v), Encode(k, v),
           origin' # Nil => k = "MiddlewareEvent" /\ v.Usage = origin'[1].Usage
    PROVE  IInv'
<1>1. kind' = k /\ sent' = v /\ wire' = toProto(k, v)
  BY DEF Encode
<1>2. phase' = IF wire' = Nil THEN "failed" ELSE "sent"
  BY DEF Encode
<1>3. Crossing'
  BY <1>1, <1>2 DEF Crossing
<1>4. Carried'
  BY <1>1 DEF Carried
<1>5. Arrived' /\ Admission'
  BY <1>2 DEF Arrived, Admission
<1> QED
  BY <1>3, <1>4, <1>5 DEF IInv

\* The event that reports a verdict is a value of its kind, with the verdict's usage.
LEMMA ReportInv == IInv /\ Report => IInv'
<1> SUFFICES ASSUME IInv, Report PROVE IInv'
  OBVIOUS
<1> DEFINE v == [f \in MiddlewareEvent |->
                  CASE f = "Usage" -> received.Usage
                    [] f = "Duration" -> received.Duration
                    [] f = "StatusCode" -> received.Upstream.StatusCode
                    [] f = "ResponseHeaders" -> received.Upstream.Headers
                    [] OTHER -> Zero]
<1>1. phase = "received" /\ kind = "Outcome" /\ Encode("MiddlewareEvent", v) /\ origin' = <<sent>>
  BY DEF Report
<1>2. received = Expected("Outcome", sent) /\ IsOutcome(sent)
  BY <1>1 DEF IInv, Crossing, Arrived, IsValue
<1>3. /\ received.Usage = sent.Usage /\ received.Duration = WholeMs(sent.Duration)
      /\ received.Upstream = sent.Upstream
  BY <1>2 DEF Expected, IsOutcome, IsStruct, ForwardOutcome
<1>4. /\ v.Usage = sent.Usage /\ v.Duration = WholeMs(sent.Duration)
      /\ v.StatusCode = sent.Upstream.StatusCode
      /\ v.ResponseHeaders = sent.Upstream.Headers
      /\ IsStruct(v, MiddlewareEvent)
  BY <1>3 DEF MiddlewareEvent, IsStruct
<1>5. WholeMs(sent.Duration) \in Int
  BY <1>2, WireAssumption DEF WholeMs, IsOutcome
<1> HIDE DEF v
<1>6. IsMiddlewareEvent(v)
  BY <1>2, <1>4, <1>5 DEF IsMiddlewareEvent, IsOutcome, IsUpstream
<1>7. "MiddlewareEvent" \in Kinds /\ IsValue("MiddlewareEvent", v)
  BY <1>6 DEF Kinds, IsValue
<1>8. v.Usage = origin'[1].Usage
  BY <1>1, <1>4
<1> QED
  BY <1>1, <1>7, <1>8, EncodeInv

\* Every step preserves the invariant.
LEMMA NextInv == IInv /\ [Next]_vars => IInv'
<1> SUFFICES ASSUME IInv, [Next]_vars PROVE IInv'
  OBVIOUS
<1>1. ASSUME NEW k \in DOMAIN Inputs, NEW v \in Inputs[k], Send(k, v) PROVE IInv'
  <2>1. k \in Kinds /\ IsValue(k, v)
    BY BoundaryAssumption
  <2>2. Encode(k, v) /\ phase = "idle" /\ origin' = origin
    BY <1>1 DEF Send
  <2>3. origin' = Nil
    BY <2>2 DEF IInv, Crossing
  <2> QED
    BY <2>1, <2>2, <2>3, EncodeInv
<1>2. CASE Receive
  <2>1. /\ phase = "sent" /\ phase' = "received" /\ received' = fromProto(kind, wire[1])
        /\ UNCHANGED <<kind, sent, wire, origin, admitted>>
    BY <1>2 DEF Receive
  <2>2. kind \in Kinds /\ IsValue(kind, sent) /\ wire = toProto(kind, sent) /\ wire # Nil
    BY <2>1 DEF IInv, Crossing
  <2>3. received' = Expected(kind, sent)
    BY <2>1, <2>2, RoundTrip
  <2>4. Crossing'
    BY <2>1, <2>2 DEF Crossing
  <2>5. Carried'
    BY <2>1 DEF IInv, Carried
  <2>6. Arrived'
    BY <2>1, <2>3 DEF Arrived
  <2>7. Admission'
    BY <2>1 DEF Admission
  <2> QED
    BY <2>4, <2>5, <2>6, <2>7 DEF IInv
<1>3. CASE Report
  BY <1>3, ReportInv
<1>4. CASE Admit
  <2>1. /\ phase = "received" /\ kind = "Info" /\ phase' = "admitted"
        /\ UNCHANGED <<kind, sent, wire, received, origin>>
    BY <1>4 DEF Admit
  <2>2. admitted' = [Plans |-> NormalizeAccountPlans(received.AccountPlans),
                     Capabilities |-> ValidateCapabilities(received.Type, received.Capabilities)]
    BY <1>4 DEF Admit
  <2>3. received = sent
    BY <2>1 DEF IInv, Arrived, Expected
  <2>4. Crossing'
    BY <2>1 DEF IInv, Crossing
  <2>5. Carried'
    BY <2>1 DEF IInv, Carried
  <2>6. Arrived'
    BY <2>1 DEF IInv, Arrived
  <2>7. Admission'
    BY <2>1, <2>2, <2>3 DEF Admission
  <2> QED
    BY <2>4, <2>5, <2>6, <2>7 DEF IInv
<1>5. CASE Done
  BY <1>5 DEF Done, IInv, Crossing, Carried, Arrived, Admission
<1>6. CASE UNCHANGED vars
  BY <1>6 DEF vars, IInv, Crossing, Carried, Arrived, Admission
<1> QED
  BY <1>1, <1>2, <1>3, <1>4, <1>5, <1>6 DEF Next

\* The inductive invariant: a message on the wire is what the sender's value encodes to,
\* an arrived one is the value expected, and an admission is made of the plugin's own
\* declarations.
THEOREM Invariance == Spec => []IInv
  BY InitInv, NextInv, PTL DEF Spec

\* The invariant is enough for Faithful.
LEMMA InvFaithful == IInv => Faithful
<1> SUFFICES ASSUME IInv PROVE Faithful
  OBVIOUS
<1>1. ASSUME phase \in {"received", "admitted"}, origin # Nil
      PROVE  received.Usage = origin[1].Usage
  <2>1. /\ kind = "MiddlewareEvent" /\ sent.Usage = origin[1].Usage
        /\ received = Expected("MiddlewareEvent", sent) /\ IsMiddlewareEvent(sent)
    BY <1>1 DEF IInv, Carried, Arrived, Crossing, IsValue
  <2>2. received.Usage = sent.Usage
    BY <2>1 DEF Expected, IsMiddlewareEvent, IsStruct, MiddlewareEvent
  <2> QED
    BY <2>1, <2>2
<1>2. phase \in {"received", "admitted"} => received = Expected(kind, sent)
  BY DEF IInv, Arrived
<1>3. phase = "failed" <=> kind \in JsonKinds /\ HasFunc(sent.Payload)
  <2>1. CASE phase = "idle"
    BY <2>1 DEF IInv, Crossing, JsonKinds
  <2>2. CASE phase # "idle"
    <3>1. /\ kind \in Kinds /\ IsValue(kind, sent) /\ wire = toProto(kind, sent)
          /\ phase = "failed" <=> wire = Nil
      BY <2>2 DEF IInv, Crossing
    <3> QED
      BY <3>1, RoundTrip
  <2> QED BY <2>1, <2>2
<1> QED
  BY <1>1, <1>2, <1>3 DEF Faithful, JsonKinds

\* Whatever the values sent, the receiver of a message has the value the sender sent, but
\* for what the format cannot hold, and a message is refused only for a payload that is
\* not JSON: the conversions of the gRPC layer, in every pair of directions.
THEOREM MessagesFaithful == Spec => []Faithful
  BY Invariance, InvFaithful, PTL

-----------------------------------------------------------------------------
(* Lists in order: Pick, Distinct and sorted. *)

\* The members of S that ord places at c or before.
Below(S, ord, c) == {d \in S : ord[d] <= ord[c]}

\* The member of S that ord places at n.
At(S, ord, n) == CHOOSE c \in S : Cardinality(Below(S, ord, c)) = n

\* An order without ties numbers the members of a finite set from 1, and leaves no number out.
LEMMA Ranked ==
    ASSUME NEW S, IsFiniteSet(S), NEW ord, \A c \in S : ord[c] \in Int,
           \A c, d \in S : ord[c] = ord[d] => c = d
    PROVE  /\ \A c \in S : Cardinality(Below(S, ord, c)) \in 1..Cardinality(S)
           /\ \A c, d \in S :
                ord[c] < ord[d] => Cardinality(Below(S, ord, c)) < Cardinality(Below(S, ord, d))
           /\ \A n \in 1..Cardinality(S) : \E c \in S : Cardinality(Below(S, ord, c)) = n
<1> DEFINE N == Cardinality(S)
           r == [c \in S |-> Cardinality(Below(S, ord, c))]
<1>1. N \in Nat
  BY FS_CardinalityType
<1>2. \A c \in S : IsFiniteSet(Below(S, ord, c)) /\ r[c] \in Nat /\ r[c] <= N
  <2> TAKE c \in S
  <2>1. Below(S, ord, c) \in SUBSET S
    BY DEF Below
  <2>2. IsFiniteSet(Below(S, ord, c)) /\ Cardinality(Below(S, ord, c)) <= N
    BY <2>1, FS_Subset
  <2> QED
    BY <2>2, FS_CardinalityType
<1>3. \A c \in S : r[c] \in 1..N
  <2> TAKE c \in S
  <2>1. c \in Below(S, ord, c)
    BY DEF Below
  <2>2. r[c] # 0
    BY <1>2, <2>1, FS_EmptySet
  <2> QED
    BY <1>1, <1>2, <2>2
<1>4. \A c, d \in S : ord[c] < ord[d] => r[c] < r[d]
  <2> SUFFICES ASSUME NEW c \in S, NEW d \in S, ord[c] < ord[d] PROVE r[c] < r[d]
    OBVIOUS
  <2>1. Below(S, ord, c) \in SUBSET Below(S, ord, d)
    BY DEF Below
  <2>2. d \in Below(S, ord, d) /\ d \notin Below(S, ord, c)
    BY DEF Below
  <2>3. /\ Cardinality(Below(S, ord, c)) <= Cardinality(Below(S, ord, d))
        /\ Cardinality(Below(S, ord, c)) # Cardinality(Below(S, ord, d))
    BY <1>2, <2>1, <2>2, FS_Subset
  <2> QED
    BY <1>2, <2>3
<1>5. \A c, d \in S : r[c] = r[d] => c = d
  <2> SUFFICES ASSUME NEW c \in S, NEW d \in S, r[c] = r[d] PROVE c = d
    OBVIOUS
  <2>1. r[c] \in Nat /\ r[d] \in Nat
    BY <1>2
  <2>2. ~(ord[c] < ord[d]) /\ ~(ord[d] < ord[c])
    BY <1>4, <2>1
  <2> QED
    BY <2>2
<1>6. r \in Injection(S, 1..N)
  <2>1. r \in [S -> 1..N] /\ DOMAIN r = S
    BY <1>3
  <2> HIDE DEF r, N
  <2> QED
    BY <1>5, <2>1 DEF Injection, IsInjective
<1>7. IsFiniteSet(1..N) /\ Cardinality(1..N) = N
  BY <1>1, IntervalSize
<1>8. r \in Surjection(S, 1..N)
  BY <1>6, <1>7, FS_Injection
<1>9. \A n \in 1..N : \E c \in S : r[c] = n
  BY <1>8 DEF Surjection
<1> QED
  BY <1>3, <1>4, <1>9

\* At lists the members of a finite set in order, each once.
LEMMA RankedAt ==
    ASSUME NEW S, IsFiniteSet(S), NEW ord, \A c \in S : ord[c] \in Int,
           \A c, d \in S : ord[c] = ord[d] => c = d
    PROVE  /\ \A n \in 1..Cardinality(S) : At(S, ord, n) \in S
           /\ \A n, m \in 1..Cardinality(S) :
                n < m => ord[At(S, ord, n)] < ord[At(S, ord, m)]
           /\ \A c \in S : \E n \in 1..Cardinality(S) : At(S, ord, n) = c
<1> DEFINE N == Cardinality(S)
           at(n) == At(S, ord, n)
           r(c) == Cardinality(Below(S, ord, c))
<1>1. /\ \A c \in S : r(c) \in 1..N
      /\ \A c, d \in S : ord[c] < ord[d] => r(c) < r(d)
      /\ \A n \in 1..N : \E c \in S : r(c) = n
  BY Ranked
<1>2. \A n \in 1..N : at(n) \in S /\ r(at(n)) = n
  <2> TAKE n \in 1..N
  <2>1. \E c \in S : r(c) = n
    BY <1>1
  <2> QED
    BY <2>1 DEF At
<1>3. N \in Nat
  BY FS_CardinalityType
<1> HIDE DEF at, r, N
<1>4. \A c, d \in S : r(c) = r(d) => c = d
  <2> SUFFICES ASSUME NEW c \in S, NEW d \in S, r(c) = r(d) PROVE c = d
    OBVIOUS
  <2>1. ~(ord[c] < ord[d]) /\ ~(ord[d] < ord[c]) /\ ord[c] \in Int /\ ord[d] \in Int
    BY <1>1, <1>3
  <2> QED
    BY <2>1
<1>5. \A n, m \in 1..N : n < m => ord[at(n)] < ord[at(m)]
  <2> SUFFICES ASSUME NEW n \in 1..N, NEW m \in 1..N, n < m PROVE ord[at(n)] < ord[at(m)]
    OBVIOUS
  <2>1. at(n) \in S /\ at(m) \in S /\ r(at(n)) = n /\ r(at(m)) = m
    BY <1>2
  <2>2. ord[at(n)] \in Int /\ ord[at(m)] \in Int
    BY <2>1
  <2>3. ~(ord[at(m)] < ord[at(n)])
    BY <1>1, <1>3, <2>1
  <2>4. ord[at(n)] # ord[at(m)]
    BY <1>3, <2>1
  <2> QED
    BY <2>2, <2>3, <2>4
<1>6. \A c \in S : \E n \in 1..N : at(n) = c
  <2> TAKE c \in S
  <2>1. r(c) \in 1..N
    BY <1>1
  <2>2. at(r(c)) \in S /\ r(at(r(c))) = r(c)
    BY <1>2, <2>1
  <2>3. at(r(c)) = c
    BY <1>4, <2>2
  <2> QED
    BY <2>1, <2>3
<1> QED
  BY <1>2, <1>5, <1>6 DEF at, N

\* at lists the N positions in S in increasing order, and t is what s has there.
Picked(s, S, t, N, at) ==
    /\ N \in Nat /\ at \in [1..N -> S]
    /\ t = [k \in 1..N |-> s[at[k]]]
    /\ \A k, l \in 1..N : k < l => at[k] < at[l]
    /\ \A i \in S : \E k \in 1..N : at[k] = i

\* Picking keeps the order, and takes every position once.
LEMMA PickAt ==
    ASSUME NEW s, NEW n \in Nat, NEW S \in SUBSET (1..n)
    PROVE  \E N, at : Picked(s, S, Pick(s, S), N, at)
<1> DEFINE N == Cardinality(S)
           ord == [i \in S |-> i]
           at == [k \in 1..N |-> At(S, ord, k)]
<1>1. IsFiniteSet(S) /\ N \in Nat
  BY IntervalSize, FS_Subset, FS_CardinalityType
<1>2. /\ \A c \in S : ord[c] \in Int /\ ord[c] = c
      /\ \A c, d \in S : ord[c] = ord[d] => c = d
  OBVIOUS
<1>3. \A i \in S : Below(S, ord, i) = {j \in S : j <= i}
  BY DEF Below
<1> DEFINE pick(k) == CHOOSE i \in S : Cardinality({j \in S : j <= i}) = k
<1>4. \A k \in 1..N : At(S, ord, k) = pick(k)
  <2> HIDE DEF ord
  <2> QED BY <1>3 DEF At
<1>a. Pick(s, S) = [k \in 1..N |-> s[pick(k)]]
  BY DEF Pick
<1> HIDE DEF ord, pick, N
<1>5. /\ \A k \in 1..N : At(S, ord, k) \in S
      /\ \A k, l \in 1..N : k < l => ord[At(S, ord, k)] < ord[At(S, ord, l)]
      /\ \A i \in S : \E k \in 1..N : At(S, ord, k) = i
  BY <1>1, <1>2, RankedAt DEF N
<1>6. Pick(s, S) = [k \in 1..N |-> s[at[k]]]
  BY <1>4, <1>a
<1>7. /\ at \in [1..N -> S]
      /\ \A k, l \in 1..N : k < l => at[k] < at[l]
      /\ \A i \in S : \E k \in 1..N : at[k] = i
  BY <1>2, <1>5
<1> HIDE DEF at
<1>8. Picked(s, S, Pick(s, S), N, at)
  BY <1>1, <1>6, <1>7 DEF Picked, N
<1> QED
  BY <1>8

\* Distinct changes nothing in a list without repetitions.
LEMMA NoRepeats ==
    ASSUME NEW t, t \in Seq({t[i] : i \in DOMAIN t}),
           \A i, j \in DOMAIN t : t[i] = t[j] => i = j
    PROVE  Distinct(t) = t /\ Cardinality(Elements(t)) = Len(t)
<1>1. Len(t) \in Nat /\ DOMAIN t = 1..Len(t) /\ t = [i \in 1..Len(t) |-> t[i]]
  BY LenProperties, SMT
<1>2. {i \in DOMAIN t : \A j \in 1..(i - 1) : t[j] # t[i]} = DOMAIN t
  <2> SUFFICES ASSUME NEW i \in DOMAIN t, NEW j \in 1..(i - 1) PROVE t[j] # t[i]
    OBVIOUS
  <2>1. j \in DOMAIN t /\ j # i
    BY <1>1
  <2> QED
    BY <2>1
<1>3. Distinct(t) = Pick(t, DOMAIN t)
  BY <1>2, Zenon DEF Distinct
<1>4. Distinct(t) = t
  BY <1>3, PickAll
<1>5. t \in Bijection(1..Len(t), Elements(t))
  <2>1. t \in [1..Len(t) -> Elements(t)]
    BY <1>1 DEF Elements
  <2>2. IsInjective(t)
    BY DEF IsInjective
  <2>3. \A v \in Elements(t) : \E i \in 1..Len(t) : t[i] = v
    BY <1>1 DEF Elements
  <2> QED
    BY <2>1, <2>2, <2>3 DEF Bijection, Injection, Surjection
<1>6. Cardinality(Elements(t)) = Cardinality(1..Len(t)) /\ Cardinality(1..Len(t)) = Len(t)
  <2>1. IsFiniteSet(1..Len(t)) /\ Cardinality(1..Len(t)) = Len(t)
    BY <1>1, IntervalSize
  <2>2. ExistsBijection(1..Len(t), Elements(t))
    BY <1>5 DEF ExistsBijection
  <2> QED
    BY <2>1, <2>2, FS_Bijection
<1> QED
  BY <1>4, <1>6

\* s has at k what it has at i, and had it at no position before.
IsFirst(s, k, i) == s[k] = s[i] /\ \A j \in 1..(k - 1) : s[j] # s[k]

\* Every element of a list has a first occurrence.
LEMMA FirstOccurrence ==
    ASSUME NEW s, NEW n \in Nat, NEW i \in 1..n
    PROVE  \E k \in 1..n : IsFirst(s, k, i)
<1> DEFINE S == {k \in 1..n : s[k] = s[i]}
<1>1. S \in SUBSET (1..n) /\ i \in S
  OBVIOUS
<1>2. PICK N, at : Picked(s, S, Pick(s, S), N, at)
  BY <1>1, PickAt, Zenon
<1> DEFINE first == at[1]
<1>3. \A c \in S : c \in Int
  OBVIOUS
<1> HIDE DEF S
<1>4. N \in Nat /\ at \in [1..N -> S]
  BY <1>2 DEF Picked
<1>5. /\ \A k, l \in 1..N : k < l => at[k] < at[l]
      /\ \A c \in S : \E k \in 1..N : at[k] = c
  BY <1>2 DEF Picked
<1>6. 1 \in 1..N
  BY <1>1, <1>4, <1>5
<1>7. \A c \in S : first <= c
  <2> TAKE c \in S
  <2>1. PICK k \in 1..N : at[k] = c
    BY <1>5
  <2>2. first \in Int /\ c \in Int
    BY <1>3, <1>4, <1>6
  <2>3. CASE k = 1
    BY <2>1, <2>2, <2>3
  <2>4. CASE k # 1
    <3>1. 1 < k
      BY <1>4, <2>4
    <3>2. first < at[k]
      BY <1>5, <1>6, <3>1
    <3> QED
      BY <2>1, <2>2, <3>2
  <2> QED
    BY <2>3, <2>4
<1>8. first \in S
  BY <1>4, <1>6
<1> HIDE DEF first
<1> USE DEF S
<1>9. \A j \in 1..(first - 1) : s[j] # s[first]
  <2> SUFFICES ASSUME NEW j \in 1..(first - 1), s[j] = s[first] PROVE FALSE
    OBVIOUS
  <2>1. j \in S
    BY <1>8
  <2> QED
    BY <1>7, <1>8, <2>1
<1> QED
  BY <1>8, <1>9 DEF IsFirst

\* Distinct keeps the elements of the list, no two equal.
LEMMA DistinctOf ==
    ASSUME NEW s, s \in Seq({s[i] : i \in DOMAIN s})
    PROVE  /\ Distinct(s) \in Seq({Distinct(s)[i] : i \in DOMAIN Distinct(s)})
           /\ \A i \in DOMAIN Distinct(s) : \E j \in DOMAIN s : Distinct(s)[i] = s[j]
           /\ \A i, j \in DOMAIN Distinct(s) : Distinct(s)[i] = Distinct(s)[j] => i = j
           /\ s # Empty => Distinct(s) # Empty
           /\ \A j \in DOMAIN s : \E i \in DOMAIN Distinct(s) : Distinct(s)[i] = s[j]
<1> DEFINE S == {i \in DOMAIN s : \A j \in 1..(i - 1) : s[j] # s[i]}
           t == Distinct(s)
<1>1. Len(s) \in Nat /\ DOMAIN s = 1..Len(s) /\ (s # Empty => 1 \in DOMAIN s)
  BY LenProperties, SMT DEF Empty
<1>2. S \in SUBSET (1..Len(s)) /\ t = Pick(s, S)
  BY <1>1 DEF Distinct
<1>3. \A i, j \in S : i # j => s[i] # s[j]
  <2> SUFFICES ASSUME NEW i \in S, NEW j \in S, i < j PROVE s[i] # s[j]
    BY <1>1
  <2>1. i \in 1..(j - 1)
    BY <1>1
  <2> QED
    BY <2>1
<1>4. s # Empty => 1 \in S
  BY <1>1
<1>a. \A i \in S : i \in DOMAIN s /\ i \in Int
  BY <1>1
<1>b. \A i \in DOMAIN s : \E k \in S : s[k] = s[i]
  <2> TAKE i \in DOMAIN s
  <2>1. Len(s) \in Nat /\ DOMAIN s = 1..Len(s) /\ i \in 1..Len(s)
    BY <1>1
  <2>2. PICK k \in 1..Len(s) : IsFirst(s, k, i)
    BY <2>1, FirstOccurrence, Zenon
  <2> QED
    BY <1>1, <2>2 DEF IsFirst
<1> HIDE DEF S, t
<1>5. PICK N, at : Picked(s, S, t, N, at)
  BY <1>1, <1>2, PickAt, Zenon
<1>6. /\ N \in Nat /\ at \in [1..N -> S]
      /\ \A k, l \in 1..N : k < l => at[k] < at[l]
      /\ \A i \in S : \E k \in 1..N : at[k] = i
  BY <1>5 DEF Picked
<1>7. t = [k \in 1..N |-> s[at[k]]] /\ DOMAIN t = 1..N
  BY <1>5 DEF Picked
<1>8. t \in Seq({t[i] : i \in DOMAIN t})
  <2>1. t \in [1..N -> {t[i] : i \in DOMAIN t}]
    BY <1>7
  <2>2. \A T : t \in [1..N -> T] => t \in Seq(T)
    BY <1>6
  <2> QED
    BY <2>1, <2>2, Zenon
<1>9. \A i \in DOMAIN t : \E j \in DOMAIN s : t[i] = s[j]
  BY <1>6, <1>7, <1>a
<1>10. \A i, j \in DOMAIN t : t[i] = t[j] => i = j
  <2> SUFFICES ASSUME NEW i \in 1..N, NEW j \in 1..N, i < j PROVE t[i] # t[j]
    BY <1>7
  <2>1. at[i] \in S /\ at[j] \in S /\ at[i] < at[j]
    BY <1>6
  <2>2. at[i] \in Int /\ at[j] \in Int
    BY <1>a, <2>1
  <2>3. at[i] # at[j]
    BY <2>1, <2>2
  <2> QED
    BY <1>3, <1>7, <2>1, <2>3
<1>11. s # Empty => t # Empty
  <2> SUFFICES ASSUME s # Empty PROVE t # Empty
    OBVIOUS
  <2>1. PICK k \in 1..N : at[k] = 1
    BY <1>4, <1>6
  <2> QED
    BY <1>7, <2>1 DEF Empty
<1>12. \A j \in DOMAIN s : \E i \in DOMAIN t : t[i] = s[j]
  <2> TAKE j \in DOMAIN s
  <2>1. PICK k \in S : s[k] = s[j]
    BY <1>b
  <2>2. PICK i \in 1..N : at[i] = k
    BY <1>6, <2>1
  <2> QED
    BY <1>7, <2>1, <2>2
<1> QED
  BY <1>8, <1>9, <1>10, <1>11, <1>12 DEF t

\* sorted lists a set of capabilities once each, in the order of text.
LEMMA SortedOf ==
    ASSUME NEW S, IsFiniteSet(S), S \subseteq DOMAIN Rank
    PROVE  /\ sorted(S) \in Seq(S)
           /\ Len(sorted(S)) = Cardinality(S)
           /\ Elements(sorted(S)) = S
           /\ \A i \in 2..Len(sorted(S)) : Rank[sorted(S)[i - 1]] < Rank[sorted(S)[i]]
<1> DEFINE N == Cardinality(S)
           t == sorted(S)
<1>1. \A c \in S : Rank[c] \in Int
  BY DeclarationsAssumption
<1>2. \A c, d \in S : Rank[c] = Rank[d] => c = d
  BY DeclarationsAssumption
<1>3. N \in Nat
  BY FS_CardinalityType
<1>4. t = [n \in 1..N |-> At(S, Rank, n)]
  BY DEF sorted, At, Below
<1>5. /\ \A n \in 1..N : At(S, Rank, n) \in S
      /\ \A n, m \in 1..N : n < m => Rank[At(S, Rank, n)] < Rank[At(S, Rank, m)]
      /\ \A c \in S : \E n \in 1..N : At(S, Rank, n) = c
  BY <1>1, <1>2, RankedAt
<1> HIDE DEF N, t
<1>6. t \in Seq(S) /\ Len(t) = N /\ DOMAIN t = 1..N
  BY <1>3, <1>4, <1>5
<1>7. Elements(t) = S
  BY <1>4, <1>5, <1>6 DEF Elements
<1>8. \A i \in 2..N : Rank[t[i - 1]] < Rank[t[i]]
  BY <1>3, <1>4, <1>5
<1> QED
  BY <1>6, <1>7, <1>8 DEF t, N

-----------------------------------------------------------------------------
(* What NormalizeAccountPlans and ValidateCapabilities compute. *)

\* The two words NormalizeAccountPlans fills in are not blank.
LEMMA Words == "plan_type" # Blank /\ "exact" # Blank
<1>1. "plan_type" # Blank
  BY Zenon DEF Blank
<1>2. "exact" # Blank
  BY Zenon DEF Blank
<1> QED
  BY <1>1, <1>2

\* What NormalizeAccountPlans keeps of a plan that passes its checks.
Finished(p) == [completePlan(p) EXCEPT !.Matches = Distinct(completePlan(p).Matches)]

\* The checks NormalizeAccountPlans makes of one plan.
Valid(p) == validKey(p) /\ p.MatchMode \in AccountPlanMatch /\ validMatches(p)

\* A text that is trimmed, and filled in when blank, is not changed by doing it again.
LEMMA TextKept ==
    ASSUME NEW t \in DOMAIN Trim, NEW other \in DOMAIN Trim, Trim[other] = other, other # Blank,
           NEW r, r = OrElse(Trim[t], other)
    PROVE  r \in DOMAIN Trim /\ r # Blank /\ Trim[r] = r
<1>1. Trim[t] \in DOMAIN Trim /\ Trim[Trim[t]] = Trim[t]
  BY DeclarationsAssumption
<1> QED
  BY <1>1 DEF OrElse

\* A completed plan has at least one match, and every match is trimmed.
LEMMA MatchesComplete ==
    ASSUME NEW p, IsAccountPlan(p), NEW m, m = completePlan(p).Matches
    PROVE  /\ m \in Seq({m[i] : i \in DOMAIN m}) /\ m # Empty
           /\ \A i \in DOMAIN m : m[i] \in DOMAIN Trim /\ Trim[m[i]] = m[i]
           /\ Elements(m) = IF p.Matches = Empty THEN {Trim[p.Key]}
                            ELSE {Trim[v] : v \in Elements(p.Matches)}
<1> DEFINE q == p.Matches
<1>1. p.Key \in DOMAIN Trim /\ q \in Seq({q[i] : i \in DOMAIN q})
      /\ \A i \in DOMAIN q : q[i] \in DOMAIN Trim
  BY DEF IsAccountPlan, IsList, IsText
<1>2. m = IF q = <<>> THEN <<Trim[p.Key]>> ELSE [i \in DOMAIN q |-> Trim[q[i]]]
  BY DEF completePlan
<1>3. \A t \in DOMAIN Trim : Trim[t] \in DOMAIN Trim /\ Trim[Trim[t]] = Trim[t]
  BY DeclarationsAssumption
<1>4. CASE q = <<>>
  <2>1. m = <<Trim[p.Key]>>
    BY <1>2, <1>4
  <2>2. Elements(m) = {Trim[p.Key]}
    BY <2>1 DEF Elements
  <2> QED
    BY <1>1, <1>3, <1>4, <2>1, <2>2 DEF Empty
<1>5. CASE q # <<>>
  <2>1. m = [i \in DOMAIN q |-> Trim[q[i]]] /\ DOMAIN m = DOMAIN q
    BY <1>2, <1>5
  <2>2. Len(q) \in Nat /\ DOMAIN q = 1..Len(q) /\ Len(q) > 0
    BY <1>1, <1>5, LenProperties, EmptySeq
  <2>3. m # Empty
    <3>1. 1 \in DOMAIN m
      BY <2>1, <2>2
    <3> QED
      BY <3>1 DEF Empty
  <2>4. m \in [1..Len(q) -> {m[i] : i \in DOMAIN m}]
    BY <2>1, <2>2
  <2>5. \A T : m \in [1..Len(q) -> T] => m \in Seq(T)
    BY <2>2
  <2>6. m \in Seq({m[i] : i \in DOMAIN m})
    BY <2>4, <2>5, Zenon
  <2>7. Elements(m) = {Trim[v] : v \in Elements(q)}
    BY <2>1 DEF Elements
  <2> QED
    BY <1>1, <1>3, <1>5, <2>1, <2>3, <2>6, <2>7 DEF Empty
<1> QED
  BY <1>4, <1>5

\* q is what is kept of p: finishing it again changes nothing.
KeptFor(p, q) ==
    /\ completePlan(q) = q /\ Valid(q)
    /\ [q EXCEPT !.Matches = Distinct(q.Matches)] = q
    /\ q.Key = completePlan(p).Key /\ q.CredentialKey = completePlan(p).CredentialKey
    /\ KeptPlan(p, q)

\* NormalizeAccountPlans keeps, of a plan that passes its checks, one it would keep again.
LEMMA PlanFinished ==
    ASSUME NEW p, IsAccountPlan(p), Valid(completePlan(p))
    PROVE  KeptFor(p, Finished(p))
<1> DEFINE q == Finished(p)
           d == completePlan(p)
           m == d.Matches
           n == Distinct(m)
           key == Trim[p.Key]
<1>1. /\ d = [Key |-> key, Label |-> OrElse(Trim[p.Label], key),
              CredentialKey |-> OrElse(Trim[p.CredentialKey], "plan_type"),
              MatchMode |-> OrElse(p.MatchMode, "exact"), Matches |-> m]
  BY DEF completePlan
<1>2. /\ p.Key \in DOMAIN Trim /\ p.Label \in DOMAIN Trim /\ p.CredentialKey \in DOMAIN Trim
  BY DEF IsAccountPlan, IsText
<1>3. /\ m \in Seq({m[i] : i \in DOMAIN m}) /\ m # Empty
      /\ \A i \in DOMAIN m : m[i] \in DOMAIN Trim /\ Trim[m[i]] = m[i]
      /\ Elements(m) = IF p.Matches = Empty THEN {key} ELSE {Trim[v] : v \in Elements(p.Matches)}
  BY MatchesComplete
<1>4. /\ validKey(d) /\ d.MatchMode \in AccountPlanMatch /\ validMatches(d)
  BY DEF Valid
<1>5. key \in DOMAIN Trim /\ Trim[key] = key /\ d.Key = key
  BY <1>1, <1>2, DeclarationsAssumption
<1>6. key # Blank
  BY <1>4, <1>5, DeclarationsAssumption DEF validKey
<1>7. d.Label \in DOMAIN Trim /\ d.Label # Blank /\ Trim[d.Label] = d.Label
  BY <1>1, <1>2, <1>5, <1>6, TextKept
<1>8. /\ d.CredentialKey \in DOMAIN Trim /\ d.CredentialKey # Blank
      /\ Trim[d.CredentialKey] = d.CredentialKey
  BY <1>1, <1>2, Words, DeclarationsAssumption, TextKept
<1>9. d.MatchMode # Blank
  BY <1>1, Words DEF OrElse
<1>10. /\ n \in Seq({n[i] : i \in DOMAIN n}) /\ n # Empty
       /\ \A i \in DOMAIN n : \E j \in DOMAIN m : n[i] = m[j]
       /\ Distinct(n) = n /\ Cardinality(Elements(n)) = Len(n) /\ Elements(n) = Elements(m)
  <2> HIDE DEF m
  <2>1. /\ n \in Seq({n[i] : i \in DOMAIN n})
        /\ \A i \in DOMAIN n : \E j \in DOMAIN m : n[i] = m[j]
        /\ \A i, j \in DOMAIN n : n[i] = n[j] => i = j
        /\ n # Empty
        /\ \A j \in DOMAIN m : \E i \in DOMAIN n : n[i] = m[j]
    BY <1>3, DistinctOf
  <2> HIDE DEF n
  <2>2. Elements(n) = Elements(m)
    BY <2>1 DEF Elements
  <2> QED
    BY <2>1, <2>2, NoRepeats
<1> HIDE DEF q, d, m, n, key
<1>11. q = [Key |-> key, Label |-> d.Label, CredentialKey |-> d.CredentialKey,
            MatchMode |-> d.MatchMode, Matches |-> n]
  <2>1. q = [d EXCEPT !.Matches = n]
    BY DEF Finished, q, d, n, m
  <2> QED
    BY <1>1, <2>1
<1>12. [i \in DOMAIN n |-> Trim[n[i]]] = n
  <2>1. \A i \in DOMAIN n : Trim[n[i]] = n[i]
    BY <1>3, <1>10
  <2> QED
    BY <1>10, <2>1
<1>13. n # <<>>
  BY <1>10 DEF Empty
<1>14. completePlan(q) = q
  <2>1. completePlan(q) = [Key |-> Trim[key], Label |-> OrElse(Trim[d.Label], Trim[key]),
                           CredentialKey |-> OrElse(Trim[d.CredentialKey], "plan_type"),
                           MatchMode |-> OrElse(d.MatchMode, "exact"),
                           Matches |-> IF n = <<>> THEN <<Trim[key]>>
                                       ELSE [i \in DOMAIN n |-> Trim[n[i]]]]
    BY <1>11 DEF completePlan
  <2> QED
    BY <1>5, <1>7, <1>8, <1>9, <1>11, <1>12, <1>13, <2>1 DEF OrElse
<1>15. \A i \in DOMAIN n : /\ n[i] # Blank
                           /\ d.MatchMode = "normalized_contains" => n[i] \in Alphanumeric
  BY <1>4, <1>10 DEF validMatches, m
<1>16. Valid(q)
  BY <1>4, <1>5, <1>11, <1>15 DEF Valid, validKey, validMatches
<1>17. /\ Blank \notin Elements(n)
       /\ d.MatchMode = "normalized_contains" => Elements(n) \subseteq Alphanumeric
  BY <1>15 DEF Elements
<1>18. /\ key \in WellFormedKeys /\ Squash[key] \notin {"unknown", "none", "oauth", "apikey"}
       /\ d.MatchMode \in {"exact", "contains", "normalized_contains"}
  BY <1>4, <1>5 DEF validKey, ReservedKeys, AccountPlanMatch
<1>19. Elements(n) = IF p.Matches = Empty THEN {key} ELSE {Trim[v] : v \in Elements(p.Matches)}
  BY <1>3, <1>10
<1>20. KeptPlan(p, q)
  <2>1. /\ q.Key = key /\ q.Label = d.Label /\ q.CredentialKey = d.CredentialKey
        /\ q.MatchMode = d.MatchMode /\ q.Matches = n
    BY <1>11
  <2>2. q.Key = Trim[p.Key]
    BY <2>1 DEF key
  <2> QED
    BY <1>7, <1>8, <1>10, <1>17, <1>18, <1>19, <2>1, <2>2, Zenon DEF KeptPlan
<1>21. [q EXCEPT !.Matches = Distinct(q.Matches)] = q
  BY <1>10, <1>11
<1>22. q.Key = d.Key /\ q.CredentialKey = d.CredentialKey
  BY <1>5, <1>11
<1> QED
  BY <1>14, <1>16, <1>20, <1>21, <1>22, Zenon DEF KeptFor, q, d

\* NormalizeAccountPlans checks the completed plans d at the positions D, each and in pairs.
Checked(D, d) ==
    IF /\ \A i \in D : Valid(d[i])
       /\ \A i, j \in D : j < i => agreesWith(d[i], d[j])
    THEN [i \in D |-> [d[i] EXCEPT !.Matches = Distinct(d[i].Matches)]]
    ELSE Invalid

LEMMA NormalizedList ==
    ASSUME NEW r
    PROVE  NormalizeAccountPlans(r) = Checked(DOMAIN r, [i \in DOMAIN r |-> completePlan(r[i])])
  BY DEF NormalizeAccountPlans, Valid, Checked

\* What AdmissionIsSound says of the plans, of any plugin's plans that are accepted.
LEMMA PlansSound ==
    ASSUME NEW s, IsList(s, IsAccountPlan),
           NEW plans, plans = NormalizeAccountPlans(s), plans # Invalid
    PROVE  PlansAreSound(s, plans)
<1> DEFINE D == DOMAIN s
           done == [i \in D |-> completePlan(s[i])]
           again == [i \in D |-> completePlan(plans[i])]
           Ok(d) == /\ \A i \in D : Valid(d[i])
                    /\ \A i, j \in D : j < i => agreesWith(d[i], d[j])
<1>1. D = 1..Len(s) /\ Len(s) \in Nat /\ \A i \in D : IsAccountPlan(s[i])
  BY LenProperties, SMT DEF IsList
<1>2. NormalizeAccountPlans(s) =
          IF Ok(done) THEN [i \in D |-> [done[i] EXCEPT !.Matches = Distinct(done[i].Matches)]]
          ELSE Invalid
  BY NormalizedList DEF Checked
<1>3. Ok(done) /\ plans = [i \in D |-> Finished(s[i])]
  BY <1>2 DEF Finished
<1>4. \A i \in D : plans[i] = Finished(s[i]) /\ done[i] = completePlan(s[i])
  BY <1>3
<1>5. DOMAIN plans = D /\ plans \in Seq({plans[i] : i \in D}) /\ Len(plans) = Len(s)
  <2>1. plans \in [1..Len(s) -> {plans[i] : i \in D}]
    BY <1>1, <1>3
  <2>2. \A T : plans \in [1..Len(s) -> T] => plans \in Seq(T) /\ Len(plans) = Len(s)
    BY <1>1
  <2>3. plans \in Seq({plans[i] : i \in D}) /\ Len(plans) = Len(s)
    BY <2>1, <2>2, Zenon
  <2> QED
    BY <1>3, <2>3
<1> HIDE DEF done
<1>6. \A i \in D : Valid(done[i]) /\ done[i] = completePlan(s[i])
  BY <1>3, <1>4
<1>7. \A i \in D :
        /\ completePlan(plans[i]) = plans[i] /\ Valid(plans[i])
        /\ [plans[i] EXCEPT !.Matches = Distinct(plans[i].Matches)] = plans[i]
        /\ plans[i].Key = done[i].Key /\ plans[i].CredentialKey = done[i].CredentialKey
        /\ KeptPlan(s[i], plans[i])
  <2> TAKE i \in D
  <2>1. KeptFor(s[i], plans[i])
    BY <1>1, <1>4, <1>6, PlanFinished
  <2>2. done[i] = completePlan(s[i])
    BY <1>4
  <2> HIDE DEF D
  <2> QED
    BY <2>1, <2>2, Zenon DEF KeptFor
<1>8. \A i, j \in D : j < i => /\ Squash[plans[i].Key] # Squash[plans[j].Key]
                               /\ plans[i].CredentialKey = plans[j].CredentialKey
  BY <1>3, <1>7 DEF agreesWith
<1>9. \A i, j \in D : /\ plans[i].CredentialKey = plans[j].CredentialKey
                      /\ Squash[plans[i].Key] = Squash[plans[j].Key] => i = j
  <2> SUFFICES ASSUME NEW i \in D, NEW j \in D
               PROVE  /\ plans[i].CredentialKey = plans[j].CredentialKey
                      /\ Squash[plans[i].Key] = Squash[plans[j].Key] => i = j
    OBVIOUS
  <2>1. i < j \/ j < i \/ i = j
    BY <1>1
  <2> QED
    BY <1>8, <2>1
<1>10. again = plans
  BY <1>5, <1>7
<1>11. NormalizeAccountPlans(plans) = plans
  <2>1. \A i, j \in D : j < i => agreesWith(again[i], again[j])
    BY <1>8, <1>10 DEF agreesWith
  <2>2. \A i \in D : Valid(again[i])
    BY <1>7, <1>10
  <2>3. [i \in D |-> [again[i] EXCEPT !.Matches = Distinct(again[i].Matches)]] = plans
    BY <1>5, <1>7, <1>10
  <2>4. NormalizeAccountPlans(plans) = Checked(D, again)
    <3>1. \A r : NormalizeAccountPlans(r) =
                    Checked(DOMAIN r, [i \in DOMAIN r |-> completePlan(r[i])])
      BY NormalizedList
    <3> HIDE DEF D
    <3>2. DOMAIN plans = D
      BY <1>5
    <3> QED
      BY <3>1, <3>2, Zenon
  <2> HIDE DEF again
  <2> QED
    BY <2>1, <2>2, <2>3, <2>4 DEF Checked
<1>12. \A i \in DOMAIN plans : KeptPlan(s[i], plans[i])
  BY <1>5, <1>7, Zenon
<1> HIDE DEF D
<1> QED
  BY <1>5, <1>9, <1>11, <1>12, Zenon DEF PlansAreSound

\* What AdmissionIsSound says of the capabilities, of any plugin's capabilities.
LEMMA CapabilitiesSound ==
    ASSUME NEW typ, NEW s, IsList(s, IsCapability),
           NEW caps, caps = ValidateCapabilities(typ, s)
    PROVE  CapabilitiesAreSound(typ, Elements(s), caps)
<1> DEFINE all == {s[i] : i \in DOMAIN s}
           known == {c \in all : IsKnownCapability(c)}
           effective == {c \in known : typ \in allowedPluginTypesForCapability(c)}
           unknown == all \ known
           denied == known \ effective
           host == HostMethods \cup {"host.invoke"}
           body == {"middleware.read_body"}
           usable == {c \in host : typ \in {"gateway", "extension", "middleware"}}
                     \cup {c \in body : typ = "middleware"}
<1>1. caps = [Effective |-> sorted(effective), Unknown |-> sorted(unknown),
              Denied |-> sorted(denied)]
  BY DEF ValidateCapabilities
<1>2. /\ Len(s) \in Nat /\ DOMAIN s = 1..Len(s) /\ s = [i \in 1..Len(s) |-> s[i]]
      /\ \A i \in DOMAIN s : s[i] \in DOMAIN Rank
  BY LenProperties, SMT DEF IsList, IsCapability
<1>3. IsFiniteSet(all) /\ all \subseteq DOMAIN Rank
  <2>1. s \in Surjection(1..Len(s), all)
    BY <1>2 DEF Surjection
  <2>2. IsFiniteSet(1..Len(s))
    BY <1>2, IntervalSize
  <2>3. IsFiniteSet(all)
    BY <2>1, <2>2, FS_Surjection
  <2> QED
    BY <1>2, <2>3
<1>4. effective \in SUBSET all /\ unknown \in SUBSET all /\ denied \in SUBSET all
  OBVIOUS
<1>5. Elements(s) = all
  BY DEF Elements
<1>6. /\ \A c : IsKnownCapability(c) <=> c \in host \cup body
      /\ \A c \in host : allowedPluginTypesForCapability(c) = {"gateway", "extension", "middleware"}
      /\ \A c \in body : allowedPluginTypesForCapability(c) = {"middleware"}
  BY DeclarationsAssumption
     DEF IsKnownCapability, allowedPluginTypesForCapability, capabilityAllowedTypes, PluginTypes
<1>7. host \cap body = {}
  BY DeclarationsAssumption
<1> HIDE DEF all, host, body
<1>8. \A c \in host \cup body : typ \in allowedPluginTypesForCapability(c) <=> c \in usable
  BY <1>6, <1>7
<1> HIDE DEF usable
<1>9. /\ effective = all \cap usable
      /\ unknown = all \ (host \cup body)
      /\ denied = (all \cap (host \cup body)) \ usable
  <2>1. usable \subseteq host \cup body
    BY DEF usable
  <2>2. known = all \cap (host \cup body)
    BY <1>6
  <2> HIDE DEF known
  <2> QED
    BY <1>8, <2>1, <2>2
<1> HIDE DEF known, effective, unknown, denied
<1>10. IsFiniteSet(effective) /\ IsFiniteSet(unknown) /\ IsFiniteSet(denied)
  BY <1>3, <1>4, FS_Subset
<1>11. ASSUME NEW S \in SUBSET all, IsFiniteSet(S)
       PROVE  /\ Elements(sorted(S)) = S
              /\ \A i \in 2..Len(sorted(S)) : Rank[sorted(S)[i - 1]] < Rank[sorted(S)[i]]
  BY <1>3, <1>11, SortedOf
<1>12. /\ Elements(caps.Effective) = all \cap usable
       /\ Elements(caps.Unknown) = all \ (host \cup body)
       /\ Elements(caps.Denied) = (all \cap (host \cup body)) \ usable
  BY <1>1, <1>4, <1>9, <1>10, <1>11
<1>13. \A list \in {caps.Effective, caps.Unknown, caps.Denied} :
            \A i \in 2..Len(list) : Rank[list[i - 1]] < Rank[list[i]]
  <2>1. \A list \in {sorted(effective), sorted(unknown), sorted(denied)} :
            \A i \in 2..Len(list) : Rank[list[i - 1]] < Rank[list[i]]
    BY <1>4, <1>10, <1>11
  <2>2. /\ caps.Effective = sorted(effective) /\ caps.Unknown = sorted(unknown)
        /\ caps.Denied = sorted(denied)
    BY <1>1
  <2> QED
    BY <2>1, <2>2, Zenon
<1> QED
  BY <1>5, <1>12, <1>13, Zenon DEF CapabilitiesAreSound, host, body, usable

\* The invariant is enough for AdmissionIsSound.
LEMMA InvAdmission == IInv => AdmissionIsSound
<1> SUFFICES ASSUME IInv, phase = "admitted" PROVE AdmissionIsSound
  BY DEF AdmissionIsSound
<1>1. /\ kind = "Info"
      /\ admitted = [Plans |-> NormalizeAccountPlans(sent.AccountPlans),
                     Capabilities |-> ValidateCapabilities(sent.Type, sent.Capabilities)]
  BY DEF IInv, Admission
<1>2. IsInfo(sent)
  BY <1>1 DEF IInv, Crossing, IsValue
<1>3. /\ IsList(sent.AccountPlans, IsAccountPlan)
      /\ IsList(sent.Capabilities, IsCapability)
  BY <1>2 DEF IsInfo
<1>4. /\ admitted.Plans = NormalizeAccountPlans(sent.AccountPlans)
      /\ admitted.Capabilities = ValidateCapabilities(sent.Type, sent.Capabilities)
  BY <1>1
<1>5. admitted.Plans # Invalid => PlansAreSound(sent.AccountPlans, admitted.Plans)
  BY <1>3, <1>4, PlansSound
<1>6. CapabilitiesAreSound(sent.Type, Elements(sent.Capabilities), admitted.Capabilities)
  BY <1>3, <1>4, CapabilitiesSound
<1> QED
  BY <1>5, <1>6, Zenon DEF AdmissionIsSound

\* Whatever a plugin declares, the account plans Core keeps are unambiguous, complete and
\* stable, none stands for a reserved word and each can match; and every capability is
\* effective exactly when the type of the plugin may use it, unknown exactly when the SDK
\* does not know it, and denied otherwise, in lists without repetitions, in order.
THEOREM AdmittedIsSound == Spec => []AdmissionIsSound
  BY Invariance, InvAdmission, PTL
=============================================================================
