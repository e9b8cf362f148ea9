---------------------------- MODULE PluginBoundary ----------------------------
(***************************************************************************)
(* One message at a time between Core and a plugin: a value of the SDK is  *)
(* encoded by its sender (WireFormat), decoded by its receiver, and then   *)
(* used: Core passes the usage of a verdict on to a middleware plugin, and *)
(* admits a plugin by what it declares (Declarations).                     *)
(***************************************************************************)
EXTENDS WireFormat, Declarations

CONSTANT Inputs  \* kind of message |-> the values that are sent

VARIABLES
    phase,     \* "idle", "sent", "failed", "received", "admitted"
    kind,      \* of the message, a member of DOMAIN Inputs, or "none"
    sent,      \* the sender's value
    wire,      \* a pointer to the message, Nil when encoding failed
    received,  \* the receiver's value
    origin,    \* a pointer to the verdict whose usage is being passed on, or Nil
    admitted   \* what Core keeps of the plugin's declarations

vars == <<phase, kind, sent, wire, received, origin, admitted>>
-----------------------------------------------------------------------------
(* What the SDK's types say of the values. *)

IsStruct(v, F) == v = [f \in F |-> v[f]]
IsMap(m) == IsStruct(m, DOMAIN m)
IsList(s, Is(_)) == s \in Seq({s[i] : i \in DOMAIN s}) /\ \A i \in DOMAIN s : Is(s[i])
IsPointer(p, Is(_)) == p = Nil \/ (p = <<p[1]>> /\ Is(p[1]))

\* Status codes are HTTP's, or zero, and fit an int32; milliseconds fit an int64.
Int32s == -Half..(Half - 1)

IsAccount(a) == IsStruct(a, Account)
IsGate(g) == IsStruct(g, DispatchGate) /\ g.Status \in Int32s
IsPlan(p) == IsStruct(p, DispatchPlan) /\ IsGate(p.Gate)
IsRequest(r) ==
    /\ IsStruct(r, ForwardRequest)
    /\ IsAccount(r.Account) /\ IsMap(r.Headers) /\ IsPlan(r.DispatchPlan)
IsConnect(i) ==
    IsStruct(i, WebSocketConnectInfo) /\ IsAccount(i.Account) /\ IsMap(i.Headers)

IsAmount(a) == IsPointer(a, LAMBDA x : TRUE)
IsBilling(b) == IsStruct(b, BillingAdjustments) /\ \A f \in BillingAdjustments : IsAmount(b[f])
IsUsage(u) == IsStruct(u, Usage) /\ IsPointer(u.Billing, IsBilling)
IsUpstream(u) ==
    IsStruct(u, UpstreamResponse) /\ u.StatusCode \in Int32s /\ IsMap(u.Headers)
IsOutbound(r) ==
    IsStruct(r, OutboundRequestDiagnostic) /\ r.StatusCode \in Int32s /\ IsMap(r.Headers)
IsDiagnostic(d) ==
    IsStruct(d, FinalErrorDiagnostic) /\ IsList(d.OutboundRequests, IsOutbound)
IsOutcome(o) ==
    /\ IsStruct(o, ForwardOutcome)
    /\ IsUpstream(o.Upstream) /\ o.Duration \in Int /\ o.RetryAfter \in Int
    /\ IsPointer(o.Usage, IsUsage) /\ IsPointer(o.FinalErrorDiagnostic, IsDiagnostic)

IsCandidate(c) == IsStruct(c, DispatchCandidate)
IsRule(r) ==
    /\ IsStruct(r, DispatchRule)
    /\ IsStruct(r.When, DispatchWhen) /\ IsStruct(r.Model, {"StripSuffix"})
    /\ IsGate(r.Gate) /\ IsList(r.Candidates, IsCandidate)
IsText(t) == t \in DOMAIN Trim
IsAccountPlan(p) ==
    /\ IsStruct(p, AccountPlan)
    /\ IsText(p.Key) /\ IsText(p.Label) /\ IsText(p.CredentialKey)
    /\ IsList(p.Matches, IsText)
IsOption(o) == IsStruct(o, ConfigOption)
IsConfig(c) == IsStruct(c, ConfigField) /\ IsList(c.Options, IsOption)
IsCredential(c) == IsStruct(c, CredentialField)
IsAccountType(t) == IsStruct(t, AccountType) /\ IsList(t.Fields, IsCredential)
IsPage(p) == IsStruct(p, FrontendPage)
IsWidget(w) == IsStruct(w, FrontendWidget)
IsCapability(c) == c \in DOMAIN Rank
IsInfo(i) ==
    /\ IsStruct(i, PluginInfo)
    /\ IsList(i.DispatchDSL, IsRule) /\ IsList(i.AccountPlans, IsAccountPlan)
    /\ IsList(i.ConfigSchema, IsConfig) /\ IsList(i.AccountTypes, IsAccountType)
    /\ IsList(i.FrontendPages, IsPage) /\ IsList(i.FrontendWidgets, IsWidget)
    /\ IsList(i.Capabilities, IsCapability)

IsModel(m) == IsStruct(m, ModelInfo)
IsRoute(r) == IsStruct(r, RouteDefinition)
IsTask(t) == IsStruct(t, {"Name", "Interval"}) /\ t.Interval \in Int
IsPayloadSchema(s) == IsStruct(s, PayloadSchema)
IsEntry(e, F, payloads) == IsStruct(e, F) /\ \A f \in payloads : IsPayloadSchema(e[f])
IsSchema(s) ==
    /\ IsStruct(s, PluginSchema)
    /\ IsList(s.Routes, LAMBDA e : IsEntry(e, RouteSchema, {"Request", "Response"}))
    /\ IsList(s.Tasks, LAMBDA e : IsEntry(e, TaskSchema, {"Input", "Output"}))
    /\ IsList(s.Events, LAMBDA e : IsEntry(e, EventSchema, {"Payload"}))
    /\ IsList(s.Invokes, LAMBDA e : IsEntry(e, InvokeSchema,
                                {"Request", "Response", "ClientFrame", "ServerFrame"}))

IsPayload(p) == p \in [DOMAIN p -> {"text", "int", "float", "func"}]
IsEvent(e) ==
    /\ IsStruct(e, PluginEvent) /\ IsPayload(e.Payload)
    /\ IsPointer(e.OccurredAt, LAMBDA t : t \in Int)
IsMiddlewareEvent(e) ==
    /\ IsStruct(e, MiddlewareEvent) /\ e.StatusCode \in Int32s /\ e.Duration \in Int
    /\ IsPointer(e.Usage, IsUsage) /\ IsMap(e.ResponseHeaders)
IsDecision(d) == IsStruct(d, MiddlewareDecision) /\ IsMap(d.SetHeaders)
WithHeaders(v, F, headers) == IsStruct(v, F) /\ IsMap(v[headers])
WithPayload(v, F) == IsStruct(v, F) /\ IsPayload(v.Payload)

IsValue(k, v) ==
    CASE k = "Info" -> IsInfo(v)
      [] k = "Models" -> IsList(v, IsModel)
      [] k = "Routes" -> IsList(v, IsRoute)
      [] k = "Tasks" -> IsList(v, IsTask)
      [] k = "Schema" -> IsSchema(v)
      [] k \in {"Assets", "Init", "UpdateConfig"} -> IsMap(v)
      [] k = "Subscription" -> IsStruct(v, EventSubscription)
      [] k = "Outcome" -> IsOutcome(v)
      [] k = "Decision" -> IsPointer(v, IsDecision)
      [] k \in {"Forward", "ForwardStream"} -> IsRequest(v)
      [] k = "Connect" -> IsConnect(v)
      [] k = "Event" -> IsEvent(v)
      [] k = "MiddlewareRequest" -> WithHeaders(v, MiddlewareRequest, "RequestHeaders")
      [] k = "MiddlewareEvent" -> IsMiddlewareEvent(v)
      [] k = "HttpRequest" -> WithHeaders(v, HttpRequest, "Headers")
      [] k = "Frame" -> WithPayload(v, HostStreamFrame)
      [] k \in {"Invoke", "OpenStream"} -> WithPayload(v, HostInvokeRequest)
      [] k = "InvokeAnswer" -> WithPayload(v, HostInvokeResponse)
      [] k = "Task" -> IsStruct(v, HostTask) /\ IsPayload(v.Input)
      [] k = "RequestID" -> TRUE

Kinds == {"Info", "Models", "Routes", "Tasks", "Schema", "Assets", "Subscription", "Outcome",
    "Decision", "Forward", "ForwardStream", "Connect", "Event", "MiddlewareRequest",
    "MiddlewareEvent", "HttpRequest", "Frame", "Invoke", "OpenStream", "InvokeAnswer", "Task",
    "Init", "UpdateConfig", "RequestID"}

ASSUME BoundaryAssumption ==
    /\ DOMAIN Inputs \subseteq Kinds
    /\ \A k \in DOMAIN Inputs : \A v \in Inputs[k] : IsValue(k, v)
-----------------------------------------------------------------------------
\* The message, or Nil when encoding fails.
toProto(k, v) ==
    CASE k = "Info" -> <<GetInfo(v)>>
      [] k = "Models" -> <<GetModels(v)>>
      [] k = "Routes" -> <<GetRoutes(v)>>
      [] k = "Tasks" -> <<GetBackgroundTasks(v)>>
      [] k = "Schema" -> <<schemaToProto(v)>>
      [] k = "Assets" -> <<GetWebAssets(v)>>
      [] k = "Subscription" -> <<subscriptionToProto(v)>>
      [] k = "Outcome" -> <<outcomeToProto(v)>>
      [] k = "Decision" -> <<middlewareDecisionToProto(v)>>
      [] k \in {"Forward", "ForwardStream"} -> <<buildProtoRequest(v)>>
      [] k = "Connect" -> <<connectInfoToProto(v)>>
      [] k = "Event" -> eventToProto(v)
      [] k = "MiddlewareRequest" -> <<middlewareRequestToProto(v)>>
      [] k = "MiddlewareEvent" -> <<middlewareEventToProto(v)>>
      [] k = "HttpRequest" -> <<httpRequestToProto(v)>>
      [] k = "Frame" -> frameToProto(v)
      [] k = "Invoke" -> invokeToProto(v)
      [] k = "OpenStream" -> openStreamToProto(v)
      [] k = "InvokeAnswer" -> hostAnswers(v)
      [] k = "Task" -> <<coreSendsTask(v)>>
      [] k = "Init" -> <<initToProto(v)>>
      [] k = "UpdateConfig" -> <<updateToProto(v)>>
      [] k = "RequestID" -> <<appendRequestIDToOutgoing(v)>>

fromProto(k, p) ==
    CASE k = "Info" -> InfoContext(p)
      [] k = "Models" -> convertModels(p)
      [] k = "Routes" -> Routes(p)
      [] k = "Tasks" -> BackgroundTasks(p)
      [] k = "Schema" -> schemaFromProto(p)
      [] k = "Assets" -> WebAssetsContext(p)
      [] k = "Subscription" -> subscriptionFromProto(p)
      [] k = "Outcome" -> outcomeFromProto(p)
      [] k = "Decision" -> middlewareDecisionFromProto(p)
      [] k = "Forward" -> forwardRequestFromProto(p)
      [] k = "ForwardStream" -> streamRequestFromProto(p)
      [] k = "Connect" -> convertConnectInfo(p)
      [] k = "Event" -> eventFromProto(p)
      [] k = "MiddlewareRequest" -> middlewareRequestFromProto(p)
      [] k = "MiddlewareEvent" -> middlewareEventFromProto(p)
      [] k = "HttpRequest" -> httpRequestFromProto(p)
      [] k = "Frame" -> frameFromProto(p)
      [] k \in {"Invoke", "OpenStream"} -> hostReads(p)
      [] k = "InvokeAnswer" -> invokeFromProto(p)
      [] k = "Task" -> taskFromProto(p)
      [] k = "Init" -> initFromProto(p)
      [] k = "UpdateConfig" -> updateFromProto(p)
      [] k = "RequestID" -> injectRequestIDFromIncoming(p)
-----------------------------------------------------------------------------
Init ==
    /\ phase = "idle"
    /\ kind = "none" /\ sent = Nil /\ wire = Nil /\ received = Nil
    /\ origin = Nil /\ admitted = Nil

Encode(k, v) ==
    /\ kind' = k
    /\ sent' = v
    /\ wire' = toProto(k, v)
    /\ phase' = IF wire' = Nil THEN "failed" ELSE "sent"
    /\ received' = Nil
    /\ UNCHANGED admitted

Send(k, v) ==
    /\ phase = "idle"
    /\ Encode(k, v)
    /\ UNCHANGED origin

Receive ==
    /\ phase = "sent"
    /\ phase' = "received"
    /\ received' = fromProto(kind, wire[1])
    /\ UNCHANGED <<kind, sent, wire, origin, admitted>>

\* Core tells a middleware plugin how a forward ended.
Report ==
    /\ phase = "received" /\ kind = "Outcome" /\ received.Usage # Nil
    /\ Encode("MiddlewareEvent",
              [f \in MiddlewareEvent |->
                  CASE f = "Usage" -> received.Usage
                    [] f = "Duration" -> received.Duration
                    [] f = "StatusCode" -> received.Upstream.StatusCode
                    [] f = "ResponseHeaders" -> received.Upstream.Headers
                    [] OTHER -> Zero])
    /\ origin' = <<sent>>

Admit ==
    /\ phase = "received" /\ kind = "Info"
    /\ phase' = "admitted"
    /\ admitted' = [Plans |-> NormalizeAccountPlans(received.AccountPlans),
                    Capabilities |-> ValidateCapabilities(received.Type, received.Capabilities)]
    /\ UNCHANGED <<kind, sent, wire, received, origin>>

\* The message has been dealt with.
Done ==
    /\ phase \in {"failed", "received", "admitted"}
    /\ phase' = "idle"
    /\ kind' = "none" /\ sent' = Nil /\ wire' = Nil /\ received' = Nil
    /\ origin' = Nil /\ admitted' = Nil

Next ==
    \/ \E k \in DOMAIN Inputs : \E v \in Inputs[k] : Send(k, v)
    \/ Receive
    \/ Report
    \/ Admit
    \/ Done

Spec == Init /\ [][Next]_vars
-----------------------------------------------------------------------------
(* What crossing the boundary may do to a value, stated without the conversions. *)

WholeMs(d) == IF d >= 0 THEN d - (d % PerMs) ELSE -((-d) - ((-d) % PerMs))

OutcomeKinds == {"Success", "ClientError", "AccountRateLimited", "AccountDead",
    "UpstreamTransient", "StreamAborted", "FamilyTransient", "AccountUnavailable",
    "AccountQuotaExhausted"}

\* JSON has no text for the payload.
HasFunc(payload) == \E k \in DOMAIN payload : payload[k] = "func"

AsFloat(payload) == [k \in DOMAIN payload |-> IF payload[k] = "int" THEN "float" ELSE payload[k]]

Expected(k, v) ==
    CASE k = "Outcome" ->
            [v EXCEPT !.Kind = IF @ \in OutcomeKinds THEN @ ELSE "Unknown",
                      !.Duration = WholeMs(@), !.RetryAfter = WholeMs(@)]
      [] k = "MiddlewareEvent" -> [v EXCEPT !.Duration = WholeMs(@)]
      [] k = "Tasks" -> [i \in DOMAIN v |-> [v[i] EXCEPT !.Interval = WholeMs(@)]]
      [] k \in {"Frame", "Invoke", "OpenStream", "InvokeAnswer"} ->
            [v EXCEPT !.Payload = AsFloat(@)]
      [] k = "Task" -> [v EXCEPT !.Input = IF HasFunc(@) THEN Empty ELSE AsFloat(@)]
      [] k = "Init" ->
            [Config |-> [x \in DOMAIN v \ {LogLevelKey} |-> v[x]],
             LogLevel |-> IF LogLevelKey \in DOMAIN v THEN v[LogLevelKey] ELSE Zero]
      [] k = "Event" ->
            [v EXCEPT !.Payload = AsFloat(@),
                      !.OccurredAt = IF @ = Nil \/ @[1] < PerMs THEN Nil
                                     ELSE <<WholeMs(@[1])>>]
      [] k = "ForwardStream" -> [v EXCEPT !.Stream = "Stream"]
      [] k = "Decision" -> IF v = Nil THEN Allow ELSE v[1]
      [] OTHER -> v

\* The receiver of a message has every field the sender set, with the sender's
\* value, but for what the format cannot hold: part of a millisecond, an integer
\* in a JSON payload (a float64 on arrival), an event's time before the first
\* millisecond of 1970 (no time on arrival) and an outcome kind this SDK does not
\* know. An unset quote stays distinct from one of zero, no decision means allow,
\* and the usage Core passes on to a middleware plugin is the one the gateway
\* plugin reported, after both conversions. Only a payload that is not JSON is
\* refused, or left out when it is the input of a task. Init, and it alone, takes the
\* log level out of the configuration.
Faithful ==
    /\ phase \in {"received", "admitted"} =>
        /\ received = Expected(kind, sent)
        /\ origin # Nil => received.Usage = origin[1].Usage
    /\ phase = "failed" <=>
        kind \in {"Event", "Frame", "Invoke", "OpenStream", "InvokeAnswer"} /\ HasFunc(sent.Payload)

Elements(s) == {s[i] : i \in DOMAIN s}

\* What an account plan must be when it is kept: its key is the declared one, well formed
\* and none of the words Core reserves; its mode is one the SDK knows; its matches are
\* the declared ones, or the key when there are none, each once and none blank; and
\* a match still has a letter or a digit when the mode compares nothing else.
KeptPlan(declared, plan) ==
    /\ plan.Key = Trim[declared.Key] /\ plan.Key \in WellFormedKeys
    /\ Squash[plan.Key] \notin {"unknown", "none", "oauth", "apikey"}
    /\ plan.Label # Blank /\ plan.CredentialKey # Blank
    /\ plan.MatchMode \in {"exact", "contains", "normalized_contains"}
    /\ plan.Matches # Empty /\ Blank \notin Elements(plan.Matches)
    /\ Elements(plan.Matches) = IF declared.Matches = Empty THEN {plan.Key}
                                ELSE {Trim[m] : m \in Elements(declared.Matches)}
    /\ Cardinality(Elements(plan.Matches)) = Len(plan.Matches)
    /\ plan.MatchMode = "normalized_contains" => Elements(plan.Matches) \subseteq Alphanumeric

\* The list Core keeps has the declared plans in their order, no account falls under two
\* of them by a spelling of the key, one credential tells them apart, and
\* normalizing the list again changes nothing.
PlansAreSound(declared, plans) ==
    /\ NormalizeAccountPlans(plans) = plans
    /\ Len(plans) = Len(declared)
    /\ \A i \in DOMAIN plans : KeptPlan(declared[i], plans[i])
    /\ \A i, j \in DOMAIN plans :
        /\ plans[i].CredentialKey = plans[j].CredentialKey
        /\ Squash[plans[i].Key] = Squash[plans[j].Key] => i = j

\* The report on what a plugin of type typ declared: effective is what the type may use,
\* the call of the Host for each of the three types and the reading of bodies for a
\* middleware alone; unknown is what is neither a call of the Host nor the reading of
\* bodies; denied is the rest. Each list has its members once, in the order of text.
CapabilitiesAreSound(typ, declared, report) ==
    LET host == HostMethods \cup {"host.invoke"}
        body == {"middleware.read_body"}
        usable == {c \in host : typ \in {"gateway", "extension", "middleware"}}
                  \cup {c \in body : typ = "middleware"}
    IN  /\ Elements(report.Effective) = declared \cap usable
        /\ Elements(report.Unknown) = declared \ (host \cup body)
        /\ Elements(report.Denied) = (declared \cap (host \cup body)) \ usable
        /\ \A list \in {report.Effective, report.Unknown, report.Denied} :
            \A i \in 2..Len(list) : Rank[list[i - 1]] < Rank[list[i]]

\* The account plans Core keeps are unambiguous and complete, each one can match an
\* account and none stands for a word Core reserves; and every capability a plugin
\* declares is reported once, in the one list that fits the plugin and in order.
\* Both are judged by what the plugin sent, on the other side of the wire.
AdmissionIsSound ==
    phase = "admitted" =>
        /\ admitted.Plans # Invalid => PlansAreSound(sent.AccountPlans, admitted.Plans)
        /\ CapabilitiesAreSound(sent.Type, Elements(sent.Capabilities), admitted.Capabilities)
=============================================================================
