------------------------------ MODULE WireFormat ------------------------------
(***************************************************************************)
(* The conversions between the SDK's structs and the protobuf messages that*)
(* Core and a plugin exchange. A message has the fields the sender set,    *)
(* under the SDK's names. Text, numbers that keep their width, flags and   *)
(* maps of text are opaque values.                                         *)
(***************************************************************************)
EXTENDS Values

CONSTANTS
    Zero,    \* the zero value of an opaque field
    PerMs,   \* units of a duration in one millisecond
    Half     \* the first number an int32 cannot hold, 2^31

ASSUME WireAssumption == PerMs \in Nat \ {0} /\ Half \in Nat \ {0}

\* Conversions Go does: int32(n), d.Milliseconds() and back.
Int32(n) == ((n + Half) % (2 * Half)) - Half
Milliseconds(d) == IF d >= 0 THEN d \div PerMs ELSE -((-d) \div PerMs)
Duration(ms) == ms * PerMs
-----------------------------------------------------------------------------
(* JSON, headers, accounts and forward requests. *)

\* A payload maps keys to "text", "int", "float" or "func", for which json.Marshal
\* has an error; JSON has one kind of number, which is read as a float64.
Encodable(m) == \A k \in DOMAIN m : m[k] # "func"

mapToJSONPayload(m) ==
    [k \in DOMAIN m |-> IF m[k] \in {"int", "float"} THEN "number" ELSE m[k]]

jsonPayloadToMap(j) == [k \in DOMAIN j |-> IF j[k] = "number" THEN "float" ELSE j[k]]

httpHeadersToProto(h) == [k \in DOMAIN h |-> <<[Values |-> h[k]]>>]

protoHeadersToHTTP(ph) == [k \in {k \in DOMAIN ph : ph[k] # Nil} |-> ph[k][1].Values]

Account == {"ID", "Name", "Platform", "Type", "Credentials", "ProxyURL"}

\* The credentials travel as JSON text: a map from text to text.
accountToProto(a) ==
    Copy(a, {"ID", "Name", "Platform", "Type", "ProxyURL"}) @@ [CredentialsJson |-> <<a.Credentials>>]

buildAccount(p) ==
    IF p = Nil THEN [f \in Account |-> IF f = "Credentials" THEN Empty ELSE Zero]
    ELSE Copy(p[1], {"ID", "Name", "Platform", "Type", "ProxyURL"})
         @@ [Credentials |-> IF p[1].CredentialsJson = Empty THEN Empty
                             ELSE p[1].CredentialsJson[1]]

WebSocketConnectInfo == {"Path", "Query", "Headers", "RemoteAddr", "ConnectionID", "Account"}

connectInfoToProto(i) ==
    Copy(i, {"Path", "Query", "RemoteAddr", "ConnectionID"})
    @@ [Headers |-> httpHeadersToProto(i.Headers), Account |-> <<accountToProto(i.Account)>>]

convertConnectInfo(p) ==
    Copy(p, {"Path", "Query", "RemoteAddr", "ConnectionID"})
    @@ [Headers |-> protoHeadersToHTTP(p.Headers), Account |-> buildAccount(p.Account)]

DispatchGate == {"RequiredOperation", "Status", "ErrorType", "Code", "Message"}

ZeroGate == [f \in DispatchGate |-> IF f = "Status" THEN 0 ELSE Zero]

dispatchGateToProto(g) ==
    Copy(g, {"RequiredOperation", "ErrorType", "Code", "Message"}) @@ [Status |-> Int32(g.Status)]

dispatchGateFromProto(p) ==
    IF p = Nil THEN ZeroGate
    ELSE Copy(p[1], {"RequiredOperation", "Status", "ErrorType", "Code", "Message"})

DispatchPlan == {"ClientModel", "SchedulingModel", "WireModel", "RuleID", "Operation",
                 "TimeoutProfile", "Gate"}

ZeroPlan == [f \in DispatchPlan |-> IF f = "Gate" THEN ZeroGate ELSE Zero]

dispatchPlanToProto(plan) ==
    IF plan = ZeroPlan THEN Nil
    ELSE <<Copy(plan, {"ClientModel", "SchedulingModel", "WireModel", "RuleID", "Operation",
                       "TimeoutProfile"})
           @@ [Gate |-> <<dispatchGateToProto(plan.Gate)>>]>>

dispatchPlanFromProto(p) ==
    IF p = Nil THEN ZeroPlan
    ELSE Copy(p[1], {"ClientModel", "SchedulingModel", "WireModel", "RuleID", "Operation",
                     "TimeoutProfile"})
         @@ [Gate |-> dispatchGateFromProto(p[1].Gate)]

\* Without its Writer, which stays with Core.
ForwardRequest == {"Account", "Body", "Headers", "Model", "DispatchPlan", "Stream",
                   "TraceFinalError"}

buildProtoRequest(r) ==
    Copy(r, {"Body", "Model", "Stream", "TraceFinalError"})
    @@ [Account |-> <<accountToProto(r.Account)>>, Headers |-> httpHeadersToProto(r.Headers),
        DispatchPlan |-> dispatchPlanToProto(r.DispatchPlan)]

\* Forward keeps the flag of the request, ForwardStream sets it.
forwardRequestFromProto(p) ==
    Copy(p, {"Body", "Model", "Stream", "TraceFinalError"})
    @@ [Account |-> buildAccount(p.Account), Headers |-> protoHeadersToHTTP(p.Headers),
        DispatchPlan |-> dispatchPlanFromProto(p.DispatchPlan)]

streamRequestFromProto(p) ==
    Copy(p, {"Body", "Model", "TraceFinalError"})
    @@ [Account |-> buildAccount(p.Account), Headers |-> protoHeadersToHTTP(p.Headers),
        DispatchPlan |-> dispatchPlanFromProto(p.DispatchPlan), Stream |-> "Stream"]
-----------------------------------------------------------------------------
(* The verdict of a forward, and the usage it reports. *)

KindToProto == [
    Success |-> "OUTCOME_SUCCESS", ClientError |-> "OUTCOME_CLIENT_ERROR",
    AccountRateLimited |-> "OUTCOME_ACCOUNT_RATE_LIMITED",
    AccountDead |-> "OUTCOME_ACCOUNT_DEAD",
    UpstreamTransient |-> "OUTCOME_UPSTREAM_TRANSIENT",
    StreamAborted |-> "OUTCOME_STREAM_ABORTED",
    FamilyTransient |-> "OUTCOME_FAMILY_TRANSIENT",
    AccountUnavailable |-> "OUTCOME_ACCOUNT_UNAVAILABLE",
    AccountQuotaExhausted |-> "OUTCOME_ACCOUNT_QUOTA_EXHAUSTED"]

outcomeKindToProto(k) ==
    IF k \in DOMAIN KindToProto THEN KindToProto[k] ELSE "OUTCOME_UNKNOWN"

KindFromProto == [
    OUTCOME_SUCCESS |-> "Success", OUTCOME_CLIENT_ERROR |-> "ClientError",
    OUTCOME_ACCOUNT_RATE_LIMITED |-> "AccountRateLimited",
    OUTCOME_ACCOUNT_DEAD |-> "AccountDead",
    OUTCOME_UPSTREAM_TRANSIENT |-> "UpstreamTransient",
    OUTCOME_STREAM_ABORTED |-> "StreamAborted",
    OUTCOME_FAMILY_TRANSIENT |-> "FamilyTransient",
    OUTCOME_ACCOUNT_UNAVAILABLE |-> "AccountUnavailable",
    OUTCOME_ACCOUNT_QUOTA_EXHAUSTED |-> "AccountQuotaExhausted"]

outcomeKindFromProto(k) ==
    IF k \in DOMAIN KindFromProto THEN KindFromProto[k] ELSE "Unknown"

BillingAdjustments == {"ChargeOverride", "ChargeAddon", "APIKeyBaseCost"}

\* Mutant of cloneBillingAmount: quotes held by value, so that an unset one becomes zero.
cloneBillingAmountByValue(value) == IF value = Nil THEN <<Zero>> ELSE value

\* A quote is Nil, unspecified, or a copy of an amount, zero included.
cloneBillingAmount(value) == Each(value, LAMBDA amount : amount)

Usage == {"Model", "AccountCost", "UserCost", "BillingMultiplier", "Currency", "Summary",
    "FirstEventMs", "FirstTokenMs", "WSDialMs", "InputTokens", "OutputTokens",
    "CachedInputTokens", "CacheCreationTokens", "ReasoningOutputTokens", "ReasoningEffort",
    "InputPrice", "OutputPrice", "CachedInputPrice", "CacheCreationPrice", "InputCost",
    "OutputCost", "CachedInputCost", "CacheCreationCost", "Metadata", "Billing"}

usageToProto(u) ==
    Copy(u, {"Model", "AccountCost", "UserCost", "BillingMultiplier", "Currency", "Summary",
        "FirstEventMs", "FirstTokenMs", "WSDialMs", "Metadata", "InputTokens", "OutputTokens",
        "CachedInputTokens", "CacheCreationTokens", "ReasoningOutputTokens",
        "ReasoningEffort", "InputPrice", "OutputPrice", "CachedInputPrice",
        "CacheCreationPrice", "InputCost", "OutputCost", "CachedInputCost",
        "CacheCreationCost"})
    @@ [Billing |-> Each(u.Billing, LAMBDA b :
                        [f \in BillingAdjustments |-> cloneBillingAmount(b[f])])]

usageFromProto(p) ==
    Copy(p, {"Model", "AccountCost", "UserCost", "BillingMultiplier", "Currency", "Summary",
        "FirstEventMs", "FirstTokenMs", "WSDialMs", "Metadata", "InputTokens", "OutputTokens",
        "CachedInputTokens", "CacheCreationTokens", "ReasoningOutputTokens",
        "ReasoningEffort", "InputPrice", "OutputPrice", "CachedInputPrice",
        "CacheCreationPrice", "InputCost", "OutputCost", "CachedInputCost",
        "CacheCreationCost"})
    @@ [Billing |-> Each(p.Billing, LAMBDA b :
                        [f \in BillingAdjustments |-> cloneBillingAmount(b[f])])]

UpstreamResponse == {"StatusCode", "Headers", "Body"}

upstreamToProto(u) ==
    [StatusCode |-> Int32(u.StatusCode), Headers |-> httpHeadersToProto(u.Headers),
     Body |-> u.Body]

upstreamFromProto(p) ==
    [StatusCode |-> p.StatusCode, Headers |-> protoHeadersToHTTP(p.Headers), Body |-> p.Body]

OutboundRequestDiagnostic ==
    {"Transport", "Method", "URL", "Headers", "Body", "StatusCode", "BodyOriginalSize"}

FinalErrorDiagnostic == {"OutboundRequests", "UpstreamErrorBody"}

finalErrorDiagnosticToProto(d) ==
    LET request(r) == <<Copy(r, {"Transport", "Method", "URL", "Body", "BodyOriginalSize"})
                        @@ [Headers |-> httpHeadersToProto(r.Headers),
                            StatusCode |-> Int32(r.StatusCode)]>>
    IN  [UpstreamErrorBody |-> d.UpstreamErrorBody,
         OutboundRequests |-> Each(d.OutboundRequests, request)]

finalErrorDiagnosticFromProto(p) ==
    LET request(r) == Copy(r, {"Transport", "Method", "URL", "Body", "StatusCode",
                               "BodyOriginalSize"})
                      @@ [Headers |-> protoHeadersToHTTP(r.Headers)]
    IN  [UpstreamErrorBody |-> p.UpstreamErrorBody,
         OutboundRequests |-> Each(NonNil(p.OutboundRequests), request)]

ForwardOutcome == {"Kind", "FailoverScope", "ModelFallbackReason", "Upstream", "Usage",
    "Duration", "RetryAfter", "Reason", "UpdatedCredentials", "FinalErrorDiagnostic",
    "SafetyRejected"}

outcomeToProto(o) ==
    Copy(o, {"FailoverScope", "ModelFallbackReason", "Reason", "UpdatedCredentials",
             "SafetyRejected"})
    @@ [Kind |-> outcomeKindToProto(o.Kind), Upstream |-> upstreamToProto(o.Upstream),
        DurationMs |-> Milliseconds(o.Duration), RetryAfterMs |-> Milliseconds(o.RetryAfter),
        Usage |-> Each(o.Usage, usageToProto),
        FinalErrorDiagnostic |-> Each(o.FinalErrorDiagnostic, finalErrorDiagnosticToProto)]

outcomeFromProto(p) ==
    Copy(p, {"FailoverScope", "ModelFallbackReason", "Reason", "UpdatedCredentials",
             "SafetyRejected"})
    @@ [Kind |-> outcomeKindFromProto(p.Kind), Upstream |-> upstreamFromProto(p.Upstream),
        Duration |-> Duration(p.DurationMs), RetryAfter |-> Duration(p.RetryAfterMs),
        Usage |-> Each(p.Usage, usageFromProto),
        FinalErrorDiagnostic |-> Each(p.FinalErrorDiagnostic, finalErrorDiagnosticFromProto)]
-----------------------------------------------------------------------------
(* What a plugin declares: its information, its catalog and its schema. *)

DispatchWhen ==
    {"Methods", "Paths", "PathPrefixes", "Models", "ModelPrefixes", "ModelSuffixes"}

dispatchWhenToProto(w) ==
    Copy(w, {"Methods", "Paths", "PathPrefixes", "Models", "ModelPrefixes", "ModelSuffixes"})

dispatchWhenFromProto(p) ==
    Copy(p, {"Methods", "Paths", "PathPrefixes", "Models", "ModelPrefixes", "ModelSuffixes"})

dispatchModelToProto(m) == [StripSuffix |-> m.StripSuffix]
dispatchModelFromProto(p) == [StripSuffix |-> p.StripSuffix]

DispatchCandidate == {"Scheduling", "Wire"}

dispatchCandidatesToProto(items) == Each(items, LAMBDA c : <<Copy(c, {"Scheduling", "Wire"})>>)

dispatchCandidatesFromProto(items) ==
    Each(NonNil(items), LAMBDA c : Copy(c, {"Scheduling", "Wire"}))

DispatchRule == {"ID", "When", "Model", "Operation", "TimeoutProfile", "Gate",
                 "ContextWindowFallback", "Candidates"}

\* A DispatchDSL is the list of its rules.
dispatchDSLToProto(rules) ==
    LET rule(r) ==
            Copy(r, {"ID", "Operation", "TimeoutProfile", "ContextWindowFallback"})
            @@ [When |-> dispatchWhenToProto(r.When), Model |-> dispatchModelToProto(r.Model),
                Gate |-> <<dispatchGateToProto(r.Gate)>>,
                Candidates |-> dispatchCandidatesToProto(r.Candidates)]
    IN  IF rules = Empty THEN Nil ELSE <<Each(rules, LAMBDA r : <<rule(r)>>)>>

dispatchDSLFromProto(p) ==
    LET rule(r) ==
            Copy(r, {"ID", "Operation", "TimeoutProfile", "ContextWindowFallback"})
            @@ [When |-> dispatchWhenFromProto(r.When),
                Model |-> dispatchModelFromProto(r.Model),
                Gate |-> dispatchGateFromProto(r.Gate),
                Candidates |-> dispatchCandidatesFromProto(r.Candidates)]
    IN  IF p = Nil THEN Empty ELSE Each(NonNil(p[1]), rule)

AccountPlan == {"Key", "Label", "CredentialKey", "MatchMode", "Matches"}

accountPlansToProto(plans) ==
    Each(plans,
         LAMBDA p : <<Copy(p, {"Key", "Label", "CredentialKey", "MatchMode", "Matches"})>>)

accountPlansFromProto(plans) ==
    Each(NonNil(plans),
         LAMBDA p : Copy(p, {"Key", "Label", "CredentialKey", "MatchMode", "Matches"}))

ConfigField ==
    {"Key", "Label", "Type", "Required", "Default", "Description", "Placeholder", "Options"}
ConfigOption == {"Value", "Label"}
CredentialField == {"Key", "Label", "Type", "Required", "Placeholder", "EditDisabled"}
AccountType == {"Key", "Label", "Description", "Fields"}
FrontendPage == {"Path", "Title", "Icon", "Description", "Audience"}
FrontendWidget == {"Slot", "EntryFile", "Title"}

PluginInfo == {"ID", "Name", "Version", "SDKVersion", "Description", "Author", "Type",
    "Dependencies", "ConfigSchema", "AccountTypes", "AccountPlans", "FrontendPages",
    "FrontendWidgets", "InstructionPresets", "Capabilities", "DispatchDSL", "Metadata",
    "Priority"}

\* PluginGRPCServer.GetInfo
GetInfo(info) ==
    LET option(o) == Copy(o, {"Value", "Label"})
        config(c) == Copy(c, {"Key", "Label", "Type", "Required", "Default", "Description",
                              "Placeholder"})
                     @@ [Options |-> Each(c.Options, option)]
        credential(f) == Copy(f, {"Key", "Label", "Type", "Required", "Placeholder",
                                  "EditDisabled"})
        type(t) == Copy(t, {"Key", "Label", "Description"})
                   @@ [Fields |-> Each(t.Fields, credential)]
        page(p) == Copy(p, {"Path", "Title", "Icon", "Description", "Audience"})
        widget(w) == Copy(w, {"Slot", "EntryFile", "Title"})
    IN  Copy(info, {"ID", "Name", "Version", "Description", "Author", "Type", "SDKVersion",
                    "Dependencies", "Metadata", "InstructionPresets", "Capabilities",
                    "Priority"})
        @@ [DispatchDSL |-> dispatchDSLToProto(info.DispatchDSL),
            AccountPlans |-> accountPlansToProto(info.AccountPlans),
            ConfigSchema |-> Each(info.ConfigSchema, config),
            AccountTypes |-> Each(info.AccountTypes, type),
            FrontendPages |-> Each(info.FrontendPages, page),
            FrontendWidgets |-> Each(info.FrontendWidgets, widget)]

\* pluginBase.InfoContext, after the answer came
InfoContext(resp) ==
    LET option(o) == Copy(o, {"Value", "Label"})
        config(c) == Copy(c, {"Key", "Label", "Type", "Required", "Default", "Description",
                              "Placeholder"})
                     @@ [Options |-> Each(c.Options, option)]
        credential(f) == Copy(f, {"Key", "Label", "Type", "Required", "Placeholder",
                                  "EditDisabled"})
        type(t) == Copy(t, {"Key", "Label", "Description"})
                   @@ [Fields |-> Each(t.Fields, credential)]
        page(p) == Copy(p, {"Path", "Title", "Icon", "Description", "Audience"})
        widget(w) == Copy(w, {"Slot", "EntryFile", "Title"})
    IN  Copy(resp, {"ID", "Name", "Version", "SDKVersion", "Description", "Author", "Type",
                    "Dependencies", "Metadata", "InstructionPresets", "Capabilities",
                    "Priority"})
        @@ [DispatchDSL |-> dispatchDSLFromProto(resp.DispatchDSL),
            AccountPlans |-> accountPlansFromProto(resp.AccountPlans),
            ConfigSchema |-> Each(resp.ConfigSchema, config),
            AccountTypes |-> Each(resp.AccountTypes, type),
            FrontendPages |-> Each(resp.FrontendPages, page),
            FrontendWidgets |-> Each(resp.FrontendWidgets, widget)]

ModelInfo == {"ID", "Name", "ContextWindow", "MaxOutputTokens", "Capabilities", "Metadata"}

GetModels(models) ==
    Each(models, LAMBDA m : Copy(m, {"ID", "Name", "ContextWindow", "MaxOutputTokens",
                                     "Capabilities", "Metadata"}))

convertModels(pbModels) ==
    Each(pbModels, LAMBDA m : Copy(m, {"ID", "Name", "ContextWindow", "MaxOutputTokens",
                                       "Capabilities", "Metadata"}))

RouteDefinition == {"Method", "Path", "Description", "Metadata"}

GetRoutes(routes) ==
    Each(routes, LAMBDA r : Copy(r, {"Method", "Path", "Description", "Metadata"}))

Routes(pbRoutes) ==
    Each(pbRoutes, LAMBDA r : Copy(r, {"Method", "Path", "Description", "Metadata"}))

\* A BackgroundTask's Handler stays with the plugin: Core runs a task by its name.
GetBackgroundTasks(tasks) ==
    Each(tasks, LAMBDA t : [Name |-> t.Name, IntervalMs |-> Milliseconds(t.Interval)])

BackgroundTasks(pbTasks) ==
    Each(pbTasks, LAMBDA t : [Name |-> t.Name, Interval |-> Duration(t.IntervalMs)])

PayloadSchema == {"ContentType", "Schema", "Example", "Metadata"}

ZeroPayload == [f \in PayloadSchema |-> Zero]

payloadSchemaToProto(s) ==
    IF s = ZeroPayload THEN Nil
    ELSE <<Copy(s, {"ContentType", "Schema", "Example", "Metadata"})>>

payloadSchemaFromProto(p) ==
    IF p = Nil THEN ZeroPayload
    ELSE Copy(p[1], {"ContentType", "Schema", "Example", "Metadata"})

RouteSchema == {"Method", "Path", "Summary", "Request", "Response", "Metadata"}
TaskSchema == {"Type", "Summary", "Input", "Output", "Metadata"}
EventSchema == {"Type", "Source", "Summary", "Payload", "Metadata"}
InvokeSchema == {"Method", "Summary", "Transport", "Request", "Response", "ClientFrame",
                 "ServerFrame", "Metadata"}
PluginSchema == {"Routes", "Tasks", "Events", "Invokes", "Metadata"}

\* v with the payload schemas in fields converted by Op, and the others copied.
CopyPayloads(v, others, payloads, Op(_)) == Copy(v, others) @@ [f \in payloads |-> Op(v[f])]

schemaToProto(s) ==
    LET P(x) == payloadSchemaToProto(x)
        route(r) == CopyPayloads(r, {"Method", "Path", "Summary", "Metadata"},
                                 {"Request", "Response"}, P)
        task(t) == CopyPayloads(t, {"Type", "Summary", "Metadata"}, {"Input", "Output"}, P)
        event(e) == CopyPayloads(e, {"Type", "Source", "Summary", "Metadata"}, {"Payload"}, P)
        invoke(i) == CopyPayloads(i, {"Method", "Summary", "Transport", "Metadata"},
                                  {"Request", "Response", "ClientFrame", "ServerFrame"}, P)
    IN  [Metadata |-> s.Metadata, Routes |-> Each(s.Routes, route),
         Tasks |-> Each(s.Tasks, task), Events |-> Each(s.Events, event),
         Invokes |-> Each(s.Invokes, invoke)]

schemaFromProto(p) ==
    LET P(x) == payloadSchemaFromProto(x)
        route(r) == CopyPayloads(r, {"Method", "Path", "Summary", "Metadata"},
                                 {"Request", "Response"}, P)
        task(t) == CopyPayloads(t, {"Type", "Summary", "Metadata"}, {"Input", "Output"}, P)
        event(e) == CopyPayloads(e, {"Type", "Source", "Summary", "Metadata"}, {"Payload"}, P)
        invoke(i) == CopyPayloads(i, {"Method", "Summary", "Transport", "Metadata"},
                                  {"Request", "Response", "ClientFrame", "ServerFrame"}, P)
    IN  [Metadata |-> p.Metadata, Routes |-> Each(p.Routes, route),
         Tasks |-> Each(p.Tasks, task), Events |-> Each(p.Events, event),
         Invokes |-> Each(p.Invokes, invoke)]
-----------------------------------------------------------------------------
(* Events, middleware and the frames of a call to the Host. *)

EventSubscription == {"Type", "Source", "Filter", "Metadata"}

subscriptionToProto(s) == Copy(s, {"Type", "Source", "Filter", "Metadata"})
subscriptionFromProto(p) == Copy(p, {"Type", "Source", "Filter", "Metadata"})

PluginEvent == {"ID", "Type", "Source", "Subject", "UserID", "GroupID", "Payload",
                "Metadata", "OccurredAt"}

\* A time is Nil, the zero time, or its distance from 1970; UnixMilli rounds down.
eventToProto(e) ==
    IF ~Encodable(e.Payload) THEN Nil
    ELSE <<Copy(e, {"ID", "Type", "Source", "Subject", "UserID", "GroupID", "Metadata"})
           @@ [Payload |-> mapToJSONPayload(e.Payload),
               OccurredAt |-> IF e.OccurredAt = Nil THEN 0 ELSE e.OccurredAt[1] \div PerMs]>>

eventFromProto(p) ==
    Copy(p, {"ID", "Type", "Source", "Subject", "UserID", "GroupID", "Metadata"})
    @@ [Payload |-> jsonPayloadToMap(p.Payload),
        OccurredAt |-> IF p.OccurredAt > 0 THEN <<Duration(p.OccurredAt)>> ELSE Nil]

MiddlewareRequest == {"RequestID", "UserID", "GroupID", "AccountID", "Platform", "Model",
                      "Stream", "Metadata", "RequestBody", "RequestHeaders"}

middlewareRequestToProto(r) ==
    Copy(r, {"RequestID", "UserID", "GroupID", "AccountID", "Platform", "Model", "Stream",
             "Metadata", "RequestBody"})
    @@ [RequestHeaders |-> httpHeadersToProto(r.RequestHeaders)]

middlewareRequestFromProto(p) ==
    Copy(p, {"RequestID", "UserID", "GroupID", "AccountID", "Platform", "Model", "Stream",
             "Metadata", "RequestBody"})
    @@ [RequestHeaders |-> protoHeadersToHTTP(p.RequestHeaders)]

MiddlewareEvent == {"RequestID", "UserID", "GroupID", "AccountID", "Platform", "Model",
    "Stream", "StatusCode", "Duration", "Usage", "ErrorKind", "ErrorMsg", "Metadata",
    "ResponseBody", "ResponseHeaders"}

\* StatusCode is an int32 that travels as an int64.
middlewareEventToProto(e) ==
    Copy(e, {"RequestID", "UserID", "GroupID", "AccountID", "Platform", "Model", "Stream",
             "StatusCode", "ErrorKind", "ErrorMsg", "Metadata", "ResponseBody"})
    @@ [DurationMs |-> Milliseconds(e.Duration),
        Usage |-> Each(e.Usage, usageToProto),
        ResponseHeaders |-> httpHeadersToProto(e.ResponseHeaders)]

middlewareEventFromProto(p) ==
    Copy(p, {"RequestID", "UserID", "GroupID", "AccountID", "Platform", "Model", "Stream",
             "ErrorKind", "ErrorMsg", "Metadata", "ResponseBody"})
    @@ [StatusCode |-> Int32(p.StatusCode), Duration |-> Duration(p.DurationMs),
        Usage |-> Each(p.Usage, usageFromProto),
        ResponseHeaders |-> protoHeadersToHTTP(p.ResponseHeaders)]

MiddlewareDecision == {"Action", "DenyStatusCode", "DenyMessage", "SetHeaders", "Metadata"}

\* DecisionAllow is the zero action; no decision is sent as the one that allows.
Allow == [f \in MiddlewareDecision |-> IF f = "SetHeaders" THEN Empty ELSE Zero]

middlewareDecisionToProto(d) ==
    IF d = Nil THEN Allow
    ELSE Copy(d[1], {"Action", "DenyStatusCode", "DenyMessage", "Metadata"})
         @@ [SetHeaders |-> httpHeadersToProto(d[1].SetHeaders)]

middlewareDecisionFromProto(p) ==
    Copy(p, {"Action", "DenyStatusCode", "DenyMessage", "Metadata"})
    @@ [SetHeaders |-> protoHeadersToHTTP(p.SetHeaders)]

HostStreamFrame == {"Event", "Status", "Payload", "Metadata", "Done"}

\* hostStream.Send and hostStream.Recv
frameToProto(f) ==
    IF ~Encodable(f.Payload) THEN Nil
    ELSE <<Copy(f, {"Event", "Status", "Metadata", "Done"})
           @@ [Payload |-> mapToJSONPayload(f.Payload)]>>

frameFromProto(p) ==
    Copy(p, {"Event", "Status", "Metadata", "Done"})
    @@ [Payload |-> jsonPayloadToMap(p.Payload)]

HostInvokeRequest == {"Method", "Payload", "IdempotencyKey", "Metadata"}
HostInvokeResponse == {"Status", "Payload", "Metadata"}

\* hostClient.Invoke, and InvokeStream for the first frame of a stream.
invokeToProto(r) ==
    IF ~Encodable(r.Payload) THEN Nil
    ELSE <<Copy(r, {"Method", "IdempotencyKey", "Metadata"})
           @@ [Payload |-> mapToJSONPayload(r.Payload)]>>

openStreamToProto(r) ==
    IF ~Encodable(r.Payload) THEN Nil
    ELSE <<Copy(r, {"Method", "IdempotencyKey", "Metadata"})
           @@ [Payload |-> mapToJSONPayload(r.Payload)]>>

\* Core's Host reads the request and answers.
hostReads(p) ==
    Copy(p, {"Method", "IdempotencyKey", "Metadata"}) @@ [Payload |-> jsonPayloadToMap(p.Payload)]

hostAnswers(r) ==
    IF ~Encodable(r.Payload) THEN Nil
    ELSE <<Copy(r, {"Status", "Metadata"}) @@ [Payload |-> mapToJSONPayload(r.Payload)]>>

invokeFromProto(p) ==
    Copy(p, {"Status", "Metadata"}) @@ [Payload |-> jsonPayloadToMap(p.Payload)]

\* Fields of HostTask that ProcessTask's request has; an input that is not JSON is
\* dropped.
HostTask == {"ID", "TaskType", "UserID", "Input"}

coreSendsTask(t) ==
    Copy(t, {"ID", "TaskType", "UserID"})
    @@ [Input |-> IF Encodable(t.Input) THEN mapToJSONPayload(t.Input) ELSE Empty]

taskFromProto(p) ==
    Copy(p, {"ID", "TaskType", "UserID"})
    @@ [Input |-> jsonPayloadToMap(p.Input)]

LogLevelKey == "_log_level"

\* The configuration of a plugin. Init takes the log level out of it.
initToProto(config) ==
    [Config |-> [k \in DOMAIN config \ {LogLevelKey} |-> config[k]],
     LogLevel |-> IF LogLevelKey \in DOMAIN config THEN config[LogLevelKey] ELSE Zero]

initFromProto(p) == [Config |-> p.Config, LogLevel |-> p.LogLevel]

updateToProto(config) == [Config |-> config]
updateFromProto(p) == p.Config

\* The request's ID travels in the metadata of the RPC, as a list of values.
appendRequestIDToOutgoing(id) == IF id = Zero THEN Empty ELSE <<id>>
injectRequestIDFromIncoming(md) == IF md = Empty THEN Zero ELSE md[1]

HttpRequest == {"Method", "Path", "Query", "Headers", "Body"}

\* pluginBase.HandleHTTPRequest and PluginGRPCServer.HandleRequest
httpRequestToProto(r) ==
    Copy(r, {"Method", "Path", "Query", "Body"}) @@ [Headers |-> httpHeadersToProto(r.Headers)]

httpRequestFromProto(p) ==
    Copy(p, {"Method", "Path", "Query", "Body"}) @@ [Headers |-> protoHeadersToHTTP(p.Headers)]

\* Assets map paths to contents and travel as a list of files, in any order.
GetWebAssets(assets) ==
    [HasAssets |-> assets # Empty,
     Files |-> {[Path |-> p, Content |-> assets[p]] : p \in DOMAIN assets}]

WebAssetsContext(resp) ==
    IF ~resp.HasAssets THEN Empty
    ELSE [p \in {f.Path : f \in resp.Files} |->
            (CHOOSE f \in resp.Files : f.Path = p).Content]
=============================================================================
