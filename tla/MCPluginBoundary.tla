--------------------------- MODULE MCPluginBoundary ---------------------------
EXTENDS PluginBoundary

\* Texts and what the operations on text make of them.
MCTrim == [t \in {"", "pro", "p_ro", "max", "un_known", "Pro", "--", "plan_type", "tier"} |-> t]
          @@ [t \in {" "} |-> ""] @@ [t \in {" pro "} |-> "pro"]
MCSquash == [t \in {"", "pro", "max", "Pro", "--"} |-> t]
            @@ [p_ro |-> "pro"] @@ [un_known |-> "unknown"]
MCWellFormedKeys == {"pro", "p_ro", "max", "un_known"}
MCAlphanumeric == {"pro", "p_ro", "max", "un_known", "Pro"}
MCHostMethods == {"host.invoke.tasks"}
\* The prefix of the host's methods alone is no capability.
MCRank == [c \in {"host.invoke", "host.invoke.", "host.invoke.tasks", "middleware.read_body",
                  "typo"} |->
    CASE c = "host.invoke" -> 1 [] c = "host.invoke." -> 2 [] c = "host.invoke.tasks" -> 3
      [] c = "middleware.read_body" -> 4 [] c = "typo" -> 5]

\* A struct of opaque fields F with the fields in S set. The fields set are none,
\* all, one, or all but one: what a conversion that drops or swaps one gets wrong.
Set(F, S) == [f \in F |-> IF f \in S THEN f ELSE Zero]
Corners(F) == {{}, F} \cup {{f} : f \in F} \cup {F \ {f} : f \in F}
Structs(F) == {Set(F, S) : S \in Corners(F)}

\* Structs of F with the fields of G added: each value of G with no field of F and
\* with all, and each struct of F with the values in g.
Around(F, G, g) == {v @@ w : v \in {Set(F, {}), Set(F, F)}, w \in G}
                   \cup {v @@ w : v \in Structs(F), w \in g}

HeaderValues == {Empty, [k1 |-> "v1"], [k1 |-> "v1", k2 |-> "v2"]}
Statuses == {0, 200, Half - 1}
Lists(S) == {Empty} \cup {<<x>> : x \in S}

Accounts == Around(Account \ {"Credentials"},
                   {[Credentials |-> c] : c \in HeaderValues}, {[Credentials |-> Empty]})
Gates == Around(DispatchGate \ {"Status"}, {[Status |-> n] : n \in Statuses}, {[Status |-> 0]})
Plans == Around(DispatchPlan \ {"Gate"}, {[Gate |-> g] : g \in Gates}, {[Gate |-> ZeroGate]})
NoAccount == [f \in Account |-> IF f = "Credentials" THEN Empty ELSE Zero]
Requests ==
    LET nothing == [Account |-> NoAccount, Headers |-> Empty, DispatchPlan |-> ZeroPlan]
    IN  Around({"Body", "Model", "Stream", "TraceFinalError"},
               {[nothing EXCEPT !.Account = a] : a \in Accounts}
               \cup {[nothing EXCEPT !.Headers = h] : h \in HeaderValues}
               \cup {[nothing EXCEPT !.DispatchPlan = p] : p \in Plans}, {nothing})
Connects ==
    Around({"Path", "Query", "RemoteAddr", "ConnectionID"},
           {[Headers |-> h, Account |-> NoAccount] : h \in HeaderValues}
           \cup {[Headers |-> Empty, Account |-> a] : a \in Accounts},
           {[Headers |-> Empty, Account |-> NoAccount]})

Amounts == {Nil, <<Zero>>, <<"quote">>}
Usages == Around(Usage \ {"Billing"},
                 {[Billing |-> b] : b \in {Nil} \cup {<<a>> : a \in [BillingAdjustments -> Amounts]}},
                 {[Billing |-> Nil]})
Diagnostics ==
    LET requests == Around(OutboundRequestDiagnostic \ {"Headers", "StatusCode"},
                           [Headers : HeaderValues, StatusCode : Statuses],
                           {[Headers |-> Empty, StatusCode |-> 0]})
    IN  Around({"UpstreamErrorBody"}, {[OutboundRequests |-> r] : r \in Lists(requests)},
               {[OutboundRequests |-> Empty]})
Durations == {0, PerMs - 1, PerMs, 2 * PerMs + 1, -(PerMs + 1)}
Outcomes ==
    LET nothing == [Kind |-> "Unknown", Upstream |-> [StatusCode |-> 0, Headers |-> Empty, Body |-> Zero],
                    Usage |-> Nil, Duration |-> 0, RetryAfter |-> 0, FinalErrorDiagnostic |-> Nil]
    IN  Around({"FailoverScope", "ModelFallbackReason", "Reason", "UpdatedCredentials",
                "SafetyRejected"},
               {[nothing EXCEPT !.Kind = k] : k \in OutcomeKinds \cup {"Unknown", "Future"}}
               \cup {[nothing EXCEPT !.Upstream = u] :
                        u \in [StatusCode : Statuses, Headers : HeaderValues, Body : {Zero, "Body"}]}
               \cup {[nothing EXCEPT !.Usage = <<u>>] : u \in Usages}
               \cup {[nothing EXCEPT !.Duration = d] : d \in Durations}
               \cup {[nothing EXCEPT !.RetryAfter = d] : d \in Durations}
               \cup {[nothing EXCEPT !.FinalErrorDiagnostic = <<d>>] : d \in Diagnostics},
               {nothing})

ZeroRule == [Candidates |-> Empty, Gate |-> ZeroGate, When |-> Set(DispatchWhen, {}),
             Model |-> [StripSuffix |-> Zero]]
Rules ==
    Around({"ID", "Operation", "TimeoutProfile", "ContextWindowFallback"},
           {[ZeroRule EXCEPT !.Candidates = c] : c \in Lists(Structs(DispatchCandidate))}
           \cup {[ZeroRule EXCEPT !.Gate = g] : g \in Gates}
           \cup {[ZeroRule EXCEPT !.When = w] : w \in Structs(DispatchWhen)}
           \cup {[ZeroRule EXCEPT !.Model = m] : m \in [StripSuffix : {Zero, "suffix"}]},
           {ZeroRule})

PlainPlan(key) == [Key |-> key, Label |-> "", CredentialKey |-> "", MatchMode |-> "",
                   Matches |-> Empty]
AccountPlans ==
    {<<p>> : p \in [Key : {" pro ", "un_known", "Pro"}, Label : {" ", "max"},
                    CredentialKey : {"", "tier"},
                    MatchMode : {"", "exact", "normalized_contains", "regexp"},
                    Matches : {Empty, <<"pro", " pro ">>, <<"--", "max">>, <<" ">>}]}
    \cup {<<[PlainPlan(a) EXCEPT !.CredentialKey = x], [PlainPlan(b) EXCEPT !.CredentialKey = y]>> :
             a, b \in {"pro", "p_ro", "max", ""}, x, y \in {"", "plan_type", "tier"}}
Fields == Structs(CredentialField)
Configs == Around(ConfigField \ {"Options"},
                  {[Options |-> o] : o \in Lists(Structs(ConfigOption))}, {[Options |-> Empty]})
Types == Around(AccountType \ {"Fields"}, {[Fields |-> f] : f \in Lists(Fields)},
                {[Fields |-> Empty]})
CapabilityLists == UNION {[1..n -> DOMAIN MCRank] : n \in 0..3}
NoInfo == [Type |-> "gateway", Capabilities |-> Empty, DispatchDSL |-> Empty,
           AccountPlans |-> Empty, ConfigSchema |-> Empty, AccountTypes |-> Empty,
           FrontendPages |-> Empty, FrontendWidgets |-> Empty]
Infos ==
    Around(PluginInfo \ DOMAIN NoInfo,
           {[NoInfo EXCEPT !.DispatchDSL = r] : r \in Lists(Rules)}
           \cup {[NoInfo EXCEPT !.AccountPlans = p] : p \in AccountPlans}
           \cup {[NoInfo EXCEPT !.ConfigSchema = c] : c \in Lists(Configs)}
           \cup {[NoInfo EXCEPT !.AccountTypes = t] : t \in Lists(Types)}
           \cup {[NoInfo EXCEPT !.FrontendPages = p] : p \in Lists(Structs(FrontendPage))}
           \cup {[NoInfo EXCEPT !.FrontendWidgets = w] : w \in Lists(Structs(FrontendWidget))}
           \cup {[NoInfo EXCEPT !.Type = t, !.Capabilities = c] :
                    t \in PluginTypes \cup {Zero}, c \in CapabilityLists},
           {NoInfo})

\* A schema entry with payload schemas in the fields P.
Entries(F, P) ==
    Around(F \ P, {[[f \in P |-> ZeroPayload] EXCEPT ![g] = s] :
                      g \in P, s \in Structs(PayloadSchema)}, {[f \in P |-> ZeroPayload]})
NoSchema == [Routes |-> Empty, Tasks |-> Empty, Events |-> Empty, Invokes |-> Empty]
Schemas ==
    Around({"Metadata"},
        {[NoSchema EXCEPT !.Routes = s] : s \in Lists(Entries(RouteSchema, {"Request", "Response"}))}
        \cup {[NoSchema EXCEPT !.Tasks = s] : s \in Lists(Entries(TaskSchema, {"Input", "Output"}))}
        \cup {[NoSchema EXCEPT !.Events = s] : s \in Lists(Entries(EventSchema, {"Payload"}))}
        \cup {[NoSchema EXCEPT !.Invokes = s] :
                 s \in Lists(Entries(InvokeSchema,
                                    {"Request", "Response", "ClientFrame", "ServerFrame"}))},
        {NoSchema})

Payloads == UNION {[K -> {"text", "int", "float", "func"}] : K \in SUBSET {"a", "b"}}
Events ==
    Around(PluginEvent \ {"Payload", "OccurredAt"},
           [Payload : Payloads, OccurredAt : Lists(Durations)],
           {[Payload |-> Empty, OccurredAt |-> Nil]})
MiddlewareEvents ==
    LET nothing == [StatusCode |-> 0, Duration |-> 0, Usage |-> Nil, ResponseHeaders |-> Empty]
    IN  Around(MiddlewareEvent \ DOMAIN nothing,
               {[nothing EXCEPT !.StatusCode = n] : n \in Statuses}
               \cup {[nothing EXCEPT !.Duration = d] : d \in Durations}
               \cup {[nothing EXCEPT !.Usage = <<u>>] : u \in Usages}
               \cup {[nothing EXCEPT !.ResponseHeaders = h] : h \in HeaderValues}, {nothing})

PayloadStructs(F) == Around(F \ {"Payload"}, [Payload : Payloads], {[Payload |-> Empty]})

\* F with headers in the field h
HeaderStructs(F, h) == Around(F \ {h}, [{h} -> HeaderValues], [{h} -> {Empty}])

MCInputs == [k \in {"Info", "Models", "Routes", "Tasks", "Schema", "Assets", "Subscription",
                    "Outcome", "Decision", "Forward", "ForwardStream", "Connect", "Event",
                    "MiddlewareRequest", "MiddlewareEvent", "HttpRequest", "Frame", "Invoke",
                    "OpenStream", "InvokeAnswer", "Task", "Init", "UpdateConfig", "RequestID"} |->
    CASE k = "Info" -> Infos
      [] k = "Models" -> Lists(Structs(ModelInfo))
      [] k = "Routes" -> Lists(Structs(RouteDefinition))
      [] k = "Tasks" -> Lists([Name : {Zero, "Name"}, Interval : Durations])
      [] k = "Schema" -> Schemas
      [] k = "Assets" -> HeaderValues
      [] k = "Subscription" -> Structs(EventSubscription)
      [] k = "Outcome" -> Outcomes
      [] k = "Decision" -> Lists(HeaderStructs(MiddlewareDecision, "SetHeaders"))
      [] k \in {"Forward", "ForwardStream"} -> Requests
      [] k = "Connect" -> Connects
      [] k = "Event" -> Events
      [] k = "MiddlewareRequest" -> HeaderStructs(MiddlewareRequest, "RequestHeaders")
      [] k = "MiddlewareEvent" -> MiddlewareEvents
      [] k = "HttpRequest" -> HeaderStructs(HttpRequest, "Headers")
      [] k = "Frame" -> PayloadStructs(HostStreamFrame)
      [] k \in {"Invoke", "OpenStream"} -> PayloadStructs(HostInvokeRequest)
      [] k = "InvokeAnswer" -> PayloadStructs(HostInvokeResponse)
      [] k = "Task" -> Around(HostTask \ {"Input"}, [Input : Payloads], {[Input |-> Empty]})
      [] k \in {"Init", "UpdateConfig"} -> UNION {[K -> {"x", "y"}] : K \in SUBSET {"k", LogLevelKey}}
      [] k = "RequestID" -> {Zero, "id"}]
=============================================================================
