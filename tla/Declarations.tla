----------------------------- MODULE Declarations -----------------------------
(***************************************************************************)
(* What the SDK makes of a plugin's declarations: NormalizeAccountPlans    *)
(* validates its account plans and completes them, ValidateCapabilities    *)
(* sorts its capabilities into effective, unknown and denied ones. The     *)
(* operations on text are given by tables over a finite set of texts.      *)
(***************************************************************************)
EXTENDS Values

CONSTANTS
    Trim,           \* text |-> the text without the space around it
    Squash,         \* text |-> the text without its underscores
    WellFormedKeys, \* texts that match ^[a-z][a-z0-9_]*$
    Alphanumeric,   \* texts that hold a letter or a digit
    HostMethods,    \* capabilities "host.invoke.<method>", with a method
    Rank,           \* capability |-> its place in the order of text
    Invalid         \* the result when a declaration is refused

Blank == ""

ASSUME DeclarationsAssumption ==
    /\ \A t \in DOMAIN Trim : Trim[t] \in DOMAIN Trim /\ Trim[Trim[t]] = Trim[t]
    /\ \A t \in {Blank, "plan_type"} : t \in DOMAIN Trim /\ Trim[t] = t
    /\ Blank \notin WellFormedKeys
    /\ "middleware.read_body" \notin HostMethods
    /\ Rank \in [DOMAIN Rank -> Nat]
    /\ \A c, d \in DOMAIN Rank : Rank[c] = Rank[d] => c = d

\* The elements of s, the first occurrence of each, in the order of s.
Distinct(s) == Pick(s, {i \in DOMAIN s : \A j \in 1..(i - 1) : s[j] # s[i]})
-----------------------------------------------------------------------------
AccountPlanMatch == {"exact", "contains", "normalized_contains"}

ReservedKeys == {"unknown", "none", "oauth", "apikey"}

\* text, or other when nothing is left of it
OrElse(text, other) == IF text = Blank THEN other ELSE text

\* The loop's body for one plan, before its checks.
completePlan(plan) ==
    LET key == Trim[plan.Key]
    IN  [Key |-> key,
         Label |-> OrElse(Trim[plan.Label], key),
         CredentialKey |-> OrElse(Trim[plan.CredentialKey], "plan_type"),
         MatchMode |-> OrElse(plan.MatchMode, "exact"),
         Matches |-> IF plan.Matches = <<>> THEN <<key>>
                     ELSE [i \in DOMAIN plan.Matches |-> Trim[plan.Matches[i]]]]

validKey(plan) == plan.Key \in WellFormedKeys /\ Squash[plan.Key] \notin ReservedKeys

\* Mutant of validMatches: a match of signs alone is taken, whatever the mode compares.
validMatchesOfSigns(plan) == \A i \in DOMAIN plan.Matches : plan.Matches[i] # Blank

validMatches(plan) ==
    \A i \in DOMAIN plan.Matches :
        /\ plan.Matches[i] # Blank
        /\ plan.MatchMode = "normalized_contains" => plan.Matches[i] \in Alphanumeric

\* Mutant of agreesWith: duplicate keys are looked for before the underscores are removed.
agreesWithRawKeys(plan, earlier) ==
    /\ plan.Key # earlier.Key
    /\ plan.CredentialKey = earlier.CredentialKey

\* keys[key] and credentialKey hold what the plans before this one used.
agreesWith(plan, earlier) ==
    /\ Squash[plan.Key] # Squash[earlier.Key]
    /\ plan.CredentialKey = earlier.CredentialKey

NormalizeAccountPlans(plans) ==
    LET done == [i \in DOMAIN plans |-> completePlan(plans[i])]
    IN  IF /\ \A i \in DOMAIN done : /\ validKey(done[i])
                                    /\ done[i].MatchMode \in AccountPlanMatch
                                    /\ validMatches(done[i])
           /\ \A i, j \in DOMAIN done : j < i => agreesWith(done[i], done[j])
        THEN [i \in DOMAIN done |-> [done[i] EXCEPT !.Matches = Distinct(@)]]
        ELSE Invalid
-----------------------------------------------------------------------------
PluginTypes == {"gateway", "extension", "middleware"}

capabilityAllowedTypes ==
    [c \in {"host.invoke", "middleware.read_body"} |->
        IF c = "host.invoke" THEN PluginTypes ELSE {"middleware"}]

IsKnownCapability(c) == c \in HostMethods \/ c \in DOMAIN capabilityAllowedTypes

allowedPluginTypesForCapability(c) ==
    IF c \in HostMethods THEN capabilityAllowedTypes["host.invoke"]
    ELSE capabilityAllowedTypes[c]

sorted(S) ==
    [n \in 1..Cardinality(S) |->
        CHOOSE c \in S : Cardinality({d \in S : Rank[d] <= Rank[c]}) = n]

\* Mutant of ValidateCapabilities: no type is allowed a capability the table does not
\* have, and what is unknown is reported as denied.
ValidateCapabilitiesByTypeAlone(typ, declared) ==
    LET all == {declared[i] : i \in DOMAIN declared}
        effective == {c \in all : /\ IsKnownCapability(c)
                                  /\ typ \in allowedPluginTypesForCapability(c)}
    IN  [Effective |-> sorted(effective), Unknown |-> <<>>, Denied |-> sorted(all \ effective)]

ValidateCapabilities(typ, declared) ==
    LET all == {declared[i] : i \in DOMAIN declared}
        known == {c \in all : IsKnownCapability(c)}
        effective == {c \in known : typ \in allowedPluginTypesForCapability(c)}
    IN  [Effective |-> sorted(effective), Unknown |-> sorted(all \ known),
         Denied |-> sorted(known \ effective)]
=============================================================================
