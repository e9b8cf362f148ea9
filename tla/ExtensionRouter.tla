---------------------------- MODULE ExtensionRouter ----------------------------
(***************************************************************************)
(* The router of an extension plugin (extensionRouter): RegisterRoutes     *)
(* fills a map from method and path to a handler, directly or through      *)
(* groups, and match looks a request up, first as it is, then among the    *)
(* patterns that end in a slash, in the order in which Go walks the map,   *)
(* which is any.                                                           *)
(*                                                                         *)
(* A path is a sequence of characters; a handler is the number of the call *)
(* of Handle that registered it.                                           *)
(***************************************************************************)
EXTENDS Integers, Sequences, SequencesExt

CONSTANTS
    ToUpper,    \* method |-> strings.ToUpper of it
    Groups,     \* prefixes of the registrars Handle is called on, <<>> for the router
    Patterns,   \* [method, path] passed to Handle
    Requests,   \* [method, path] of requests
    MaxRoutes   \* bound: calls of Handle

ASSUME RouterAssumption ==
    /\ Groups \subseteq Seq(STRING)
    /\ Patterns \subseteq [method : DOMAIN ToUpper, path : Seq(STRING)]
    /\ Requests \subseteq [method : DOMAIN ToUpper, path : Seq(STRING)]

VARIABLES
    registered,  \* the keys passed to Handle, in order
    handlers,    \* extensionRouter.handlers
    request,     \* the request looked up, as a key
    unseen,      \* keys the loop of match has not come to yet
    best         \* [handler, len]: bestHandler and bestLen, 0 for none

routerVars == <<registered, handlers, request, unseen, best>>

Nobody == [handler |-> 0, len |-> 0]

RouterInit ==
    /\ registered = <<>>
    /\ handlers = <<>>
    /\ request = [method |-> "none", path |-> <<>>]
    /\ unseen = {}
    /\ best = Nobody

Key(r) == [method |-> ToUpper[r.method], path |-> r.path]

\* Handle, called on the group with this prefix; a key registered again is replaced.
Handle(group, pattern) ==
    LET key == Key([pattern EXCEPT !.path = group \o @])
    IN  /\ Len(registered) < MaxRoutes
        /\ registered' = Append(registered, key)
        /\ handlers' = [k \in DOMAIN handlers \cup {key} |->
                            IF k = key THEN Len(registered) + 1 ELSE handlers[k]]
        /\ UNCHANGED <<request, unseen, best>>

\* match begins: a handler for exactly this key, or else the loop.
Match(r) ==
    /\ request' = Key(r)
    /\ IF Key(r) \in DOMAIN handlers
       THEN unseen' = {} /\ best' = [handler |-> handlers[Key(r)], len |-> Len(r.path)]
       ELSE unseen' = DOMAIN handlers /\ best' = Nobody
    /\ UNCHANGED <<registered, handlers>>

IsPattern(key) == key.path # <<>> /\ Last(key.path) = "/"

\* Mutant of Better: the first pattern found is kept.
BetterFirst(key) ==
    /\ key.method = request.method /\ IsPattern(key) /\ IsPrefix(key.path, request.path)
    /\ best = Nobody

Better(key) ==
    /\ key.method = request.method /\ IsPattern(key) /\ IsPrefix(key.path, request.path)
    /\ Len(key.path) > best.len

\* One pass of the loop.
Visit(key) ==
    /\ key \in unseen
    /\ unseen' = unseen \ {key}
    /\ best' = IF Better(key) THEN [handler |-> handlers[key], len |-> Len(key.path)] ELSE best
    /\ UNCHANGED <<registered, handlers, request>>
=============================================================================
