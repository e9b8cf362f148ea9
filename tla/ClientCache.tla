------------------------------ MODULE ClientCache ------------------------------
(***************************************************************************)
(* What Core caches of a plugin's metadata: platform, models and routes    *)
(* under the client's lock, the plugin's info under a lock of its own.     *)
(* Callers fetch without a lock and store the answer afterwards, while a   *)
(* configuration update changes what the plugin answers and InvalidateCache*)
(* drops what is cached.                                                   *)
(*                                                                         *)
(* An answer is the number of configuration updates the plugin had seen    *)
(* when it gave it.                                                        *)
(***************************************************************************)
EXTENDS Integers

CONSTANTS
    Callers,     \* goroutines of Core that ask for metadata
    MaxUpdates,  \* bound: configuration updates
    None         \* nothing cached, no answer

Keys == {"info", "platform", "models", "routes"}

VARIABLES
    config,      \* updates the plugin has seen
    cache,       \* cachedInfo, cachedPlatform, cachedModels, cachedRoutes
    pc, key,     \* where each caller is, and what it asks for
    reply,       \* the plugin's answer to it
    upc,         \* UpdateConfig and the InvalidateCache after it
    floor,       \* history: updates seen when InvalidateCache last began
    atCall       \* history: floor when the caller's call began

vars == <<config, cache, pc, key, reply, upc, floor, atCall>>

Init ==
    /\ config = 0
    /\ cache = [k \in Keys |-> None]
    /\ pc = [c \in Callers |-> "idle"]
    /\ key = [c \in Callers |-> "info"]
    /\ reply = [c \in Callers |-> None]
    /\ upc = "idle"
    /\ floor = 0
    /\ atCall = [c \in Callers |-> 0]

\* InvalidateCache holds the client's lock until it has dropped the info too.
Locked(k) == upc = "info" /\ k # "info"

\* InfoContext, Platform, Models or Routes looks into the cache.
Lookup(c, k) ==
    /\ pc[c] \in {"idle", "returned"}
    /\ ~Locked(k)
    /\ key' = [key EXCEPT ![c] = k]
    /\ reply' = [reply EXCEPT ![c] = cache[k]]
    /\ pc' = [pc EXCEPT ![c] = IF cache[k] = None THEN "fetch" ELSE "returned"]
    /\ atCall' = [atCall EXCEPT ![c] = IF upc = "idle" THEN floor ELSE 0]
    /\ UNCHANGED <<config, cache, upc, floor>>

\* The plugin answers, and the answer is on its way; or the call fails.
Fetch(c) ==
    /\ pc[c] = "fetch"
    /\ \/ /\ reply' = [reply EXCEPT ![c] = config]
          /\ pc' = [pc EXCEPT ![c] = "store"]
       \/ /\ pc' = [pc EXCEPT ![c] = "returned"]
          /\ UNCHANGED reply
    /\ UNCHANGED <<config, cache, key, upc, floor, atCall>>

Store(c) ==
    /\ pc[c] = "store"
    /\ ~Locked(key[c])
    /\ cache' = [cache EXCEPT ![key[c]] = reply[c]]
    /\ pc' = [pc EXCEPT ![c] = "returned"]
    /\ UNCHANGED <<config, key, reply, upc, floor, atCall>>

\* UpdateConfig reaches the plugin's OnConfigUpdate; Core invalidates next.
UpdateConfig ==
    /\ upc = "idle"
    /\ config < MaxUpdates
    /\ config' = config + 1
    /\ upc' = "invalidate"
    /\ UNCHANGED <<cache, pc, key, reply, floor, atCall>>

\* InvalidateCache, first under its own lock, ...
Invalidate ==
    /\ upc = "invalidate"
    /\ cache' = [k \in Keys |-> IF k = "info" THEN cache[k] ELSE None]
    /\ floor' = config
    /\ upc' = "info"
    /\ UNCHANGED <<config, pc, key, reply, atCall>>

\* ... then invalidateInfoCache.
InvalidateInfo ==
    /\ upc = "info"
    /\ cache' = [cache EXCEPT !["info"] = None]
    /\ upc' = "idle"
    /\ UNCHANGED <<config, pc, key, reply, floor, atCall>>

Next ==
    \/ \E c \in Callers :
           \/ \E k \in Keys : Lookup(c, k)
           \/ Fetch(c) \/ Store(c)
    \/ UpdateConfig \/ Invalidate \/ InvalidateInfo

Spec == Init /\ [][Next]_vars
-----------------------------------------------------------------------------
(* Properties. *)

\* What InvalidateCache says: it clears all cached metadata and "the next call
\* fetches again from the plugin". A call that begins after InvalidateCache has
\* returned does not get an answer from before the update.
NextCallFetchesAgain ==
    \A c \in Callers :
        pc[c] = "returned" /\ reply[c] # None => reply[c] >= atCall[c]
=============================================================================
