--------------------------- MODULE ResponseContract ---------------------------
(***************************************************************************)
(* What a streaming Forward call promises the downstream HTTP client and   *)
(* Core's billing, without chunks, messages or a transport: the response   *)
(* is one ordered stream of bytes 1, 2, 3, ...; a call that succeeds has   *)
(* delivered all of it; and once the plugin has begun its terminal event,  *)
(* the end of the response is delivered only by the step that concludes    *)
(* the call, so nobody can leave with a complete response while Core still *)
(* waits for the verdict.                                                  *)
(***************************************************************************)
EXTENDS Integers, Sequences

VARIABLES
    written,    \* bytes the plugin has offered
    closing,    \* the plugin is writing its terminal event
    delivered,  \* bytes the downstream client has received
    verdict     \* "none", "ok" or "failed"

cvars == <<written, closing, delivered, verdict>>

FirstBytes(m) == [i \in 1..m |-> i]

Init ==
    /\ written = 0
    /\ closing = FALSE
    /\ delivered = <<>>
    /\ verdict = "none"

\* The plugin offers more bytes; a concluded call takes none.
Offer ==
    /\ verdict # "ok"
    /\ written' \in Nat /\ written' >= written
    /\ closing' \in BOOLEAN /\ (closing => closing')
    /\ UNCHANGED <<delivered, verdict>>

Deliver ==
    /\ verdict = "none"
    /\ \E m \in Len(delivered)..written :
           /\ closing => m < written
           /\ delivered' = FirstBytes(m)
    /\ UNCHANGED <<written, closing, verdict>>

\* The rest of the response and the verdict arrive together.
Conclude ==
    /\ verdict = "none"
    /\ verdict' = "ok"
    /\ delivered' = FirstBytes(written)
    /\ UNCHANGED <<written, closing>>

Abort ==
    /\ verdict = "none"
    /\ verdict' = "failed"
    /\ \E m \in Len(delivered)..written : delivered' = FirstBytes(m)
    /\ UNCHANGED <<written, closing>>

Next == Offer \/ Deliver \/ Conclude \/ Abort

Spec == Init /\ [][Next]_cvars
=============================================================================
