------------------------------ MODULE MCDevProxy ------------------------------
(* DevProxy on a small instance: two requests that may stream or not, an account
   without a weight and one of weight two, a verdict that is final and one that
   fails over, whose cooldown may pass before the next selection. *)
EXTENDS DevProxy

MCInitial == <<[id |-> 1, weight |-> 2], [id |-> 2, weight |-> 0]>>

Verdict(k, s, e, w) ==
    [kind |-> k, scope |-> s, err |-> e, wrote |-> w, status |-> FALSE,
     body |-> FALSE]

MCOutcomes ==
    {Verdict("Success", "none", FALSE, TRUE),
     [Verdict("AccountRateLimited", "none", TRUE, TRUE) EXCEPT !.status = TRUE]}

\* Requests are interchangeable.
Symmetry == Permutations(Requests)

\* What forwardStream returns when a write to the client fails.
AbortedOutcomes == {Verdict("StreamAborted", "terminal", TRUE, TRUE)}

TransientOutcomes == {Verdict("UpstreamTransient", "none", FALSE, FALSE)}
=============================================================================
