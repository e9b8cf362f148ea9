--------------------------- MODULE MCForwardStream ---------------------------
(* A streaming Forward call on a small instance. *)
EXTENDS ForwardStream

R(k, u, w, e, s) ==
    [kind |-> k, usage |-> u, reason |-> w, err |-> e, size |-> s]

\* A success with usage, one whose diagnostic does not fit, a verdict that comes
\* with an error, an error without verdict, and an outcome too large to send.
MCReturns ==
    {R("Success", TRUE, "", FALSE, "fits"),
     R("UpstreamTransient", FALSE, "plugin", FALSE, "dropDiagnostic"),
     R("StreamAborted", TRUE, "", TRUE, "fits"),
     R("Unknown", FALSE, "", TRUE, "fits"),
     R("Success", TRUE, "", FALSE, "tooLarge")}
=============================================================================
