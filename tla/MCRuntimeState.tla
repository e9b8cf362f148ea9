---------------------------- MODULE MCRuntimeState ----------------------------
(* RuntimeState with two clients and a retry budget of two: with two calls each,
   one client can exhaust its budget against the other. *)
EXTENDS RuntimeState
=============================================================================
