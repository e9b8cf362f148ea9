---------------------------- MODULE MCEventObserver ----------------------------
(* EventObserver on every response of up to seven bytes, in every division into
   reads of one or two bytes. *)
EXTENDS EventObserver
=============================================================================
