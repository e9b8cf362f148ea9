----------------------------- MODULE MCRequestTrace -----------------------------
(* RequestTrace on a small instance: a replayable request whose response is a
   stream, one whose body is observed with a plain response, and a WebSocket
   message; a capture of two exchanges, so that the third evicts. *)
EXTENDS RequestTrace

CONSTANTS c1, c2, c3

MCShape ==
    [c \in {c1, c2, c3} |->
        [ws |-> c = c3, replayable |-> c = c1, stream |-> c = c1,
         size |-> IF c = c2 THEN 0 ELSE 1]]
=============================================================================
