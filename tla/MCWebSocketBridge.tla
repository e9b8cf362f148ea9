-------------------------- MODULE MCWebSocketBridge --------------------------
(* WebSocketBridge on a small instance: two messages in each direction over a
   stream that buffers one frame, so that every Send can block. *)
EXTENDS WebSocketBridge

MCVerdicts ==
    {[kind |-> "Success", err |-> TRUE], [kind |-> "Unknown", err |-> TRUE],
     [kind |-> "Unknown", err |-> FALSE]}
=============================================================================
