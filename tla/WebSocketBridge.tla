--------------------------- MODULE WebSocketBridge ---------------------------
(***************************************************************************)
(* One WebSocket connection carried over a bidirectional gRPC stream.      *)
(*                                                                         *)
(* On the Core side GatewayGRPCClient.HandleWebSocket runs two goroutines  *)
(* and a context callback: the reader copies the client's messages to the  *)
(* stream, the receiver copies the plugin's frames to the client, and      *)
(* context.AfterFunc closes the connection when the context ends.  All     *)
(* three can want to close the connection, and the receiver joins the      *)
(* reader before it returns.  On the plugin side GatewayGRPCServer's       *)
(* handler runs the plugin on a grpcWebSocketConn and sends its verdict as *)
(* the RESULT frame.                                                       *)
(*                                                                         *)
(* Messages are numbered in the order their sender produced them.          *)
(***************************************************************************)
EXTENDS Integers, Sequences

CONSTANTS
    MaxIn,       \* bound: messages the client sends
    MaxOut,      \* bound: messages the plugin writes
    Window,      \* frames flow control lets Send buffer, in each direction
    CloseCodes,  \* close codes a plugin passes to Close, 0 included
    Verdicts     \* what Impl.HandleWebSocket may return: [kind, err]

ASSUME BridgeAssumption ==
    /\ MaxIn \in Nat /\ MaxOut \in Nat
    /\ Window \in Nat \ {0}
    /\ CloseCodes \subseteq Nat
    /\ Verdicts \subseteq [kind : {"Unknown", "Success"}, err : BOOLEAN]

VARIABLES
    \* the receiver: HandleWebSocket's own goroutine
    mpc,          \* dial, connect, recv, write, stop, cancel, close, join, return, done
    frame,        \* the data frame being written to the client
    closeCode,    \* what stopReader closes the connection with
    outcome,      \* "none" or the kind of the RESULT received
    failed,       \* HandleWebSocket returns an error
    \* the reader goroutine, and the callback of AfterFunc
    rpc,          \* none, check, read, send, cancel, closeSend, closeCh, done
    afterFunc,    \* none, armed, stopped, started or ran
    \* the client's connection
    read,         \* messages read from the client
    delivered,    \* messages written to the client
    closedWith,   \* 0, or the code of the first conn.Close
    closes,       \* calls of conn.Close
    clientGone,   \* the client has disconnected
    \* the RPC
    cancelledBy,  \* "none", or who cancelled the context first
    lost,         \* the transport is lost
    up, down,     \* frames on their way to the plugin and to Core
    \* the plugin's handler
    ppc,          \* start, run, finish, ok, error
    verdict,      \* what the plugin returned
    wrote,        \* messages the plugin has written
    pluginClosed  \* the plugin has called Close

receiverVars == <<mpc, frame, closeCode, outcome, failed>>
connVars == <<read, delivered, closedWith, closes, clientGone>>
pluginVars == <<ppc, verdict, wrote, pluginClosed>>
vars == <<receiverVars, rpc, afterFunc, connVars, cancelledBy, lost, up, down,
          pluginVars>>

\* The code of every close that no plugin chose.
NormalClosure == 1000

NoVerdict == [kind |-> "Unknown", err |-> TRUE]

Init ==
    /\ mpc = "dial" /\ frame = 0 /\ closeCode = NormalClosure
    /\ outcome = "none" /\ failed = FALSE
    /\ rpc = "none" /\ afterFunc = "none"
    /\ read = 0 /\ delivered = <<>> /\ closedWith = 0 /\ closes = 0
    /\ clientGone = FALSE
    /\ cancelledBy = "none" /\ lost = FALSE /\ up = <<>> /\ down = <<>>
    /\ ppc = "start" /\ verdict = NoVerdict /\ wrote = 0
    /\ pluginClosed = FALSE

-----------------------------------------------------------------------------
(* Shared steps. *)

Broken == cancelledBy # "none" \/ lost

PluginEnded == ppc \in {"ok", "error"}

\* cancel(): only the first call has an effect.
Cancel(who) == cancelledBy' = IF cancelledBy = "none" THEN who ELSE cancelledBy

\* Mutant of CloseConn: every caller closes the connection.
CloseConnAgain(code) ==
    /\ closes' = closes + 1
    /\ closedWith' = IF closedWith = 0 THEN code ELSE closedWith

\* closeConn: closeOnce lets the first caller close the connection.
CloseConn(code) ==
    IF closes = 0
    THEN closes' = 1 /\ closedWith' = code
    ELSE UNCHANGED <<closes, closedWith>>

\* conn.ReadMessage and conn.WriteMessage fail, at once or when blocked.
ConnDead == closedWith # 0 \/ clientGone

-----------------------------------------------------------------------------
(* The receiver. *)

\* The RPC cannot be opened: the connection is left to the caller.
DialFails ==
    /\ mpc = "dial"
    /\ failed' = TRUE
    /\ Cancel("receiver")
    /\ mpc' = "done"
    /\ UNCHANGED <<frame, closeCode, outcome, rpc, afterFunc, connVars, lost, up,
                   down, pluginVars>>

\* From here on a cancelled context closes the connection.
Dial ==
    /\ mpc = "dial"
    /\ afterFunc' = "armed"
    /\ mpc' = "connect"
    /\ UNCHANGED <<frame, closeCode, outcome, failed, rpc, connVars, cancelledBy,
                   lost, up, down, pluginVars>>

\* The account is missing, or the CONNECT frame cannot be sent.
ConnectFails ==
    /\ mpc = "connect"
    /\ failed' = TRUE
    /\ mpc' = "return"
    /\ UNCHANGED <<frame, closeCode, outcome, rpc, afterFunc, connVars,
                   cancelledBy, lost, up, down, pluginVars>>

\* CONNECT is sent and the reader started.
Connect ==
    /\ mpc = "connect"
    /\ up' = Append(up, [type |-> "CONNECT", val |-> 0])
    /\ rpc' = "check"
    /\ mpc' = "recv"
    /\ UNCHANGED <<frame, closeCode, outcome, failed, afterFunc, connVars,
                   cancelledBy, lost, down, pluginVars>>

\* A CLOSE frame without a code closes normally.
CloseCodeOf(code) == IF code = 0 THEN NormalClosure ELSE code

\* Recv: a data frame is written next, CLOSE and RESULT end the session.
Recv ==
    /\ mpc = "recv"
    /\ down # <<>>
    /\ down' = Tail(down)
    /\ LET f == Head(down)
       IN  \/ /\ f.type = "DATA"
              /\ frame' = f.val
              /\ mpc' = "write"
              /\ UNCHANGED <<closeCode, outcome>>
           \/ /\ f.type = "CLOSE"
              /\ closeCode' = CloseCodeOf(f.val)
              /\ mpc' = "stop"
              /\ UNCHANGED <<frame, outcome>>
           \/ /\ f.type = "RESULT"
              /\ outcome' = f.val
              /\ mpc' = "stop"
              /\ UNCHANGED <<frame, closeCode>>
    /\ UNCHANGED <<failed, rpc, afterFunc, connVars, cancelledBy, lost, up,
                   pluginVars>>

\* Recv fails: the RPC is cancelled or lost, or the handler ended with an error.
RecvFails ==
    /\ mpc = "recv"
    /\ Broken \/ (ppc = "error" /\ down = <<>>)
    /\ failed' = TRUE
    /\ mpc' = "stop"
    /\ UNCHANGED <<frame, closeCode, outcome, rpc, afterFunc, connVars,
                   cancelledBy, lost, up, down, pluginVars>>

\* conn.WriteMessage returns; a client that does not read may block it.
WriteToClient ==
    /\ mpc = "write"
    /\ ~ConnDead
    /\ delivered' = Append(delivered, frame)
    /\ mpc' = "recv"
    /\ UNCHANGED <<frame, closeCode, outcome, failed, rpc, afterFunc, read,
                   closedWith, closes, clientGone, cancelledBy, lost, up, down,
                   pluginVars>>

\* Mutant of WriteToClientFails: the receiver goes on with the next frame.
WriteErrorIgnored ==
    /\ mpc = "write"
    /\ ConnDead
    /\ mpc' = "recv"
    /\ UNCHANGED <<frame, closeCode, outcome, failed, rpc, afterFunc, connVars,
                   cancelledBy, lost, up, down, pluginVars>>

WriteToClientFails ==
    /\ mpc = "write"
    /\ ConnDead
    /\ failed' = TRUE
    /\ mpc' = "stop"
    /\ UNCHANGED <<frame, closeCode, outcome, rpc, afterFunc, connVars,
                   cancelledBy, lost, up, down, pluginVars>>

\* Mutant of StopOnCancel: the callback stays armed.
StopOnCancelNot ==
    /\ mpc = "stop"
    /\ mpc' = "cancel"
    /\ UNCHANGED <<frame, closeCode, outcome, failed, rpc, afterFunc, connVars,
                   cancelledBy, lost, up, down, pluginVars>>

\* stopReader, first stopOnCancel(): a callback not yet started never runs.
StopOnCancel ==
    /\ mpc = "stop"
    /\ afterFunc' = IF afterFunc = "armed" THEN "stopped" ELSE afterFunc
    /\ mpc' = "cancel"
    /\ UNCHANGED <<frame, closeCode, outcome, failed, rpc, connVars,
                   cancelledBy, lost, up, down, pluginVars>>

\* Mutant of CancelRPC: stopReader does not cancel the context.
CancelRPCNot ==
    /\ mpc = "cancel"
    /\ mpc' = "close"
    /\ UNCHANGED <<frame, closeCode, outcome, failed, rpc, afterFunc, connVars,
                   cancelledBy, lost, up, down, pluginVars>>

\* then cancel(), which unblocks the reader's Send,
CancelRPC ==
    /\ mpc = "cancel"
    /\ Cancel("receiver")
    /\ mpc' = "close"
    /\ UNCHANGED <<frame, closeCode, outcome, failed, rpc, afterFunc, connVars,
                   lost, up, down, pluginVars>>

\* then closeConn, which unblocks the reader's ReadMessage,
CloseByReceiver ==
    /\ mpc = "close"
    /\ CloseConn(closeCode)
    /\ mpc' = "join"
    /\ UNCHANGED <<frame, closeCode, outcome, failed, rpc, afterFunc, read,
                   delivered, clientGone, cancelledBy, lost, up, down,
                   pluginVars>>

\* Mutant of ReaderGone: the join does not wait.
ReaderGoneAlways == TRUE

\* errCh is closed once the reader has run its deferred calls.
ReaderGone == rpc = "done"

\* and last the drain of errCh until the reader has closed it.
JoinReader ==
    /\ mpc = "join"
    /\ ReaderGone
    /\ mpc' = "return"
    /\ UNCHANGED <<frame, closeCode, outcome, failed, rpc, afterFunc, connVars,
                   cancelledBy, lost, up, down, pluginVars>>

\* The deferred calls: stopOnCancel, closeConn, cancel.
Return ==
    /\ mpc = "return"
    /\ afterFunc' = IF afterFunc = "armed" THEN "stopped" ELSE afterFunc
    /\ CloseConn(NormalClosure)
    /\ Cancel("receiver")
    /\ mpc' = "done"
    /\ UNCHANGED <<frame, closeCode, outcome, failed, rpc, read, delivered,
                   clientGone, lost, up, down, pluginVars>>

-----------------------------------------------------------------------------
(* AfterFunc's callback runs in a goroutine of its own. *)

StartAfterFunc ==
    /\ afterFunc = "armed" /\ cancelledBy # "none"
    /\ afterFunc' = "started"
    /\ UNCHANGED <<receiverVars, rpc, connVars, cancelledBy, lost, up, down,
                   pluginVars>>

CloseByAfterFunc ==
    /\ afterFunc = "started"
    /\ CloseConn(NormalClosure)
    /\ afterFunc' = "ran"
    /\ UNCHANGED <<receiverVars, rpc, read, delivered, clientGone, cancelledBy,
                   lost, up, down, pluginVars>>

-----------------------------------------------------------------------------
(* The reader. *)

readerFrame == <<receiverVars, afterFunc, delivered, closedWith, closes,
                 clientGone, lost, down, pluginVars>>

\* The top of the loop.
CheckContext ==
    /\ rpc = "check"
    /\ rpc' = IF cancelledBy # "none" THEN "cancel" ELSE "read"
    /\ UNCHANGED <<readerFrame, read, cancelledBy, up>>

ReadFromClient ==
    /\ rpc = "read"
    /\ ~ConnDead /\ read < MaxIn
    /\ read' = read + 1
    /\ rpc' = "send"
    /\ UNCHANGED <<readerFrame, cancelledBy, up>>

ReadFromClientFails ==
    /\ rpc = "read"
    /\ ConnDead
    /\ rpc' = "cancel"
    /\ UNCHANGED <<readerFrame, read, cancelledBy, up>>

SendToPlugin ==
    /\ rpc = "send"
    /\ Len(up) < Window
    /\ up' = Append(up, [type |-> "DATA", val |-> read])
    /\ rpc' = "check"
    /\ UNCHANGED <<readerFrame, read, cancelledBy>>

SendToPluginFails ==
    /\ rpc = "send"
    /\ Broken \/ PluginEnded
    /\ rpc' = "cancel"
    /\ UNCHANGED <<readerFrame, read, cancelledBy, up>>

\* The deferred calls: cancel, CloseSend, close(errCh).
ReaderCancel ==
    /\ rpc = "cancel"
    /\ Cancel("reader")
    /\ rpc' = "closeSend"
    /\ UNCHANGED <<readerFrame, read, up>>

CloseSend ==
    /\ rpc = "closeSend"
    /\ rpc' = "closeCh"
    /\ UNCHANGED <<readerFrame, read, cancelledBy, up>>

CloseErrCh ==
    /\ rpc = "closeCh"
    /\ rpc' = "done"
    /\ UNCHANGED <<readerFrame, read, cancelledBy, up>>

-----------------------------------------------------------------------------
(* The plugin's side. *)

pluginFrame == <<receiverVars, rpc, afterFunc, connVars, cancelledBy, lost>>

\* The handler waits for the CONNECT frame.
AcceptConnect ==
    /\ ppc = "start"
    /\ up # <<>>
    /\ up' = Tail(up)
    /\ ppc' = IF Head(up).type = "CONNECT" THEN "run" ELSE "error"
    /\ UNCHANGED <<pluginFrame, down, verdict, wrote, pluginClosed>>

AcceptFails ==
    /\ ppc = "start"
    /\ Broken
    /\ ppc' = "error"
    /\ UNCHANGED <<pluginFrame, up, down, verdict, wrote, pluginClosed>>

\* grpcWebSocketConn.ReadMessage
PluginRead ==
    /\ ppc = "run"
    /\ up # <<>>
    /\ up' = Tail(up)
    /\ UNCHANGED <<pluginFrame, down, pluginVars>>

\* grpcWebSocketConn.WriteMessage
PluginWrite ==
    /\ ppc = "run"
    /\ wrote < MaxOut
    /\ Len(down) < Window
    /\ wrote' = wrote + 1
    /\ down' = Append(down, [type |-> "DATA", val |-> wrote + 1])
    /\ UNCHANGED <<pluginFrame, up, ppc, verdict, pluginClosed>>

\* grpcWebSocketConn.Close; a plugin closes its connection once.
PluginClose(code) ==
    /\ ppc = "run"
    /\ ~pluginClosed
    /\ Len(down) < Window
    /\ pluginClosed' = TRUE
    /\ down' = Append(down, [type |-> "CLOSE", val |-> code])
    /\ UNCHANGED <<pluginFrame, up, ppc, verdict, wrote>>

\* Impl.HandleWebSocket returns: an error without a verdict ends the RPC.
PluginReturn(v) ==
    /\ ppc = "run"
    /\ verdict' = v
    /\ ppc' = IF v.err /\ v.kind = "Unknown" THEN "error" ELSE "finish"
    /\ UNCHANGED <<pluginFrame, up, down, wrote, pluginClosed>>

SendResult ==
    /\ ppc = "finish"
    /\ Len(down) < Window
    /\ down' = Append(down, [type |-> "RESULT", val |-> verdict.kind])
    /\ ppc' = "ok"
    /\ UNCHANGED <<pluginFrame, up, verdict, wrote, pluginClosed>>

SendResultFails ==
    /\ ppc = "finish"
    /\ Broken
    /\ ppc' = "error"
    /\ UNCHANGED <<pluginFrame, up, down, verdict, wrote, pluginClosed>>

-----------------------------------------------------------------------------
(* The environment. *)

envFrame == <<receiverVars, rpc, afterFunc, read, delivered, closedWith, closes,
              up, down, pluginVars>>

ClientLeaves ==
    /\ ~clientGone
    /\ clientGone' = TRUE
    /\ UNCHANGED <<envFrame, cancelledBy, lost>>

CallerCancels ==
    /\ cancelledBy = "none"
    /\ cancelledBy' = "caller"
    /\ UNCHANGED <<envFrame, clientGone, lost>>

TransportLost ==
    /\ ~lost
    /\ lost' = TRUE
    /\ UNCHANGED <<envFrame, clientGone, cancelledBy>>

-----------------------------------------------------------------------------
\* The receiver's steps that no client can hold up.
Receiver ==
    \/ DialFails \/ Dial \/ ConnectFails \/ Connect \/ Recv \/ RecvFails
    \/ WriteToClientFails
    \/ StopOnCancel \/ CancelRPC \/ CloseByReceiver \/ JoinReader \/ Return

AfterFunc == StartAfterFunc \/ CloseByAfterFunc

Reader ==
    \/ CheckContext \/ ReadFromClientFails \/ SendToPlugin \/ SendToPluginFails
    \/ ReaderCancel \/ CloseSend \/ CloseErrCh

Handler == AcceptConnect \/ AcceptFails \/ SendResult \/ SendResultFails

Plugin ==
    \/ PluginRead \/ PluginWrite
    \/ \E code \in CloseCodes : PluginClose(code)

Environment == ClientLeaves \/ CallerCancels \/ TransportLost

Done ==
    /\ mpc = "done" /\ PluginEnded
    /\ UNCHANGED vars

Next ==
    \/ Receiver \/ WriteToClient \/ AfterFunc
    \/ Reader \/ ReadFromClient
    \/ Handler \/ Plugin \/ Environment \/ Done
    \/ \E v \in Verdicts : PluginReturn(v)

Spec == Init /\ [][Next]_vars

(***************************************************************************)
(* Fairness: Go runs every goroutine that can go on, the callback's too.   *)
(* A client may stop reading or writing, so WriteToClient and              *)
(* ReadFromClient carry none.  A plugin may run as long as it likes, but   *)
(* returns once its context is done.                                       *)
(***************************************************************************)
Fairness ==
    /\ WF_vars(Receiver) /\ WF_vars(AfterFunc) /\ WF_vars(Reader)
    /\ WF_vars(Handler)
    /\ WF_vars(Broken /\ \E v \in Verdicts : PluginReturn(v))

FairSpec == Spec /\ Fairness
-----------------------------------------------------------------------------
(* Properties. *)

\* Receiver, reader and callback all close the connection, in any order; it is
\* closed once, and it is closed whenever HandleWebSocket returns after the RPC was
\* opened, the early returns included. (closeOnce, the deferred closeConn)
ClosedOnce ==
    /\ closes <= 1
    /\ mpc = "done" /\ afterFunc # "none" => closes = 1

\* A close code the plugin chose reaches the client, unless the context had
\* already been cancelled by someone else: the receiver's own cancel never lets
\* the callback close normally first. (stopReader calls stopOnCancel first)
CloseCodeKept ==
    cancelledBy = "receiver" /\ closeCode # NormalClosure /\ closedWith # 0
        => closedWith = closeCode

\* HandleWebSocket never leaves its reader behind, so nothing uses the stream or
\* the connection after it has returned. (stopReader drains errCh)
ReaderJoined == mpc = "done" => rpc \in {"none", "done"}

\* A verdict is returned only after every message the plugin wrote before it has
\* been written to the client, in order. (the receive loop)
ResultAfterDelivery ==
    outcome # "none" =>
        /\ Len(delivered) = wrote
        /\ \A i \in 1..wrote : delivered[i] = i

\* Once the context is cancelled, whoever did it, or the receiver has begun to
\* stop, both sides end: neither a client that does not read, nor a full stream,
\* nor a blocked ReadMessage keeps a goroutine. (AfterFunc, stopReader)
CleanupCompletes ==
    (cancelledBy # "none" \/ mpc = "stop")
        ~> (mpc = "done" /\ rpc \in {"none", "done"} /\ PluginEnded)

\* What GatewayPlugin says of HandleWebSocket: after the connection has ended it
\* returns the ForwardOutcome. When the client is the one that ends the connection,
\* over a healthy transport and with a caller that does not cancel, Core gets the
\* success the plugin returned.
OutcomeReturned ==
    mpc = "done" /\ PluginEnded /\ verdict.kind = "Success"
        /\ clientGone /\ ~pluginClosed /\ ~lost /\ cancelledBy # "caller"
        => outcome = "Success"
=============================================================================
