------------------------ MODULE WebSocketBridgeProofs ------------------------
(***************************************************************************)
(* Proofs about WebSocketBridge for any number of messages, any window and *)
(* any close codes and verdicts.                                           *)
(*                                                                         *)
(* The inductive invariant has one part per question.  CloseInv says who   *)
(* can have closed the connection, depending on who cancelled the context; *)
(* ReaderInv where the reader is while the receiver runs; DownInv that the *)
(* messages on their way to Core continue, without a gap, what the client  *)
(* has, up to the plugin's CLOSE frame.                                    *)
(***************************************************************************)
EXTENDS WebSocketBridge, TLAPS

Kinds == {"Unknown", "Success"}

Frames ==
    [type : {"DATA", "CLOSE"}, val : Nat] \cup [type : {"RESULT"}, val : Kinds]

\* Before the receiver has begun to stop.
Receiving == mpc \in {"dial", "connect", "recv", "write"}

\* The variables that decide how the connection is closed.
CloseType ==
    /\ mpc \in {"dial", "connect", "recv", "write", "stop", "cancel", "close", "join",
                "return", "done"}
    /\ closeCode \in Nat \ {0}
    /\ afterFunc \in {"none", "armed", "stopped", "started", "ran"}
    /\ closedWith \in Nat
    /\ closes \in {0, 1}
    /\ cancelledBy \in {"none", "receiver", "reader", "caller"}

\* The variables the plugin's messages go through.
StreamType ==
    /\ frame \in Nat
    /\ outcome \in {"none"} \cup Kinds
    /\ delivered \in Seq(Nat)
    /\ down \in Seq(Frames)
    /\ ppc \in {"start", "run", "finish", "ok", "error"}
    /\ verdict \in [kind : Kinds, err : BOOLEAN]
    /\ wrote \in Nat

\* Who closes: the callback only once someone other than the receiver has
\* cancelled, the receiver only after its own cancel.
CloseInv ==
    /\ closes = 0 => closedWith = 0
    /\ closes = 1 => closedWith # 0
    /\ mpc = "dial" => afterFunc = "none"
    /\ mpc = "done" /\ afterFunc # "none" => closes = 1
    /\ afterFunc \in {"started", "ran"} => cancelledBy \notin {"none", "receiver"}
    /\ cancelledBy = "receiver" =>
           afterFunc # "armed" /\ mpc \in {"close", "join", "return", "done"}
    /\ cancelledBy = "none" => closes = 0 /\ mpc \notin {"close", "join", "done"}
    /\ mpc \in {"cancel", "close", "join"} => afterFunc # "armed"
    /\ Receiving => closeCode = NormalClosure
    /\ mpc = "join" => closes = 1
    /\ mpc \in {"return", "done"} /\ closeCode # NormalClosure => closes = 1
    /\ CloseCodeKept

ReaderInv ==
    /\ mpc \in {"dial", "connect"} => rpc = "none"
    /\ mpc \in {"return", "done"} => rpc \in {"none", "done"}

\* Messages the receiver has taken from the stream.
Taken == Len(delivered) + (IF mpc = "write" THEN 1 ELSE 0)

\* No CLOSE frame among the first n on their way to Core.
Open(n) == \A k \in 1..n : down[k].type # "CLOSE"

DownInv ==
    Receiving =>
        /\ outcome = "none"
        /\ mpc = "write" => frame = Len(delivered) + 1
        /\ \A i \in 1..Len(down) : Open(i) =>
               /\ down[i].type = "DATA" => down[i].val = Taken + i
               /\ down[i].type = "RESULT" => ppc = "ok" /\ wrote = Taken + i - 1
        /\ ppc # "ok" /\ Open(Len(down)) => wrote = Taken + Len(down)

DeliveryInv ==
    /\ \A i \in 1..Len(delivered) : delivered[i] = i
    /\ outcome # "none" => ppc = "ok" /\ Len(delivered) = wrote

StreamInv == StreamType /\ DownInv /\ DeliveryInv

IInv ==
    /\ CloseType
    /\ CloseInv
    /\ ReaderInv
    /\ StreamInv

-----------------------------------------------------------------------------
(* The groups of actions, by what they leave alone. *)

closeVars == <<mpc, closeCode, afterFunc, closedWith, closes, cancelledBy>>

\* The steps of the reader, the plugin and the environment that neither cancel
\* nor close leave everything the closing of the connection depends on alone.
LEMMA QuietSteps ==
    ASSUME \/ CheckContext \/ ReadFromClient \/ ReadFromClientFails \/ SendToPlugin
           \/ SendToPluginFails \/ CloseSend \/ CloseErrCh
           \/ Handler \/ Plugin \/ ClientLeaves \/ TransportLost \/ Done
           \/ \E v \in Verdicts : PluginReturn(v)
    PROVE  UNCHANGED closeVars
<1> USE DEF closeVars, receiverVars, connVars
<1>1. CASE \/ CheckContext \/ ReadFromClient \/ ReadFromClientFails \/ SendToPlugin
           \/ SendToPluginFails \/ CloseSend \/ CloseErrCh
  BY <1>1 DEF CheckContext, ReadFromClient, ReadFromClientFails, SendToPlugin,
     SendToPluginFails, CloseSend, CloseErrCh, readerFrame
<1>2. CASE Handler
  BY <1>2 DEF Handler, AcceptConnect, AcceptFails, SendResult, SendResultFails,
     pluginFrame
<1>3. CASE Plugin
  BY <1>3 DEF Plugin, PluginRead, PluginWrite, PluginClose, pluginFrame
<1>4. CASE ClientLeaves \/ TransportLost
  BY <1>4 DEF ClientLeaves, TransportLost, envFrame
<1>5. CASE Done
  BY <1>5 DEF Done, vars
<1>6. CASE \E v \in Verdicts : PluginReturn(v)
  BY <1>6 DEF PluginReturn, pluginFrame
<1> QED
  BY <1>1, <1>2, <1>3, <1>4, <1>5, <1>6

\* The provers need not know the number.
LEMMA NormalClosureType == NormalClosure \in Nat \ {0}
  BY DEF NormalClosure

\* What Recv takes from the stream is a frame.
LEMMA HeadFrame ==
    ASSUME StreamType, Recv
    PROVE  Head(down) \in Frames
<1>1. down \in Seq(Frames)
  BY DEF StreamType
<1>2. down # <<>>
  BY DEF Recv
<1> QED
  BY <1>1, <1>2

\* Every step keeps CloseInv. Of each step only what it does to closeVars matters:
\* cancel, stopOnCancel and closeConn are the ones that say something.
LEMMA CloseStep ==
    ASSUME CloseType, StreamType, CloseInv, Next
    PROVE  CloseType' /\ CloseInv'
<1> USE DEF CloseType, CloseInv, CloseCodeKept, Receiving
<1>1. CASE DialFails
  <2>1. /\ mpc = "dial" /\ mpc' = "done"
        /\ cancelledBy' = IF cancelledBy = "none" THEN "receiver" ELSE cancelledBy
        /\ UNCHANGED <<closeCode, afterFunc, closedWith, closes>>
    BY <1>1 DEF DialFails, Cancel, connVars
  <2> QED
    BY <2>1
<1>2. CASE Dial
  <2>1. /\ mpc = "dial" /\ mpc' = "connect" /\ afterFunc' = "armed"
        /\ UNCHANGED <<closeCode, cancelledBy, closedWith, closes>>
    BY <1>2 DEF Dial, connVars
  <2> QED
    BY <2>1
<1>3. CASE ConnectFails \/ Connect
  <2>1. /\ mpc = "connect" /\ mpc' \in {"return", "recv"}
        /\ UNCHANGED <<closeCode, afterFunc, cancelledBy, closedWith, closes>>
    BY <1>3 DEF ConnectFails, Connect, connVars
  <2> QED
    BY <2>1
<1>4. CASE Recv
  <2>1. /\ mpc = "recv" /\ mpc' \in {"write", "stop"}
        /\ mpc' = "write" => closeCode' = closeCode
        /\ \/ closeCode' = closeCode
           \/ Head(down).type = "CLOSE" /\ closeCode' = CloseCodeOf(Head(down).val)
        /\ UNCHANGED <<afterFunc, cancelledBy, closedWith, closes>>
    BY <1>4 DEF Recv, connVars
  <2>2. Head(down) \in Frames
    BY <1>4, HeadFrame
  <2>3. closeCode' \in Nat \ {0}
    BY <2>1, <2>2, NormalClosureType DEF Frames, CloseCodeOf
  <2> QED
    BY <2>1, <2>3
<1>5. CASE RecvFails \/ WriteToClient \/ WriteToClientFails
  <2>1. /\ mpc \in {"recv", "write"} /\ mpc' \in {"recv", "stop"}
        /\ UNCHANGED <<closeCode, afterFunc, cancelledBy, closedWith, closes>>
    BY <1>5 DEF RecvFails, WriteToClient, WriteToClientFails, connVars
  <2> QED
    BY <2>1
<1>6. CASE StopOnCancel
  <2>1. /\ mpc = "stop" /\ mpc' = "cancel"
        /\ afterFunc' = IF afterFunc = "armed" THEN "stopped" ELSE afterFunc
        /\ UNCHANGED <<closeCode, cancelledBy, closedWith, closes>>
    BY <1>6 DEF StopOnCancel, connVars
  <2> QED
    BY <2>1
<1>7. CASE CancelRPC
  <2>1. /\ mpc = "cancel" /\ mpc' = "close"
        /\ cancelledBy' = IF cancelledBy = "none" THEN "receiver" ELSE cancelledBy
        /\ UNCHANGED <<closeCode, afterFunc, closedWith, closes>>
    BY <1>7 DEF CancelRPC, Cancel, connVars
  <2> QED
    BY <2>1
<1>8. CASE CloseByReceiver
  <2>1. /\ mpc = "close" /\ mpc' = "join"
        /\ UNCHANGED <<closeCode, afterFunc, cancelledBy>>
    BY <1>8 DEF CloseByReceiver
  <2>2. closes' = 1 /\ closedWith' = IF closes = 0 THEN closeCode ELSE closedWith
    BY <1>8 DEF CloseByReceiver, CloseConn
  <2> QED
    BY <2>1, <2>2
<1>9. CASE JoinReader
  <2>1. /\ mpc = "join" /\ mpc' = "return"
        /\ UNCHANGED <<closeCode, afterFunc, cancelledBy, closedWith, closes>>
    BY <1>9 DEF JoinReader, connVars
  <2> QED
    BY <2>1
<1>10. CASE Return
  <2>1. /\ mpc = "return" /\ mpc' = "done"
        /\ afterFunc' = IF afterFunc = "armed" THEN "stopped" ELSE afterFunc
        /\ cancelledBy' = IF cancelledBy = "none" THEN "receiver" ELSE cancelledBy
        /\ UNCHANGED closeCode
    BY <1>10 DEF Return, Cancel
  <2>2. /\ closes' = 1
        /\ closedWith' = IF closes = 0 THEN NormalClosure ELSE closedWith
    BY <1>10 DEF Return, CloseConn
  <2> QED
    BY <2>1, <2>2, NormalClosureType
<1>11. CASE StartAfterFunc
  <2>1. /\ afterFunc = "armed" /\ cancelledBy # "none" /\ afterFunc' = "started"
        /\ UNCHANGED <<mpc, closeCode, cancelledBy, closedWith, closes>>
    BY <1>11 DEF StartAfterFunc, receiverVars, connVars
  <2> QED
    BY <2>1
<1>12. CASE CloseByAfterFunc
  <2>1. /\ afterFunc = "started" /\ afterFunc' = "ran"
        /\ UNCHANGED <<mpc, closeCode, cancelledBy>>
    BY <1>12 DEF CloseByAfterFunc, receiverVars
  <2>2. /\ closes' = 1
        /\ closedWith' = IF closes = 0 THEN NormalClosure ELSE closedWith
    BY <1>12 DEF CloseByAfterFunc, CloseConn
  <2> QED
    BY <2>1, <2>2, NormalClosureType
<1>13. CASE ReaderCancel \/ CallerCancels
  <2>1. /\ \E who \in {"reader", "caller"} :
               cancelledBy' = IF cancelledBy = "none" THEN who ELSE cancelledBy
        /\ UNCHANGED <<mpc, closeCode, afterFunc, closedWith, closes>>
    BY <1>13 DEF ReaderCancel, CallerCancels, Cancel, readerFrame, envFrame,
       receiverVars
  <2> QED
    BY <2>1
<1>14. CASE UNCHANGED closeVars
  BY <1>14 DEF closeVars
<1> QED
  BY <1>1, <1>2, <1>3, <1>4, <1>5, <1>6, <1>7, <1>8, <1>9, <1>10, <1>11, <1>12,
     <1>13, <1>14, QuietSteps
     DEF Next, Receiver, AfterFunc, Reader, Environment
-----------------------------------------------------------------------------
(* The reader. *)

\* The reader is started by Connect, and the receiver leaves "join" only once the
\* reader has closed errCh.
LEMMA ReaderStep ==
    ASSUME ReaderInv, Next
    PROVE  ReaderInv'
<1> USE DEF ReaderInv
<1>1. CASE Receiver
  BY <1>1 DEF Receiver, DialFails, Dial, ConnectFails, Connect, Recv, RecvFails,
     WriteToClientFails, StopOnCancel, CancelRPC, CloseByReceiver, JoinReader,
     ReaderGone, Return
<1>2. CASE WriteToClient
  BY <1>2 DEF WriteToClient
<1>3. CASE Reader \/ ReadFromClient
  <2>1. UNCHANGED mpc /\ rpc \notin {"none", "done"} /\ rpc' # "none"
    BY <1>3 DEF Reader, CheckContext, ReadFromClient, ReadFromClientFails, SendToPlugin,
       SendToPluginFails, ReaderCancel, CloseSend, CloseErrCh, readerFrame, receiverVars
  <2> QED
    BY <2>1
<1>4. CASE UNCHANGED <<mpc, rpc>>
  BY <1>4
<1>5. CASE AfterFunc
  BY <1>5, <1>4 DEF AfterFunc, StartAfterFunc, CloseByAfterFunc, receiverVars
<1>6. CASE Handler \/ Plugin \/ \E v \in Verdicts : PluginReturn(v)
  BY <1>6, <1>4 DEF Handler, AcceptConnect, AcceptFails, SendResult, SendResultFails,
     Plugin, PluginRead, PluginWrite, PluginClose, PluginReturn, pluginFrame, receiverVars
<1>7. CASE Environment \/ Done
  BY <1>7, <1>4 DEF Environment, ClientLeaves, CallerCancels, TransportLost, envFrame,
     Done, vars, receiverVars
<1> QED
  BY <1>1, <1>2, <1>3, <1>5, <1>6, <1>7 DEF Next

-----------------------------------------------------------------------------
(* The plugin's messages. *)

streamVars == <<frame, outcome, delivered, down, ppc, verdict, wrote>>

\* A step that moves no message and does not go back to receiving.
LEMMA StreamFrame ==
    ASSUME StreamInv, UNCHANGED streamVars,
           Receiving' => Receiving /\ (mpc' = "write" <=> mpc = "write")
    PROVE  StreamInv'
  BY DEF StreamInv, StreamType, DownInv, DeliveryInv, Open, Taken, streamVars

\* What the types say of the two sequences.
LEMMA StreamLens ==
    ASSUME StreamInv
    PROVE  /\ delivered \in Seq(Nat) /\ down \in Seq(Frames) /\ wrote \in Nat
           /\ Len(delivered) \in Nat /\ Len(down) \in Nat
<1>1. delivered \in Seq(Nat) /\ down \in Seq(Frames) /\ wrote \in Nat
  BY DEF StreamInv, StreamType
<1> QED
  BY <1>1

\* What DownInv says of one frame that no CLOSE frame precedes.
LEMMA OpenFrame ==
    ASSUME StreamInv, Receiving, NEW i \in 1..Len(down), Open(i)
    PROVE  /\ down[i].type = "DATA" => down[i].val = Taken + i
           /\ down[i].type = "RESULT" => ppc = "ok" /\ wrote = Taken + i - 1
  BY DEF StreamInv, DownInv

\* Recv takes the next frame: a message moves from the stream to the receiver, a
\* RESULT is there only if everything before it was taken.
LEMMA RecvStep ==
    ASSUME StreamInv, Recv
    PROVE  StreamInv'
<1>1. /\ mpc = "recv" /\ Receiving /\ down # <<>> /\ down' = Tail(down)
      /\ UNCHANGED <<delivered, ppc, verdict, wrote>>
  BY DEF Recv, connVars, pluginVars, Receiving
<1>2. /\ delivered \in Seq(Nat) /\ down \in Seq(Frames) /\ wrote \in Nat
      /\ Len(delivered) \in Nat /\ Len(down) \in Nat
  BY StreamLens
<1>3. /\ Head(down) = down[1] /\ Head(down) \in Frames /\ 1 \in 1..Len(down)
      /\ down' \in Seq(Frames) /\ Len(down') = Len(down) - 1
      /\ \A i \in 1..Len(down') : down'[i] = down[i + 1] /\ i + 1 \in 1..Len(down)
  BY <1>1, <1>2
<1>4. Taken = Len(delivered)
  BY <1>1, <1>2 DEF Taken
<1>5. CASE Head(down).type = "DATA"
  <2>1. frame' = Head(down).val /\ mpc' = "write" /\ UNCHANGED outcome
    BY <1>5 DEF Recv
  <2>2. Open(1)
    BY <1>5, <1>3 DEF Open
  <2>3. frame' = Len(delivered) + 1 /\ frame' \in Nat
    <3>1. down[1].val = Taken + 1
      BY <1>1, <1>3, <1>5, <2>2, OpenFrame
    <3> QED
      BY <3>1, <1>2, <1>3, <1>4, <2>1
  <2>4. Taken' = Taken + 1
    BY <1>1, <1>2, <1>4, <2>1 DEF Taken
  <2>5. ASSUME NEW n \in 0..Len(down'), Open(n)'
        PROVE  Open(n + 1)
    <3> SUFFICES ASSUME NEW k \in 1..(n + 1)
                 PROVE  down[k].type # "CLOSE"
      BY DEF Open
    <3>1. CASE k = 1
      BY <3>1, <1>3, <1>5
    <3>2. CASE k # 1
      <4>1. k - 1 \in 1..n /\ k - 1 \in 1..Len(down') /\ (k - 1) + 1 = k
        BY <3>2, <1>2, <1>3
      <4>2. down'[k - 1].type # "CLOSE"
        BY <4>1, <2>5 DEF Open
      <4> QED
        BY <4>1, <4>2, <1>3
    <3> QED
      BY <3>1, <3>2
  <2>6. ASSUME NEW i \in 1..Len(down'), Open(i)'
        PROVE  /\ down'[i].type = "DATA" => down'[i].val = Taken' + i
               /\ down'[i].type = "RESULT" => ppc' = "ok" /\ wrote' = Taken' + i - 1
    <3>1. Open(i + 1)
      BY <2>5, <2>6, <1>2, <1>3
    <3>2. /\ down[i + 1].type = "DATA" => down[i + 1].val = Taken + (i + 1)
          /\ down[i + 1].type = "RESULT" => ppc = "ok" /\ wrote = Taken + (i + 1) - 1
      BY <3>1, <1>1, <1>3, OpenFrame
    <3>3. /\ down'[i] = down[i + 1] /\ i \in Nat
          /\ ppc' = ppc /\ wrote' = wrote /\ Taken' = Taken + 1 /\ Taken \in Nat
      BY <1>1, <1>2, <1>3, <1>4, <2>4
    <3>4. Taken + (i + 1) = Taken' + i /\ Taken + (i + 1) - 1 = Taken' + i - 1
      BY <3>3
    <3> QED
      BY <3>2, <3>3, <3>4, Zenon
  <2>7. ASSUME ppc' # "ok", Open(Len(down))'
        PROVE  wrote' = Taken' + Len(down')
    <3>1. Open(Len(down') + 1)
      BY <2>5, <2>7, <1>2, <1>3 DEF Open
    <3>2. wrote = Taken + Len(down)
      <4>1. Len(down') + 1 = Len(down) /\ ppc # "ok"
        BY <2>7, <1>1, <1>2, <1>3
      <4> QED
        BY <3>1, <4>1, <1>1 DEF StreamInv, DownInv
    <3>3. /\ wrote' = wrote /\ Taken' = Taken + 1 /\ Taken \in Nat
          /\ Len(down') = Len(down) - 1 /\ Len(down) \in Nat
      BY <1>1, <1>2, <1>3, <1>4, <2>4
    <3> QED
      BY <3>2, <3>3
  <2>8. StreamType' /\ DeliveryInv'
    BY <1>1, <1>3, <2>1, <2>3 DEF StreamInv, StreamType, DeliveryInv
  <2> QED
    BY <2>1, <2>3, <2>6, <2>7, <2>8, <1>1 DEF StreamInv, DownInv
<1>6. CASE Head(down).type = "CLOSE"
  <2>1. mpc' = "stop" /\ UNCHANGED <<frame, outcome>>
    BY <1>6 DEF Recv
  <2> QED
    BY <2>1, <1>1, <1>3 DEF StreamInv, StreamType, DownInv, DeliveryInv, Receiving
<1>7. CASE Head(down).type = "RESULT"
  <2>1. outcome' = Head(down).val /\ mpc' = "stop" /\ UNCHANGED frame
    BY <1>7 DEF Recv
  <2>2. Open(1)
    BY <1>7, <1>3 DEF Open
  <2>3. ppc = "ok" /\ wrote = Len(delivered)
    <3>1. ppc = "ok" /\ wrote = Taken + 1 - 1
      BY <1>1, <1>3, <1>7, <2>2, OpenFrame
    <3> QED
      BY <3>1, <1>2, <1>4
  <2>4. Head(down).val \in Kinds
    BY <1>3, <1>7 DEF Frames
  <2> QED
    BY <2>1, <2>3, <2>4, <1>1, <1>3
       DEF StreamInv, StreamType, DownInv, DeliveryInv, Receiving
<1> QED
  BY <1>5, <1>6, <1>7 DEF Recv

\* WriteMessage hands the frame to the client: what was taken is now delivered.
LEMMA WriteStep ==
    ASSUME StreamInv, WriteToClient
    PROVE  StreamInv'
<1>1. /\ mpc = "write" /\ mpc' = "recv" /\ delivered' = Append(delivered, frame)
      /\ UNCHANGED <<frame, outcome, down, ppc, verdict, wrote>>
  BY DEF WriteToClient, pluginVars
<1>2. Receiving /\ Receiving'
  BY <1>1 DEF Receiving
<1>3. /\ delivered \in Seq(Nat) /\ down \in Seq(Frames) /\ wrote \in Nat
      /\ Len(delivered) \in Nat /\ Len(down) \in Nat
  BY StreamLens
<1>4. outcome = "none" /\ frame = Len(delivered) + 1
  BY <1>1, <1>2 DEF StreamInv, DownInv
<1>5. /\ delivered' \in Seq(Nat) /\ Len(delivered') = Len(delivered) + 1
      /\ \A i \in 1..Len(delivered) : delivered'[i] = delivered[i]
      /\ delivered'[Len(delivered) + 1] = frame
  <2>1. delivered' = Append(delivered, frame)
    BY <1>1
  <2>2. delivered \in Seq(Nat) /\ frame \in Nat
    BY <1>3, <1>4
  <2> QED
    BY <2>1, <2>2
<1>6. Taken' = Taken
  BY <1>1, <1>3, <1>5 DEF Taken
<1>7. \A n : Open(n)' = Open(n)
  BY <1>1 DEF Open
<1>8. DownInv'
  BY <1>1, <1>2, <1>4, <1>6, <1>7 DEF StreamInv, DownInv
<1>9. \A i \in 1..Len(delivered') : delivered'[i] = i
  <2> SUFFICES ASSUME NEW i \in 1..Len(delivered')
               PROVE  delivered'[i] = i
    OBVIOUS
  <2>1. CASE i \in 1..Len(delivered)
    <3>1. delivered[i] = i
      BY <2>1 DEF StreamInv, DeliveryInv
    <3> QED
      BY <3>1, <2>1, <1>5
  <2>2. CASE i = Len(delivered) + 1
    BY <2>2, <1>4, <1>5
  <2> QED
    BY <2>1, <2>2, <1>3, <1>5
<1>10. StreamType' /\ DeliveryInv'
  BY <1>1, <1>4, <1>5, <1>9 DEF StreamInv, StreamType, DeliveryInv
<1> QED
  BY <1>8, <1>10 DEF StreamInv

\* The plugin puts a frame at the end of what is on its way: a message numbered
\* next, its CLOSE or its RESULT.
LEMMA SendStep ==
    ASSUME StreamInv, NEW f \in Frames,
           down' = Append(down, f),
           UNCHANGED <<mpc, frame, outcome, delivered, verdict>>,
           ppc # "ok", ppc' \in {"start", "run", "finish", "ok", "error"},
           wrote' = IF f.type = "DATA" THEN wrote + 1 ELSE wrote,
           f.type = "DATA" => f.val = wrote + 1 /\ ppc' # "ok",
           f.type = "CLOSE" => ppc' # "ok",
           f.type = "RESULT" => ppc' = "ok"
    PROVE  StreamInv'
<1>1. /\ delivered \in Seq(Nat) /\ down \in Seq(Frames) /\ wrote \in Nat
      /\ Len(delivered) \in Nat /\ Len(down) \in Nat
  BY StreamLens
<1>2. f.type \in {"DATA", "CLOSE", "RESULT"}
  BY DEF Frames
<1>3. /\ down' \in Seq(Frames) /\ Len(down') = Len(down) + 1
      /\ \A k \in 1..Len(down) : down'[k] = down[k]
      /\ down'[Len(down) + 1] = f
  BY <1>1
<1>4. outcome = "none" /\ Taken' = Taken /\ Taken \in Nat
  <2>1. outcome = "none"
    BY DEF StreamInv, DeliveryInv
  <2>2. Taken' = Taken
    BY DEF Taken
  <2>3. Taken \in Nat
    BY <1>1 DEF Taken
  <2> QED
    BY <2>1, <2>2, <2>3
<1>5. ASSUME NEW n \in 0..Len(down), Open(n)'
      PROVE  Open(n)
  <2> SUFFICES ASSUME NEW k \in 1..n
               PROVE  down[k].type # "CLOSE"
    BY DEF Open
  <2>1. down'[k].type # "CLOSE"
    BY <1>5 DEF Open
  <2> QED
    BY <2>1, <1>1, <1>3
<1>6. ASSUME Open(Len(down))'
      PROVE  Open(Len(down)) /\ f.type # "CLOSE"
  <2>1. \A k \in 1..(Len(down) + 1) : down'[k].type # "CLOSE"
    BY <1>3, <1>6 DEF Open
  <2>2. f.type # "CLOSE"
    BY <2>1, <1>1, <1>3
  <2>3. \A k \in 1..Len(down) : down[k].type # "CLOSE"
    BY <2>1, <1>1, <1>3
  <2> QED
    BY <2>2, <2>3 DEF Open
<1>7. ASSUME Receiving'
      PROVE  DownInv'
  <2>0. Receiving
    BY <1>7 DEF Receiving
  <2>1. mpc' = "write" => frame' = Len(delivered') + 1
    BY <2>0 DEF StreamInv, DownInv
  <2>2. ASSUME Open(Len(down))'
        PROVE  wrote = Taken + Len(down)
    BY <2>0, <2>2, <1>6 DEF StreamInv, DownInv
  <2>3. ASSUME NEW i \in 1..Len(down'), Open(i)'
        PROVE  /\ down'[i].type = "DATA" => down'[i].val = Taken' + i
               /\ down'[i].type = "RESULT" => ppc' = "ok" /\ wrote' = Taken' + i - 1
    <3>1. CASE i \in 1..Len(down)
      <4>1. Open(i) /\ down'[i] = down[i]
        BY <2>3, <3>1, <1>1, <1>3, <1>5
      <4>2. /\ down[i].type = "DATA" => down[i].val = Taken + i
            /\ down[i].type = "RESULT" => ppc = "ok" /\ wrote = Taken + i - 1
        BY <4>1, <3>1, <2>0, OpenFrame
      <4> QED
        BY <4>1, <4>2, <1>4
    <3>2. CASE i = Len(down) + 1
      <4>1. wrote = Taken + Len(down) /\ down'[i] = f
        <5>1. Open(Len(down))'
          BY <2>3, <3>2, <1>3 DEF Open
        <5> QED
          BY <5>1, <2>2, <3>2, <1>3
      <4>2. wrote + 1 = Taken' + i /\ wrote = Taken' + i - 1
        BY <4>1, <3>2, <1>1, <1>4
      <4> QED
        BY <4>1, <4>2
    <3> QED
      BY <3>1, <3>2, <1>1, <1>3
  <2>4. ASSUME ppc' # "ok", Open(Len(down))'
        PROVE  wrote' = Taken' + Len(down')
    <3>1. wrote = Taken + Len(down) /\ f.type = "DATA"
      BY <2>2, <2>4, <1>2, <1>6
    <3>2. wrote' = wrote + 1
      BY <3>1
    <3> QED
      BY <3>1, <3>2, <1>1, <1>3, <1>4
  <2> QED
    BY <2>1, <2>3, <2>4, <1>4 DEF DownInv
<1>8. StreamType'
  <2>1. wrote' \in Nat
    BY <1>1
  <2> QED
    BY <2>1, <1>3 DEF StreamInv, StreamType
<1>9. DeliveryInv'
  BY <1>4 DEF StreamInv, DeliveryInv
<1> QED
  BY <1>7, <1>8, <1>9 DEF StreamInv, DownInv

\* The handler's and the plugin's steps.
LEMMA PluginStep ==
    ASSUME StreamInv, Handler \/ Plugin \/ \E v \in Verdicts : PluginReturn(v)
    PROVE  StreamInv'
<1>1. ASSUME UNCHANGED <<mpc, frame, outcome, delivered, down, wrote>>,
             ppc # "ok", ppc' \in {"run", "finish", "error"},
             verdict' \in [kind : Kinds, err : BOOLEAN]
      PROVE  StreamInv'
  BY <1>1 DEF StreamInv, StreamType, DownInv, DeliveryInv, Open, Taken, Receiving
<1>2. CASE AcceptConnect \/ AcceptFails \/ SendResultFails \/ PluginRead
  <2>1. /\ UNCHANGED <<mpc, frame, outcome, delivered, down, wrote, verdict>>
        /\ ppc # "ok" /\ ppc' \in {"run", "finish", "error"}
    BY <1>2 DEF AcceptConnect, AcceptFails, SendResultFails, PluginRead, pluginFrame,
       receiverVars, connVars, pluginVars
  <2>2. verdict' \in [kind : Kinds, err : BOOLEAN]
    BY <2>1 DEF StreamInv, StreamType
  <2> QED
    BY <1>1, <2>1, <2>2
<1>3. ASSUME NEW v \in Verdicts, PluginReturn(v)
      PROVE  StreamInv'
  <2>1. /\ UNCHANGED <<mpc, frame, outcome, delivered, down, wrote>> /\ verdict' = v
        /\ ppc # "ok" /\ ppc' \in {"run", "finish", "error"}
    BY <1>3 DEF PluginReturn, pluginFrame, receiverVars, connVars
  <2>2. verdict' \in [kind : Kinds, err : BOOLEAN]
    BY <2>1, BridgeAssumption DEF Kinds
  <2> QED
    BY <1>1, <2>1, <2>2
<1>4. CASE PluginWrite
  <2> DEFINE f == [type |-> "DATA", val |-> wrote + 1]
  <2>1. /\ UNCHANGED <<mpc, frame, outcome, delivered, verdict, ppc>>
        /\ down' = Append(down, f) /\ wrote' = wrote + 1 /\ ppc = "run"
    BY <1>4 DEF PluginWrite, pluginFrame, receiverVars, connVars
  <2>2. f \in Frames /\ f.type = "DATA" /\ f.val = wrote + 1
    BY StreamLens DEF Frames
  <2> HIDE DEF f
  <2> QED
    BY <2>1, <2>2, SendStep
<1>5. ASSUME NEW code \in CloseCodes, PluginClose(code)
      PROVE  StreamInv'
  <2> DEFINE f == [type |-> "CLOSE", val |-> code]
  <2>1. /\ UNCHANGED <<mpc, frame, outcome, delivered, verdict, ppc, wrote>>
        /\ down' = Append(down, f) /\ ppc = "run"
    BY <1>5 DEF PluginClose, pluginFrame, receiverVars, connVars
  <2>2. f \in Frames /\ f.type = "CLOSE"
    BY BridgeAssumption DEF Frames
  <2> HIDE DEF f
  <2> QED
    BY <2>1, <2>2, SendStep
<1>6. CASE SendResult
  <2> DEFINE f == [type |-> "RESULT", val |-> verdict.kind]
  <2>1. /\ UNCHANGED <<mpc, frame, outcome, delivered, verdict, wrote>>
        /\ down' = Append(down, f) /\ ppc = "finish" /\ ppc' = "ok"
    BY <1>6 DEF SendResult, pluginFrame, receiverVars, connVars
  <2>2. f \in Frames /\ f.type = "RESULT"
    BY DEF Frames, StreamInv, StreamType
  <2> HIDE DEF f
  <2> QED
    BY <2>1, <2>2, SendStep
<1> QED
  BY <1>2, <1>3, <1>4, <1>5, <1>6 DEF Handler, Plugin

\* Every step keeps what is said of the plugin's messages.
LEMMA StreamStep ==
    ASSUME StreamInv, Next
    PROVE  StreamInv'
<1>1. CASE Recv
  BY <1>1, RecvStep
<1>2. CASE WriteToClient
  BY <1>2, WriteStep
<1>3. CASE Handler \/ Plugin \/ \E v \in Verdicts : PluginReturn(v)
  BY <1>3, PluginStep
<1>4. CASE \/ DialFails \/ Dial \/ ConnectFails \/ Connect \/ RecvFails
           \/ WriteToClientFails \/ StopOnCancel \/ CancelRPC \/ CloseByReceiver
           \/ JoinReader \/ Return
  <2>1. UNCHANGED streamVars
    BY <1>4 DEF DialFails, Dial, ConnectFails, Connect, RecvFails, WriteToClientFails,
       StopOnCancel, CancelRPC, CloseByReceiver, JoinReader, Return, streamVars,
       connVars, pluginVars
  <2>2. Receiving' => Receiving /\ mpc' # "write" /\ mpc # "write"
    BY <1>4 DEF DialFails, Dial, ConnectFails, Connect, RecvFails, WriteToClientFails,
       StopOnCancel, CancelRPC, CloseByReceiver, JoinReader, Return, Receiving
  <2> QED
    BY <2>1, <2>2, StreamFrame
<1>5. CASE AfterFunc \/ Reader \/ ReadFromClient \/ Environment \/ Done
  <2>1. UNCHANGED streamVars /\ UNCHANGED mpc
    <3>1. CASE AfterFunc
      BY <3>1 DEF AfterFunc, StartAfterFunc, CloseByAfterFunc, streamVars, receiverVars,
         connVars, pluginVars
    <3>2. CASE Reader \/ ReadFromClient
      BY <3>2 DEF Reader, CheckContext, ReadFromClient, ReadFromClientFails,
         SendToPlugin, SendToPluginFails, ReaderCancel, CloseSend, CloseErrCh,
         readerFrame, streamVars, receiverVars, pluginVars
    <3>3. CASE Environment
      BY <3>3 DEF Environment, ClientLeaves, CallerCancels, TransportLost, envFrame,
         streamVars, receiverVars, pluginVars
    <3>4. CASE Done
      BY <3>4 DEF Done, vars, streamVars, receiverVars, connVars, pluginVars
    <3> QED
      BY <1>5, <3>1, <3>2, <3>3, <3>4
  <2> QED
    BY <2>1, StreamFrame DEF Receiving
<1> QED
  BY <1>1, <1>2, <1>3, <1>4, <1>5 DEF Next, Receiver

-----------------------------------------------------------------------------
(* The theorems. *)

\* Nothing has been sent, closed or cancelled when HandleWebSocket starts.
LEMMA InitIInv ==
    ASSUME Init
    PROVE  IInv
<1>1. CloseType /\ CloseInv
  <2>1. /\ mpc = "dial" /\ closeCode = NormalClosure /\ afterFunc = "none"
        /\ closedWith = 0 /\ closes = 0 /\ cancelledBy = "none"
    BY DEF Init
  <2> QED
    BY <2>1, NormalClosureType DEF CloseType, CloseInv, CloseCodeKept, Receiving
<1>0. /\ mpc = "dial" /\ frame = 0 /\ outcome = "none" /\ delivered = <<>> /\ down = <<>>
      /\ ppc = "start" /\ verdict = NoVerdict /\ wrote = 0
  BY DEF Init
<1>2. ReaderInv
  BY DEF Init, ReaderInv
<1>3. StreamType
  BY <1>0 DEF StreamType, NoVerdict, Kinds
<1>4. DownInv /\ DeliveryInv
  <2>1. Len(down) = 0 /\ Len(delivered) = 0 /\ Taken = 0
    BY <1>0 DEF Taken
  <2> QED
    BY <1>0, <2>1 DEF DownInv, DeliveryInv
<1> QED
  BY <1>1, <1>2, <1>3, <1>4 DEF IInv, StreamInv

\* IInv is inductive.
THEOREM Invariance == Spec => []IInv
<1>1. Init => IInv
  BY InitIInv
<1>2. IInv /\ [Next]_vars => IInv'
  <2> SUFFICES ASSUME IInv, [Next]_vars
               PROVE  IInv'
    OBVIOUS
  <2>1. CASE Next
    BY <2>1, CloseStep, ReaderStep, StreamStep DEF IInv, StreamInv
  <2>2. CASE UNCHANGED vars
    <3>1. CloseType' /\ CloseInv'
      BY <2>2 DEF IInv, CloseType, CloseInv, CloseCodeKept, Receiving, vars,
         receiverVars, connVars
    <3>2. ReaderInv'
      BY <2>2 DEF IInv, ReaderInv, vars, receiverVars
    <3>3. StreamInv'
      BY <2>2, StreamFrame DEF IInv, StreamInv, streamVars, vars, receiverVars, connVars,
         pluginVars, Receiving
    <3> QED
      BY <3>1, <3>2, <3>3 DEF IInv, StreamInv
  <2> QED
    BY <2>1, <2>2
<1> QED
  BY <1>1, <1>2, PTL DEF Spec

\* closeOnce and the deferred closeConn: the connection is closed at most once,
\* and closed whenever HandleWebSocket has returned after opening the RPC.
THEOREM ConnectionClosedOnce == Spec => []ClosedOnce
<1>1. IInv => ClosedOnce
  <2> SUFFICES ASSUME IInv
               PROVE  ClosedOnce
    OBVIOUS
  <2>1. closes \in {0, 1}
    BY DEF IInv, CloseType
  <2>2. mpc = "done" /\ afterFunc # "none" => closes = 1
    BY DEF IInv, CloseInv
  <2> QED
    BY <2>1, <2>2 DEF ClosedOnce
<1> QED
  BY <1>1, Invariance, PTL

\* stopReader: the receiver's own cancel never lets the AfterFunc callback replace
\* the close code the plugin chose.
THEOREM PluginCodeKept == Spec => []CloseCodeKept
<1>1. IInv => CloseCodeKept
  BY DEF IInv, CloseInv
<1> QED
  BY <1>1, Invariance, PTL

\* stopReader drains errCh: no reader goroutine outlives HandleWebSocket.
THEOREM NoReaderLeft == Spec => []ReaderJoined
<1>1. IInv => ReaderJoined
  BY DEF IInv, ReaderInv, ReaderJoined
<1> QED
  BY <1>1, Invariance, PTL

\* The receive loop: when a verdict is returned, the client has every message the
\* plugin wrote, in order.
THEOREM VerdictAfterMessages == Spec => []ResultAfterDelivery
<1>1. IInv => ResultAfterDelivery
  <2> SUFFICES ASSUME IInv
               PROVE  ResultAfterDelivery
    OBVIOUS
  <2>1. /\ \A i \in 1..Len(delivered) : delivered[i] = i
        /\ outcome # "none" => Len(delivered) = wrote
    BY DEF IInv, StreamInv, DeliveryInv
  <2> QED
    BY <2>1 DEF ResultAfterDelivery
<1> QED
  BY <1>1, Invariance, PTL
=============================================================================
