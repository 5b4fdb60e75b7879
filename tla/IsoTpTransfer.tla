---------------------------- MODULE IsoTpTransfer ----------------------------
(***************************************************************************)
(* Messages sent from one ISO-TP link to another over a CAN bus that keeps *)
(* the order of frames and may lose some (a full receive queue in twai.c,  *)
(* a full MCP2515).  The sending link is polled by its                     *)
(* isotp_processing_task, which also polls and empties the receiving link. *)
(*                                                                         *)
(* One tick is a good part of the response timeout (100 ms), far longer    *)
(* than a frame takes: time passes only when no frame is under way and the *)
(* sender has no consecutive frame it may send.  The task that polls a     *)
(* link with a transfer in progress does not block (isotp_bridge.c:157).   *)
(***************************************************************************)
EXTENDS Integers, Sequences, SequencesExt

CONSTANTS
    CfData, SnMod, FfDlMod, SendBufSize, RecvBufSize, MaxWft, BlockSize,
    Timeout,
    Sizes,                \* sizes of the messages offered
    MaxMessages,          \* bound: messages offered in a behaviour
    MaxLoss               \* bound: frames lost in a behaviour

\* The block size is one byte of a flow-control frame.
ASSUME TransferConstants ==
    /\ CfData \in Nat /\ CfData > 1
    /\ SnMod \in Nat /\ SnMod > 1
    /\ FfDlMod \in Nat /\ FfDlMod > CfData
    /\ SendBufSize \in Nat /\ SendBufSize <= FfDlMod
    /\ RecvBufSize \in Nat /\ RecvBufSize >= CfData
    /\ BlockSize \in 1..255
    /\ MaxWft \in Nat /\ Timeout \in Nat \ {0}
    /\ MaxMessages \in Nat /\ MaxLoss \in Nat
    /\ Sizes \subseteq 0..SendBufSize

VARIABLES
    send_buffer, send_size, send_offset, send_sn, send_bs_remain, send_st_min,
    send_wtf_count, send_timer_st, send_timer_bs, send_protocol_result,
    send_status,
    receive_buffer, receive_size, receive_offset, receive_sn,
    receive_bs_count, receive_timer_cr, receive_protocol_result,
    receive_status,
    wire, fcs,            \* frames on the bus, one queue each way
    offered,              \* history: the size of each message accepted
    delivered,            \* history: what isotp_receive returned
    losses                \* frames lost so far

StMins == {0}             \* the receiving link's st_min is 0 (isotp.c:480)

Tx == INSTANCE IsoTpSend
Rx == INSTANCE IsoTpReceive

sender == <<send_buffer, send_size, send_offset, send_sn, send_bs_remain,
            send_st_min, send_wtf_count, send_timer_st, send_timer_bs,
            send_protocol_result, send_status>>
receiver == <<receive_buffer, receive_size, receive_offset, receive_sn,
              receive_bs_count, receive_timer_cr, receive_protocol_result,
              receive_status>>

vars == <<sender, receiver, wire, fcs, offered, delivered, losses>>

Init ==
    /\ Tx!SendInit /\ Rx!ReceiveInit
    /\ wire = <<>> /\ fcs = <<>>
    /\ offered = <<>> /\ delivered = <<>> /\ losses = 0

-----------------------------------------------------------------------------
(* The sending application.                                                *)
Offer(size) ==
    /\ Len(offered) < MaxMessages
    /\ Tx!IsotpSend(Len(offered) + 1, size)
    /\ offered' = Append(offered, size)
    /\ UNCHANGED <<receiver, fcs, delivered, losses>>

SenderPoll ==
    /\ Tx!PollSend
    /\ UNCHANGED <<receiver, fcs, offered, delivered, losses>>

(* The frame at the head of the bus reaches isotp_on_can_message.          *)
OnFrame(f) ==
    \/ f.type = "SF" /\ Rx!OnSingle(f.id, f.dl, CfData)
    \/ f.type = "FF" /\ Rx!OnFirst(f.id, f.dl, CfData)
    \/ f.type = "CF" /\ Rx!OnConsecutive(f.id, f.sn, f.offset, CfData)

ReceiveFrame ==
    /\ wire # <<>>
    /\ OnFrame(Head(wire))
    /\ wire' = Tail(wire)
    /\ UNCHANGED <<sender, offered, delivered, losses>>

ReceiveFlowControl ==
    /\ fcs # <<>>
    /\ Tx!OnFlowControl(Head(fcs).fs, Head(fcs).bs, 0)
    /\ fcs' = Tail(fcs)
    /\ UNCHANGED <<receiver, offered, delivered, losses>>

(* The receiving side of isotp_processing_task: isotp_poll, isotp_receive. *)
ReceiverPoll ==
    /\ \/ Rx!PollTimeoutCr /\ UNCHANGED delivered
       \/ Rx!IsotpReceive /\ delivered' = Append(delivered, Rx!Received)
    /\ UNCHANGED <<sender, wire, offered, losses>>

(* The bus loses a frame.                                                  *)
LoseFrame ==
    /\ losses < MaxLoss
    /\ losses' = losses + 1
    /\ \/ wire # <<>> /\ wire' = Tail(wire) /\ UNCHANGED fcs
       \/ fcs # <<>> /\ fcs' = Tail(fcs) /\ UNCHANGED wire
    /\ UNCHANGED <<sender, receiver, offered, delivered>>

Tick ==
    /\ wire = <<>> /\ fcs = <<>>
    /\ ~(send_status = "INPROGRESS" /\ Tx!MaySendCf)
    /\ Tx!SendElapse /\ Rx!ReceiveElapse
    /\ UNCHANGED <<offered, delivered, losses>>

Next ==
    \/ \E size \in Sizes : Offer(size)
    \/ SenderPoll
    \/ ReceiveFrame
    \/ ReceiveFlowControl
    \/ ReceiverPoll
    \/ LoseFrame
    \/ Tick

(* The two tasks keep polling, the bus keeps delivering, time goes on; the *)
(* application owes nothing and no frame has to be lost.                   *)
Fairness ==
    /\ WF_vars(SenderPoll) /\ WF_vars(ReceiverPoll)
    /\ WF_vars(ReceiveFrame) /\ WF_vars(ReceiveFlowControl)
    /\ WF_vars(Tick)

Spec == Init /\ [][Next]_vars /\ Fairness

-----------------------------------------------------------------------------
IdOf(bytes) == bytes[0][1]

(* The link keeps the promise of MessageTransfer: what isotp_receive       *)
(* returns is a message isotp_send accepted, whole, in order and once.     *)
Newest == IF delivered = <<>> THEN 0 ELSE IdOf(Last(delivered))

Promise == INSTANCE MessageTransfer WITH newest <- Newest

ImplementsTransfer == Promise!Spec

(* Flow control end to end: the consecutive frames under way never exceed  *)
(* what is left of the block the receiver granted, so its driver queue     *)
(* never has to hold more than a block (isotp_config.h:4).                 *)
UnderWay == {k \in DOMAIN wire : wire[k].type = "CF"}

BlockHonoured ==
    receive_status = "INPROGRESS" => Cardinality(UnderWay) <= receive_bs_count

(* A transfer never hangs at either end, whatever frames are lost: it      *)
(* completes or times out.                                                 *)
TransferEnds ==
    /\ (send_status = "INPROGRESS") ~> (send_status # "INPROGRESS")
    /\ (receive_status = "INPROGRESS") ~> (receive_status # "INPROGRESS")

(* When no frame is lost, a message that fits the receiver's buffer and    *)
(* whose size a first frame can announce gets through, unless the sender   *)
(* offers another before it is handed over.                                *)
Fits(size) == size \in 1..RecvBufSize /\ size < FfDlMod

IsDelivered(id) == \E k \in DOMAIN delivered : IdOf(delivered[k]) = id

LastIsDelivered ==
    \A id \in 1..MaxMessages :
        (Len(offered) = id /\ Fits(offered[id]))
            ~> (Len(offered) > id \/ IsDelivered(id) \/ losses > 0)
=============================================================================
