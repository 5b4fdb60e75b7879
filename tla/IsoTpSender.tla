----------------------------- MODULE IsoTpSender -----------------------------
(***************************************************************************)
(* The sending half of a link against any peer: the other end may answer   *)
(* with any flow-control frames, at any time, the ECU on the bus not being *)
(* this code.  `wire' is never emptied: it records every data frame sent.  *)
(***************************************************************************)
EXTENDS IsoTpSend, SequencesExt

CONSTANTS
    MsgSizes,             \* sizes of the messages isotp_send is called with
    BlockSizes,           \* values of BS the peer sends
    MaxMessages,          \* bound: messages accepted in a behaviour
    MaxGrants,            \* bound: CONTINUE frames accepted in a behaviour
    IdleCap               \* bound: where the history `idle' stops counting

ASSUME SenderConstants ==
    /\ MsgSizes \subseteq Nat
    /\ BlockSizes \subseteq 0..MaxBs
    /\ MaxMessages \in Nat /\ MaxGrants \in Nat
    /\ IdleCap \in Nat /\ \A st \in StMins : st < IdleCap

VARIABLES
    grants,               \* history: the CONTINUE frames that took effect
    idle                  \* history: ticks since the last CF or CONTINUE

vars == <<send_vars, wire, grants, idle>>

\* A grant: what the peer asked for, after how many frames, for which message.
Grant(bs, stmin) ==
    [id |-> send_buffer, at |-> Len(wire), bs |-> bs, stmin |-> stmin]

Init == SendInit /\ wire = <<>> /\ grants = <<>> /\ idle = 0

Send(size) ==
    /\ send_buffer < MaxMessages
    /\ IsotpSend(send_buffer + 1, size)
    /\ UNCHANGED <<grants, idle>>

\* A frame that grants a block is recorded when the link is in progress.
Continue(bs, stmin) ==
    /\ Len(grants) < MaxGrants
    /\ OnFlowControl("CONTINUE", bs, stmin)
    /\ IF send_status = "INPROGRESS"
       THEN grants' = Append(grants, Grant(bs, stmin)) /\ idle' = 0
       ELSE UNCHANGED <<grants, idle>>

Refuse(fs) ==
    /\ OnFlowControl(fs, 0, 0)
    /\ UNCHANGED <<grants, idle>>

Poll ==
    \/ PollConsecutive /\ idle' = 0 /\ UNCHANGED grants
    \/ PollTimeoutBs /\ UNCHANGED <<grants, idle>>

Tick ==
    /\ SendElapse
    /\ idle' = Lesser(idle + 1, IdleCap)
    /\ UNCHANGED grants

Next ==
    \/ \E size \in MsgSizes : Send(size)
    \/ \E bs \in BlockSizes, stmin \in StMins : Continue(bs, stmin)
    \/ \E fs \in FlowStatus \ {"CONTINUE"} : Refuse(fs)
    \/ Poll
    \/ Tick

Spec == Init /\ [][Next]_vars

-----------------------------------------------------------------------------
Frame ==
    [type : {"SF"}, id : Nat, dl : Nat]
        \cup [type : {"FF"}, id : Nat, dl : Nat]
        \cup [type : {"CF"}, id : Nat, sn : Nat, offset : Nat]

Grants == [id : Nat, at : Nat, bs : 0..MaxBs, stmin : StMins]

(* Every field of the link stays in the range its declaration in isotp.h   *)
(* and the arithmetic of isotp.c need.                                     *)
TypeOK ==
    /\ send_status \in SendStatus /\ send_protocol_result \in SendResult
    /\ send_buffer \in Nat /\ send_size \in 0..SendBufSize
    /\ send_offset \in 0..SendBufSize
    /\ send_sn \in 0..(SnMod - 1)
    /\ send_bs_remain \in 0..MaxBs \cup {InvalidBs}
    /\ send_st_min \in StMins \cup {0}
    /\ send_wtf_count \in 0..(MaxWft + 1)
    /\ send_timer_st \in {-1} \cup Nat /\ send_timer_bs \in -1..Timeout
    /\ wire \in Seq(Frame)
    /\ grants \in Seq(Grants)
    /\ idle \in 0..IdleCap

(* A consecutive frame is only ever sent under a CONTINUE the peer gave    *)
(* for this very message, and never beyond the block it granted: a block   *)
(* left over from an abandoned message must not leak into the next one.    *)
Covers(g, k) ==
    /\ g.id = wire[k].id
    /\ g.at < k
    /\ g.bs = 0 \/ k - g.at <= g.bs

BlockRespected ==
    \A k \in DOMAIN wire : wire[k].type = "CF" =>
        \E j \in DOMAIN grants :
            /\ Covers(grants[j], k)
            /\ \A later \in DOMAIN grants : later > j => grants[later].at >= k

(* The frames of a message follow each other on the bus without a gap, a   *)
(* repeat or a frame of another message between them, each consecutive     *)
(* frame with the next sequence number and the next part of the data.      *)
Follows(f, g) ==
    /\ f.type # "SF" /\ f.id = g.id
    /\ IF f.type = "FF"
       THEN g.sn = 1 /\ g.offset = FfData
       ELSE g.sn = NextSn(f.sn) /\ g.offset = f.offset + CfData

WireInOrder ==
    \A k \in DOMAIN wire : wire[k].type = "CF" =>
        k > 1 /\ Follows(wire[k - 1], wire[k])

(* After a frame of a message or a CONTINUE, a consecutive frame waits     *)
(* longer than the separation time now in force.                           *)
SentCf == Len(wire') > Len(wire) /\ Last(wire').type = "CF"

StMinRespected == [][SentCf => send_st_min = 0 \/ idle > send_st_min]_vars
=============================================================================
