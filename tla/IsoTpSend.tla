------------------------------ MODULE IsoTpSend ------------------------------
(***************************************************************************)
(* The sending half of an IsoTpLink (isotp.c): isotp_send_with_id, the     *)
(* flow-control branch of isotp_on_can_message and the sending part of     *)
(* isotp_poll.  The half shares no field with the receiving half           *)
(* (IsoTpReceive), so the two are modelled apart and composed in           *)
(* IsoTpTransfer.                                                          *)
(*                                                                         *)
(* A payload is named by a message id and a size; the byte at position i   *)
(* of message id is the pair <<id, i>>, so a frame only has to carry the   *)
(* id and the position its data starts at.  A deadline of the code         *)
(* (send_timer_st, send_timer_bs) is kept as the time left until it, -1    *)
(* once isotp_user_get_us() is past it: the code only asks `now > timer'.  *)
(* Every send of a frame succeeds: isotp_user_send_can always returns      *)
(* ISOTP_RET_OK (isotp_bridge.c:60).                                       *)
(***************************************************************************)
EXTENDS Integers, Sequences

CONSTANTS
    CfData,      \* payload bytes of a consecutive frame (7 in the code)
    SnMod,       \* sequence numbers wrap at SnMod (16)
    FfDlMod,     \* a first frame announces the size modulo FfDlMod (4096)
    SendBufSize, \* send_buf_size of the link (4096, 512 for the last link)
    MaxWft,      \* ISO_TP_MAX_WFT_NUMBER
    Timeout,     \* ISO_TP_DEFAULT_RESPONSE_TIMEOUT, in ticks
    StMins       \* separation times in force: stmin_override, or the peer's STmin

ASSUME SendConstants ==
    /\ CfData \in Nat /\ CfData > 1
    /\ SnMod \in Nat /\ SnMod > 1
    /\ FfDlMod \in Nat /\ FfDlMod > CfData
    /\ SendBufSize \in Nat /\ SendBufSize >= CfData
    /\ MaxWft \in Nat
    /\ Timeout \in Nat \ {0}
    /\ StMins \subseteq Nat

VARIABLES
    send_buffer,          \* the id of the message in the send buffer
    send_size, send_offset, send_sn, send_bs_remain, send_st_min,
    send_wtf_count, send_timer_st, send_timer_bs,
    send_protocol_result, send_status,
    wire                  \* data frames on the bus, oldest first

send_vars == <<send_buffer, send_size, send_offset, send_sn, send_bs_remain,
               send_st_min, send_wtf_count, send_timer_st, send_timer_bs,
               send_protocol_result, send_status>>

InvalidBs == 65535        \* ISOTP_INVALID_BS: the peer set no block limit
MaxBs     == 255          \* BS is one byte of the frame
FfData    == CfData - 1   \* payload bytes of a first frame

SendStatus == {"IDLE", "INPROGRESS", "ERROR"}
SendResult == {"OK", "TIMEOUT_BS", "WFT_OVRN", "BUFFER_OVFLW"}
FlowStatus == {"CONTINUE", "WAIT", "OVERFLOW", "RESERVED"}

-----------------------------------------------------------------------------
(* Frames.                                                                 *)

SingleFrame(id, size) == [type |-> "SF", id |-> id, dl |-> size]

\* FF_DL has 12 bits: a larger size loses its high bits.
FirstFrame(id, size) == [type |-> "FF", id |-> id, dl |-> size % FfDlMod]

ConsecutiveFrame(id, sn, offset) ==
    [type |-> "CF", id |-> id, sn |-> sn, offset |-> offset]

NextSn(sn) == IF sn + 1 > SnMod - 1 THEN 0 ELSE sn + 1

Lesser(a, b) == IF a <= b THEN a ELSE b

Expired(timer) == timer < 0
Elapse(timer)  == IF Expired(timer) THEN timer ELSE timer - 1

-----------------------------------------------------------------------------
SendInit ==
    /\ send_status = "IDLE"
    /\ send_protocol_result = "OK"
    /\ send_buffer = 0 /\ send_size = 0 /\ send_offset = 0
    /\ send_sn = 0 /\ send_bs_remain = 0 /\ send_st_min = 0
    /\ send_wtf_count = 0
    /\ send_timer_st = -1 /\ send_timer_bs = -1

\* Wrong: what is left of an abandoned message's block is kept.
StartBlockStale == UNCHANGED send_bs_remain /\ send_st_min' = 0 /\ send_wtf_count' = 0

(* What a message of several frames starts with.                           *)
StartBlock == send_bs_remain' = 0 /\ send_st_min' = 0 /\ send_wtf_count' = 0

(* The definitions marked `Wrong' in these modules are what a plausible    *)
(* bug would make of the one that follows; each is used to see that some   *)
(* property fails under it, never by a specification.                      *)

(***************************************************************************)
(* isotp_send_with_id.  A call for a message that does not fit the buffer, *)
(* or while another is in progress, changes nothing and returns an error.  *)
(* A single frame leaves the status alone, an earlier ERROR included.      *)
(***************************************************************************)
Accepts(size) == size <= SendBufSize /\ send_status # "INPROGRESS"

IsotpSendSingle(id, size) ==
    /\ Accepts(size)
    /\ size <= CfData
    /\ send_buffer' = id /\ send_size' = size /\ send_offset' = 0
    /\ wire' = Append(wire, SingleFrame(id, size))
    /\ UNCHANGED <<send_sn, send_bs_remain, send_st_min, send_wtf_count,
                   send_timer_st, send_timer_bs, send_protocol_result,
                   send_status>>

IsotpSendMulti(id, size) ==
    /\ Accepts(size)
    /\ size > CfData
    /\ send_buffer' = id /\ send_size' = size /\ send_offset' = FfData
    /\ send_sn' = 1
    /\ wire' = Append(wire, FirstFrame(id, size))
    /\ StartBlock
    /\ send_timer_st' = 0
    /\ send_timer_bs' = Timeout
    /\ send_protocol_result' = "OK"
    /\ send_status' = "INPROGRESS"

IsotpSend(id, size) == IsotpSendSingle(id, size) \/ IsotpSendMulti(id, size)

(***************************************************************************)
(* isotp_on_can_message, a flow-control frame of at least three bytes.     *)
(* Any such frame refreshes the timer, one with a reserved flow status     *)
(* included; stmin is the override or what the frame asks for.             *)
(***************************************************************************)
BlockGranted(bs) == IF bs = 0 THEN InvalidBs ELSE bs

\* Wrong: one wait too many is borne.
TooManyWaitsLate(count) == count > MaxWft + 1

TooManyWaits(count) == count > MaxWft

OnFlowOverflow ==
    /\ send_protocol_result' = "BUFFER_OVFLW"
    /\ send_status' = "ERROR"
    /\ UNCHANGED <<send_bs_remain, send_st_min, send_timer_st, send_wtf_count>>

OnFlowWait ==
    /\ send_wtf_count' = send_wtf_count + 1
    /\ IF TooManyWaits(send_wtf_count')
       THEN send_protocol_result' = "WFT_OVRN" /\ send_status' = "ERROR"
       ELSE UNCHANGED <<send_protocol_result, send_status>>
    /\ UNCHANGED <<send_bs_remain, send_st_min, send_timer_st>>

\* Wrong: the separation time starts only after the first frame.
OnFlowContinueNoGap(bs, stmin) ==
    /\ send_bs_remain' = BlockGranted(bs)
    /\ send_st_min' = stmin
    /\ send_wtf_count' = 0
    /\ UNCHANGED <<send_timer_st, send_protocol_result, send_status>>

OnFlowContinue(bs, stmin) ==
    /\ send_bs_remain' = BlockGranted(bs)
    /\ send_st_min' = stmin
    /\ send_timer_st' = stmin
    /\ send_wtf_count' = 0
    /\ UNCHANGED <<send_protocol_result, send_status>>

OnFlowReserved ==
    UNCHANGED <<send_bs_remain, send_st_min, send_timer_st, send_wtf_count,
                send_protocol_result, send_status>>

OnFlowControl(fs, bs, stmin) ==
    /\ IF send_status # "INPROGRESS"
       THEN UNCHANGED send_vars
       ELSE /\ send_timer_bs' = Timeout
            /\ \/ fs = "OVERFLOW" /\ OnFlowOverflow
               \/ fs = "WAIT"     /\ OnFlowWait
               \/ fs = "CONTINUE" /\ OnFlowContinue(bs, stmin)
               \/ fs = "RESERVED" /\ OnFlowReserved
            /\ UNCHANGED <<send_buffer, send_size, send_offset, send_sn>>
    /\ UNCHANGED wire

(***************************************************************************)
(* The sending part of isotp_poll.                                         *)
(***************************************************************************)
MaySendCf ==
    /\ send_bs_remain = InvalidBs \/ send_bs_remain > 0
    /\ send_st_min = 0 \/ Expired(send_timer_st)

\* Wrong: a block is never used up.
UseBlockNever(remain) == remain

UseBlock(remain) == IF remain = InvalidBs THEN remain ELSE remain - 1

\* Wrong: an exactly finished message goes on.
AfterCfLate(offset) == IF offset > send_size THEN "IDLE" ELSE send_status

AfterCf(offset) == IF offset >= send_size THEN "IDLE" ELSE send_status

\* isotp_send_consecutive_frame and what isotp_poll does after it.
PollConsecutive ==
    /\ send_status = "INPROGRESS"
    /\ MaySendCf
    /\ wire' = Append(wire, ConsecutiveFrame(send_buffer, send_sn, send_offset))
    /\ send_offset' = send_offset + Lesser(CfData, send_size - send_offset)
    /\ send_sn' = NextSn(send_sn)
    /\ send_bs_remain' = UseBlock(send_bs_remain)
    /\ send_timer_bs' = Timeout
    /\ send_timer_st' = send_st_min
    /\ send_status' = AfterCf(send_offset')
    /\ UNCHANGED <<send_buffer, send_size, send_st_min, send_wtf_count,
                   send_protocol_result>>

\* A consecutive frame refreshes the timer before it is looked at, so a poll
\* that sends one never times out.
PollTimeoutBs ==
    /\ send_status = "INPROGRESS"
    /\ ~MaySendCf
    /\ Expired(send_timer_bs)
    /\ send_protocol_result' = "TIMEOUT_BS"
    /\ send_status' = "ERROR"
    /\ UNCHANGED <<send_buffer, send_size, send_offset, send_sn,
                   send_bs_remain, send_st_min, send_wtf_count,
                   send_timer_st, send_timer_bs, wire>>

PollSend == PollConsecutive \/ PollTimeoutBs

\* Time passes: the deadlines come one tick nearer.
SendElapse ==
    /\ send_timer_st' = Elapse(send_timer_st)
    /\ send_timer_bs' = Elapse(send_timer_bs)
    /\ UNCHANGED <<send_buffer, send_size, send_offset, send_sn,
                   send_bs_remain, send_st_min, send_wtf_count,
                   send_protocol_result, send_status, wire>>
=============================================================================
