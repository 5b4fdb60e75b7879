---------------------------- MODULE IsoTpReceive -----------------------------
(***************************************************************************)
(* The receiving half of an IsoTpLink (isotp.c): the data-frame branches   *)
(* of isotp_on_can_message, isotp_receive and the receiving part of        *)
(* isotp_poll.                                                             *)
(*                                                                         *)
(* A data frame names the message it is cut from and the position of its   *)
(* data there; the byte at position i of message id is <<id, i>>.  `room'  *)
(* is the number of bytes after the PCI byte, len - 1: isotp_on_can_message*)
(* drops frames with none.  receive_timer_cr is kept as the time left      *)
(* until the deadline, -1 once it has passed.                              *)
(***************************************************************************)
EXTENDS Integers, Sequences

CONSTANTS
    CfData,       \* payload bytes of a full frame after its PCI byte (7)
    SnMod,        \* sequence numbers wrap at SnMod (16)
    RecvBufSize,  \* receive_buf_size of the link (4096 or 512)
    BlockSize,    \* default_block_size (0x20)
    Timeout       \* ISO_TP_DEFAULT_RESPONSE_TIMEOUT, in ticks

ASSUME ReceiveConstants ==
    /\ CfData \in Nat /\ CfData > 1
    /\ SnMod \in Nat /\ SnMod > 1
    /\ RecvBufSize \in Nat /\ RecvBufSize >= CfData
    /\ BlockSize \in Nat \ {0}
    /\ Timeout \in Nat \ {0}

VARIABLES
    receive_buffer, receive_size, receive_offset, receive_sn,
    receive_bs_count, receive_timer_cr, receive_protocol_result,
    receive_status,
    fcs                   \* flow-control frames on the bus, oldest first

receive_vars == <<receive_buffer, receive_size, receive_offset, receive_sn,
                  receive_bs_count, receive_timer_cr,
                  receive_protocol_result, receive_status>>

FfData == CfData - 1      \* payload bytes of a first frame

ReceiveStatus == {"IDLE", "INPROGRESS", "FULL"}
ReceiveResult == {"OK", "TIMEOUT_CR", "WRONG_SN", "UNEXP_PDU", "BUFFER_OVFLW"}

Lesser(a, b) == IF a <= b THEN a ELSE b

Expired(timer) == timer < 0
Elapse(timer)  == IF Expired(timer) THEN timer ELSE timer - 1

\* Wrong: the sequence number does not wrap.
NextSnUnwrapped(sn) == sn + 1

NextSn(sn) == IF sn + 1 > SnMod - 1 THEN 0 ELSE sn + 1

FlowControl(fs, bs) == [fs |-> fs, bs |-> bs]

-----------------------------------------------------------------------------
Blank == <<0, 0>>         \* what calloc left in the buffer

\* memcpy of n bytes of message id, from its position `from', to position at.
Copied(buffer, at, n, id, from) ==
    [i \in DOMAIN buffer |-> IF at <= i /\ i < at + n
                             THEN <<id, from + (i - at)>>
                             ELSE buffer[i]]

ReceiveInit ==
    /\ receive_status = "IDLE"
    /\ receive_protocol_result = "OK"
    /\ receive_buffer = [i \in 0..(RecvBufSize - 1) |-> Blank]
    /\ receive_size = 0 /\ receive_offset = 0 /\ receive_sn = 0
    /\ receive_bs_count = 0
    /\ receive_timer_cr = -1

\* A single or first frame in the middle of a message is unexpected.
ResultOfStart == IF receive_status = "INPROGRESS" THEN "UNEXP_PDU" ELSE "OK"

(***************************************************************************)
(* A single frame.  One with an impossible length only sets the protocol   *)
(* result; a good one replaces whatever was being received.                *)
(***************************************************************************)
OnSingle(id, dl, room) ==
    /\ receive_protocol_result' = ResultOfStart
    /\ IF dl = 0 \/ dl > room
       THEN UNCHANGED <<receive_buffer, receive_size, receive_status>>
       ELSE /\ receive_buffer' = Copied(receive_buffer, 0, dl, id, 0)
            /\ receive_size' = dl
            /\ receive_status' = "FULL"
    /\ UNCHANGED <<receive_offset, receive_sn, receive_bs_count,
                   receive_timer_cr, fcs>>

(***************************************************************************)
(* A first frame: ignored when it is short or announces what a single      *)
(* frame could carry, refused when the buffer is too small for it.         *)
(***************************************************************************)
Misplaced(dl, room) == room # CfData \/ dl <= CfData

\* Wrong: off by one.
TooLargeLate(dl) == dl > RecvBufSize + 1

TooLarge(dl) == dl > RecvBufSize

OnFirstIgnored(dl, room) ==
    /\ Misplaced(dl, room)
    /\ receive_protocol_result' = ResultOfStart
    /\ UNCHANGED <<receive_buffer, receive_size, receive_offset, receive_sn,
                   receive_bs_count, receive_timer_cr, receive_status, fcs>>

OnFirstRefused(dl, room) ==
    /\ ~Misplaced(dl, room)
    /\ TooLarge(dl)
    /\ receive_protocol_result' = "BUFFER_OVFLW"
    /\ receive_status' = "IDLE"
    /\ fcs' = Append(fcs, FlowControl("OVERFLOW", 0))
    /\ UNCHANGED <<receive_buffer, receive_size, receive_offset, receive_sn,
                   receive_bs_count, receive_timer_cr>>

\* Wrong: a first frame in the middle of a message leaves the offset alone.
FirstOffsetStale == IF receive_status = "INPROGRESS" THEN receive_offset ELSE FfData

FirstOffset == FfData

OnFirstAccepted(id, dl, room) ==
    /\ ~Misplaced(dl, room)
    /\ ~TooLarge(dl)
    /\ receive_protocol_result' = ResultOfStart
    /\ receive_buffer' = Copied(receive_buffer, 0, FfData, id, 0)
    /\ receive_size' = dl
    /\ receive_offset' = FirstOffset
    /\ receive_sn' = 1
    /\ receive_status' = "INPROGRESS"
    /\ receive_bs_count' = BlockSize
    /\ fcs' = Append(fcs, FlowControl("CONTINUE", BlockSize))
    /\ receive_timer_cr' = Timeout

OnFirst(id, dl, room) ==
    \/ OnFirstIgnored(dl, room)
    \/ OnFirstRefused(dl, room)
    \/ OnFirstAccepted(id, dl, room)

(***************************************************************************)
(* A consecutive frame.  Its data starts at position `from' of message id. *)
(***************************************************************************)
Remaining == Lesser(CfData, receive_size - receive_offset)

InSequence(sn) == sn = receive_sn

OnConsecutiveUnexpected ==
    /\ receive_status # "INPROGRESS"
    /\ receive_protocol_result' = "UNEXP_PDU"
    /\ UNCHANGED <<receive_buffer, receive_size, receive_offset, receive_sn,
                   receive_bs_count, receive_timer_cr, receive_status, fcs>>

OnConsecutiveWrongSn(sn) ==
    /\ receive_status = "INPROGRESS"
    /\ ~InSequence(sn)
    /\ receive_protocol_result' = "WRONG_SN"
    /\ receive_status' = "IDLE"
    /\ UNCHANGED <<receive_buffer, receive_size, receive_offset, receive_sn,
                   receive_bs_count, receive_timer_cr, fcs>>

OnConsecutiveShort(sn, room) ==
    /\ receive_status = "INPROGRESS"
    /\ InSequence(sn)
    /\ Remaining > room
    /\ UNCHANGED <<receive_vars, fcs>>

\* Wrong: tested before it is counted down, a block is one frame too long.
CountBlockLate ==
    IF receive_bs_count = 0
    THEN /\ receive_bs_count' = BlockSize
         /\ fcs' = Append(fcs, FlowControl("CONTINUE", BlockSize))
    ELSE /\ receive_bs_count' = receive_bs_count - 1
         /\ UNCHANGED fcs

\* Wrong: the next block is not announced.
CountBlockSilent ==
    /\ receive_bs_count' = IF receive_bs_count = 1 THEN BlockSize
                                                    ELSE receive_bs_count - 1
    /\ UNCHANGED fcs

\* The block counter is only counted down when more frames are to come.
CountBlock ==
    IF receive_bs_count - 1 = 0
    THEN /\ receive_bs_count' = BlockSize
         /\ fcs' = Append(fcs, FlowControl("CONTINUE", BlockSize))
    ELSE /\ receive_bs_count' = receive_bs_count - 1
         /\ UNCHANGED fcs

OnConsecutiveAccepted(id, sn, from, room) ==
    /\ receive_status = "INPROGRESS"
    /\ InSequence(sn)
    /\ Remaining <= room
    /\ receive_buffer' = Copied(receive_buffer, receive_offset, Remaining, id, from)
    /\ receive_offset' = receive_offset + Remaining
    /\ receive_sn' = NextSn(receive_sn)
    /\ receive_timer_cr' = Timeout
    /\ IF receive_offset' >= receive_size
       THEN receive_status' = "FULL" /\ UNCHANGED <<receive_bs_count, fcs>>
       ELSE CountBlock /\ UNCHANGED receive_status
    /\ UNCHANGED <<receive_size, receive_protocol_result>>

OnConsecutive(id, sn, from, room) ==
    \/ OnConsecutiveUnexpected
    \/ OnConsecutiveWrongSn(sn)
    \/ OnConsecutiveShort(sn, room)
    \/ OnConsecutiveAccepted(id, sn, from, room)

(***************************************************************************)
(* isotp_receive hands the message over and frees the buffer.  It is       *)
(* called with room for buffer_size bytes, so nothing is cut off.          *)
(***************************************************************************)
Received == [i \in 0..(receive_size - 1) |-> receive_buffer[i]]

IsotpReceive ==
    /\ receive_status = "FULL"
    /\ receive_status' = "IDLE"
    /\ UNCHANGED <<receive_buffer, receive_size, receive_offset, receive_sn,
                   receive_bs_count, receive_timer_cr,
                   receive_protocol_result, fcs>>

(***************************************************************************)
(* The receiving part of isotp_poll, and the passing of time.              *)
(***************************************************************************)
\* Wrong: the time-out is noted but the message is not given up.
PollTimeoutCrNoted ==
    /\ receive_status = "INPROGRESS"
    /\ Expired(receive_timer_cr)
    /\ receive_protocol_result' = "TIMEOUT_CR"
    /\ UNCHANGED <<receive_buffer, receive_size, receive_offset, receive_sn,
                   receive_bs_count, receive_timer_cr, receive_status, fcs>>

PollTimeoutCr ==
    /\ receive_status = "INPROGRESS"
    /\ Expired(receive_timer_cr)
    /\ receive_protocol_result' = "TIMEOUT_CR"
    /\ receive_status' = "IDLE"
    /\ UNCHANGED <<receive_buffer, receive_size, receive_offset, receive_sn,
                   receive_bs_count, receive_timer_cr, fcs>>

ReceiveElapse ==
    /\ receive_timer_cr' = Elapse(receive_timer_cr)
    /\ UNCHANGED <<receive_buffer, receive_size, receive_offset, receive_sn,
                   receive_bs_count, receive_protocol_result, receive_status,
                   fcs>>
=============================================================================
