---------------------------- MODULE IsoTpReceiver ----------------------------
(***************************************************************************)
(* The receiving half of a link against any peer: data frames of any kind, *)
(* length, size and sequence number may arrive at any time.  The data of   *)
(* the n-th frame that arrives is named n, so the receive buffer shows     *)
(* which frame each of its bytes came from.  `fcs' is never emptied: it    *)
(* records every flow-control frame sent.                                  *)
(***************************************************************************)
EXTENDS IsoTpReceive

CONSTANTS
    Sizes,                \* sizes announced in SF_DL and FF_DL
    Rooms,                \* payload bytes of the frames that arrive (len - 1)
    MaxFrames             \* bound: frames that arrive in a behaviour

ASSUME ReceiverConstants ==
    /\ Sizes \subseteq Nat
    /\ Rooms \subseteq 1..CfData
    /\ MaxFrames \in Nat

VARIABLES
    arrived,              \* history: frames that arrived
    parts,                \* history: the frames the message is made of
    numbers,              \* history: their sequence numbers
    before                \* history: length of fcs when the message began

vars == <<receive_vars, fcs, arrived, parts, numbers, before>>

Init ==
    /\ ReceiveInit /\ fcs = <<>> /\ arrived = 0
    /\ parts = <<>> /\ numbers = <<>> /\ before = 0

Arrive == arrived < MaxFrames /\ arrived' = arrived + 1
This   == arrived + 1

SingleArrives(dl, room) ==
    /\ Arrive
    /\ OnSingle(This, dl, room)
    /\ IF dl \in 1..room
       THEN parts' = <<This>> /\ numbers' = <<0>>
       ELSE UNCHANGED <<parts, numbers>>
    /\ UNCHANGED before

FirstArrives(dl, room) ==
    /\ Arrive
    /\ OnFirst(This, dl, room)
    /\ IF Misplaced(dl, room) \/ TooLarge(dl)
       THEN UNCHANGED <<parts, numbers, before>>
       ELSE parts' = <<This>> /\ numbers' = <<0>> /\ before' = Len(fcs)

ConsecutiveArrives(sn, room) ==
    /\ Arrive
    /\ OnConsecutive(This, sn, 0, room)
    /\ IF receive_offset' # receive_offset
       THEN parts' = Append(parts, This) /\ numbers' = Append(numbers, sn)
       ELSE UNCHANGED <<parts, numbers>>
    /\ UNCHANGED before

\* isotp_processing_task: isotp_poll, then isotp_receive.
Process ==
    /\ PollTimeoutCr \/ IsotpReceive
    /\ UNCHANGED <<arrived, parts, numbers, before>>

Tick == ReceiveElapse /\ UNCHANGED <<arrived, parts, numbers, before>>

Next ==
    \/ \E dl \in Sizes, room \in Rooms : SingleArrives(dl, room)
    \/ \E dl \in Sizes, room \in Rooms : FirstArrives(dl, room)
    \/ \E sn \in 0..(SnMod - 1), room \in Rooms : ConsecutiveArrives(sn, room)
    \/ Process
    \/ Tick

Spec == Init /\ [][Next]_vars

-----------------------------------------------------------------------------
Byte == Nat \X Nat
FlowControls == [fs : {"CONTINUE", "OVERFLOW"}, bs : {0, BlockSize}]

(* Every field of the link stays in the range its declaration in isotp.h   *)
(* and the arithmetic of isotp.c need.                                     *)
TypeOK ==
    /\ receive_status \in ReceiveStatus
    /\ receive_protocol_result \in ReceiveResult
    /\ receive_buffer \in [0..(RecvBufSize - 1) -> Byte]
    /\ receive_size \in 0..RecvBufSize
    /\ receive_offset \in 0..RecvBufSize
    /\ receive_sn \in 0..(SnMod - 1)
    /\ receive_bs_count \in 0..BlockSize
    /\ receive_timer_cr \in -1..Timeout
    /\ fcs \in Seq(FlowControls)
    /\ arrived \in Nat /\ parts \in Seq(Nat) /\ numbers \in Seq(Nat) /\ before \in Nat

(* A message that has begun stays one that fits the buffer and still lacks *)
(* bytes, whatever comes between: a consecutive frame is copied to what is *)
(* left of it, never past the buffer, and the block counter is never 0     *)
(* when it is counted down.                                                *)
InBounds ==
    receive_status = "INPROGRESS" =>
        /\ FfData <= receive_offset /\ receive_offset < receive_size
        /\ receive_size <= RecvBufSize
        /\ receive_bs_count > 0

(* A message that is handed over is put together from the frames that      *)
(* began and continued it, each at its place: byte i is the byte of the    *)
(* part whose turn it was, and none is left from an earlier message.  The  *)
(* sequence numbers of the parts count on, with none left out.             *)
PartOf(i)  == IF i < FfData THEN 1 ELSE 2 + (i - FfData) \div CfData
PartAt(k)  == IF k = 1 THEN 0 ELSE FfData + (k - 2) * CfData
Single     == Len(parts) = 1

Placed ==
    \A i \in 0..(receive_size - 1) :
        receive_buffer[i] =
            IF Single THEN <<parts[1], i>>
                      ELSE <<parts[PartOf(i)], i - PartAt(PartOf(i))>>

CountedOn == \A k \in 1..Len(parts) : numbers[k] = (k - 1) % SnMod

Assembled == receive_status = "FULL" => Placed /\ CountedOn

(* While a message comes in, the peer has been sent exactly one CONTINUE   *)
(* for each block it has begun: with fewer it would stop and both sides    *)
(* time out, with more it would send more than the receiver asked for.     *)
BlocksAcknowledged ==
    receive_status = "INPROGRESS" =>
        Len(fcs) - before = 1 + (Len(parts) - 1) \div BlockSize
=============================================================================
