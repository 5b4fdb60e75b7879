------------------------- MODULE IsoTpReceiverProofs -------------------------
(***************************************************************************)
(* Proofs about IsoTpReceiver for every frame size, buffer size, block     *)
(* size, sequence number modulus and timeout, and any frames.              *)
(***************************************************************************)
EXTENDS IsoTpReceiver, TLAPS

IInv == TypeOK /\ InBounds

LEMMA CopiedType ==
    ASSUME NEW buffer \in [0..(RecvBufSize - 1) -> Byte],
           NEW at \in Nat, NEW n \in Nat, NEW id \in Nat, NEW from \in Nat
    PROVE  Copied(buffer, at, n, id, from) \in [0..(RecvBufSize - 1) -> Byte]
  BY DEF Copied, Byte

LEMMA PartsType ==
    ASSUME NEW s \in Seq(Nat), NEW t, NEW n \in Nat, t = s \/ t = Append(s, n)
    PROVE  t \in Seq(Nat)
  <1>1. CASE t = s
    BY <1>1
  <1>2. CASE t = Append(s, n)
    BY <1>2
  <1> QED
    BY <1>1, <1>2

LEMMA NextSnRange == \A sn \in 0..(SnMod - 1) : NextSn(sn) \in 0..(SnMod - 1)
  BY ReceiveConstants DEF NextSn

LEMMA ElapseRange == \A t \in -1..Timeout : Elapse(t) \in -1..Timeout
  BY ReceiveConstants DEF Elapse, Expired

LEMMA FlowControlType ==
    /\ FlowControl("OVERFLOW", 0) \in FlowControls
    /\ FlowControl("CONTINUE", BlockSize) \in FlowControls
  BY DEF FlowControl, FlowControls

LEMMA InitIInv == Init => IInv
  BY ReceiveConstants
  DEF Init, ReceiveInit, IInv, TypeOK, InBounds, ReceiveStatus, ReceiveResult,
      Byte, Blank

(* A first frame that is accepted starts a message that lacks bytes.       *)
LEMMA AcceptedFirst ==
    ASSUME IInv, NEW dl \in Nat, NEW room \in Rooms,
           OnFirstAccepted(This, dl, room), arrived' = arrived + 1,
           parts' = <<This>>, numbers' = << 0 >>, before' = Len(fcs)
    PROVE  IInv'
  <1> USE DEF IInv, TypeOK
  <1>1. CfData < dl /\ dl <= RecvBufSize
    BY ReceiveConstants DEF OnFirstAccepted, Misplaced, TooLarge
  <1>2. This \in Nat
    BY DEF This
  <1>3. receive_buffer' \in [0..(RecvBufSize - 1) -> Byte]
    <2>1. receive_buffer' = Copied(receive_buffer, 0, FfData, This, 0)
      BY DEF OnFirstAccepted
    <2>2. FfData \in Nat
      BY ReceiveConstants DEF FfData
    <2> QED
      BY <1>2, <2>1, <2>2, CopiedType
  <1>4. fcs' \in Seq(FlowControls)
    BY FlowControlType DEF OnFirstAccepted
  <1>5. /\ receive_protocol_result' \in ReceiveResult
        /\ receive_status' \in ReceiveStatus
    BY DEF OnFirstAccepted, ResultOfStart, ReceiveResult, ReceiveStatus
  <1>6. /\ receive_size' = dl /\ receive_offset' = FfData /\ receive_sn' = 1
        /\ receive_bs_count' = BlockSize /\ receive_timer_cr' = Timeout
    BY DEF OnFirstAccepted, FirstOffset
  <1>7. parts' \in Seq(Nat) /\ numbers' \in Seq(Nat) /\ before' \in Nat /\ arrived' \in Nat
    BY <1>2
  <1> QED
    BY <1>1, <1>3, <1>4, <1>5, <1>6, <1>7, ReceiveConstants DEF InBounds, FfData

(* A consecutive frame that is accepted fills no more than what is left.   *)
LEMMA AcceptedConsecutive ==
    ASSUME IInv, NEW sn \in 0..(SnMod - 1), NEW room \in Rooms,
           OnConsecutiveAccepted(This, sn, 0, room), arrived' = arrived + 1,
           parts' = parts \/ parts' = Append(parts, This),
           numbers' = numbers \/ numbers' = Append(numbers, sn), before' = before
    PROVE  IInv'
  <1> USE DEF IInv, TypeOK
  <1>1. /\ receive_status = "INPROGRESS"
        /\ receive_offset < receive_size /\ receive_size <= RecvBufSize
        /\ FfData <= receive_offset /\ receive_bs_count > 0
    BY DEF OnConsecutiveAccepted, InBounds
  <1>2. This \in Nat
    BY DEF This
  <1>3. Remaining \in 1..CfData /\ receive_offset + Remaining <= receive_size
    BY <1>1, ReceiveConstants DEF Remaining, Lesser
  <1>4. receive_buffer' \in [0..(RecvBufSize - 1) -> Byte]
    <2>1. receive_buffer' = Copied(receive_buffer, receive_offset, Remaining, This, 0)
      BY DEF OnConsecutiveAccepted
    <2>2. Remaining \in Nat /\ receive_offset \in Nat
      BY <1>3, ReceiveConstants
    <2> QED
      BY <1>2, <2>1, <2>2, CopiedType
  <1>5. /\ receive_offset' = receive_offset + Remaining
        /\ receive_sn' \in 0..(SnMod - 1)
        /\ receive_timer_cr' = Timeout
        /\ UNCHANGED <<receive_size, receive_protocol_result>>
    BY NextSnRange DEF OnConsecutiveAccepted
  <1>6. parts' \in Seq(Nat) /\ numbers' \in Seq(Nat) /\ arrived' \in Nat
    BY <1>2, PartsType
  <1>7. CASE receive_offset' >= receive_size
    <2>1. receive_status' = "FULL" /\ UNCHANGED <<receive_bs_count, fcs>>
      BY <1>7 DEF OnConsecutiveAccepted
    <2> QED
      BY <1>1, <1>3, <1>4, <1>5, <1>6, <2>1, ReceiveConstants
      DEF InBounds, ReceiveStatus
  <1>8. CASE ~(receive_offset' >= receive_size)
    <2>1. CountBlock /\ UNCHANGED receive_status
      BY <1>8 DEF OnConsecutiveAccepted
    <2>2. receive_bs_count' \in 1..BlockSize
      BY <1>1, <2>1, ReceiveConstants DEF CountBlock
    <2>3. fcs' \in Seq(FlowControls)
      <3>1. CASE fcs' = Append(fcs, FlowControl("CONTINUE", BlockSize))
        BY <3>1, FlowControlType
      <3>2. CASE UNCHANGED fcs
        BY <3>2
      <3> QED
        BY <2>1, <3>1, <3>2 DEF CountBlock
    <2>4. receive_offset' \in 0..RecvBufSize /\ InBounds'
      BY <1>1, <1>3, <1>5, <1>8, <2>2, ReceiveConstants DEF InBounds, FfData
    <2> QED
      BY <1>4, <1>5, <1>6, <2>1, <2>2, <2>3, <2>4, ReceiveConstants
  <1> QED
    BY <1>7, <1>8

LEMMA NextIInv == IInv /\ [Next]_vars => IInv'
  <1> SUFFICES ASSUME IInv, [Next]_vars PROVE IInv'
    OBVIOUS
  <1>0. TypeOK /\ This \in Nat
    BY DEF IInv, TypeOK, This
  <1>1. ASSUME NEW dl \in Sizes, NEW room \in Rooms, SingleArrives(dl, room)
        PROVE  IInv'
    <2>1. /\ arrived' = arrived + 1 /\ before' = before
          /\ parts' \in Seq(Nat) /\ numbers' \in Seq(Nat)
          /\ UNCHANGED <<receive_offset, receive_sn, receive_bs_count,
                         receive_timer_cr, fcs>>
          /\ receive_protocol_result' \in ReceiveResult
      <3>1. CASE dl \in 1..room
        <4>1. parts' = <<This>> /\ numbers' = <<0>>
          BY <1>1, <3>1 DEF SingleArrives
        <4> QED
          BY <1>0, <1>1, <4>1
          DEF SingleArrives, Arrive, OnSingle, ResultOfStart, ReceiveResult, TypeOK
      <3>2. CASE dl \notin 1..room
        <4>1. parts' = parts /\ numbers' = numbers
          BY <1>1, <3>2 DEF SingleArrives
        <4> QED
          BY <1>0, <1>1, <4>1
          DEF SingleArrives, Arrive, OnSingle, ResultOfStart, ReceiveResult, TypeOK
      <3> QED
        BY <3>1, <3>2
    <2>2. CASE dl = 0 \/ dl > room
      BY <1>1, <2>1, <2>2 DEF SingleArrives, OnSingle, IInv, TypeOK, InBounds
    <2>3. CASE ~(dl = 0 \/ dl > room)
      <3>1. /\ receive_buffer' = Copied(receive_buffer, 0, dl, This, 0)
            /\ receive_size' = dl /\ receive_status' = "FULL"
        BY <1>1, <2>3 DEF SingleArrives, OnSingle
      <3>2. dl \in Nat /\ dl <= RecvBufSize
        BY <2>3, ReceiveConstants, ReceiverConstants
      <3>3. receive_buffer' \in [0..(RecvBufSize - 1) -> Byte]
        BY <1>0, <3>1, <3>2, CopiedType DEF TypeOK
      <3> QED
        BY <1>0, <2>1, <3>1, <3>2, <3>3 DEF IInv, TypeOK, InBounds, ReceiveStatus
    <2> QED
      BY <2>2, <2>3
  <1>2. ASSUME NEW dl \in Sizes, NEW room \in Rooms, FirstArrives(dl, room)
        PROVE  IInv'
    <2>1. arrived' = arrived + 1 /\ dl \in Nat
      BY <1>2, ReceiverConstants DEF FirstArrives, Arrive
    <2>2. CASE OnFirstIgnored(dl, room)
      BY <1>0, <1>2, <2>1, <2>2
      DEF FirstArrives, OnFirstIgnored, ResultOfStart, ReceiveResult, IInv,
          TypeOK, InBounds
    <2>3. CASE OnFirstRefused(dl, room)
      <3>1. fcs' \in Seq(FlowControls)
        BY <1>0, <2>3, FlowControlType DEF OnFirstRefused, TypeOK
      <3> QED
        BY <1>0, <1>2, <2>1, <2>3, <3>1
        DEF FirstArrives, OnFirstRefused, ReceiveResult, ReceiveStatus, IInv,
            TypeOK, InBounds
    <2>4. CASE OnFirstAccepted(This, dl, room)
      BY <1>2, <2>1, <2>4, AcceptedFirst DEF FirstArrives, OnFirstAccepted
    <2> QED
      BY <1>2, <2>2, <2>3, <2>4 DEF FirstArrives, OnFirst
  <1>3. ASSUME NEW sn \in 0..(SnMod - 1), NEW room \in Rooms,
               ConsecutiveArrives(sn, room)
        PROVE  IInv'
    <2>1. /\ arrived' = arrived + 1 /\ before' = before
          /\ parts' = parts \/ parts' = Append(parts, This)
          /\ numbers' = numbers \/ numbers' = Append(numbers, sn)
      BY <1>3 DEF ConsecutiveArrives, Arrive
    <2>2. parts' \in Seq(Nat) /\ numbers' \in Seq(Nat)
      BY <1>0, <2>1, PartsType DEF TypeOK
    <2>3. CASE OnConsecutiveUnexpected
      BY <1>0, <2>1, <2>2, <2>3
      DEF OnConsecutiveUnexpected, IInv, TypeOK, InBounds, ReceiveResult
    <2>4. CASE OnConsecutiveWrongSn(sn)
      BY <1>0, <2>1, <2>2, <2>4
      DEF OnConsecutiveWrongSn, IInv, TypeOK, InBounds, ReceiveResult, ReceiveStatus
    <2>5. CASE OnConsecutiveShort(sn, room)
      BY <1>0, <2>1, <2>2, <2>5
      DEF OnConsecutiveShort, receive_vars, IInv, TypeOK, InBounds
    <2>6. CASE OnConsecutiveAccepted(This, sn, 0, room)
      BY <2>1, <2>6, AcceptedConsecutive
    <2> QED
      BY <1>3, <2>3, <2>4, <2>5, <2>6 DEF ConsecutiveArrives, OnConsecutive
  <1>4. CASE Process
    BY <1>0, <1>4
    DEF Process, PollTimeoutCr, IsotpReceive, IInv, TypeOK, InBounds,
        ReceiveStatus, ReceiveResult
  <1>5. CASE Tick
    BY <1>0, <1>5, ElapseRange DEF Tick, ReceiveElapse, IInv, TypeOK, InBounds
  <1>6. CASE UNCHANGED vars
    BY <1>0, <1>6 DEF vars, receive_vars, IInv, TypeOK, InBounds
  <1> QED
    BY <1>1, <1>2, <1>3, <1>4, <1>5, <1>6 DEF Next

(* Whatever frames arrive, the fields of the receiving link keep their     *)
(* ranges (isotp_on_can_message).                                          *)
THEOREM ReceiverTypeCorrect == Spec => []TypeOK
  <1>1. IInv => TypeOK
    BY DEF IInv
  <1> QED
    BY InitIInv, NextIInv, <1>1, PTL DEF Spec

(* Whatever frames arrive, a message being received lacks bytes and fits   *)
(* the buffer: isotp_receive_consecutive_frame never copies past it, and   *)
(* the block counter is never counted down from 0.                         *)
THEOREM ReceiverInBounds == Spec => []InBounds
  <1>1. IInv => InBounds
    BY DEF IInv
  <1> QED
    BY InitIInv, NextIInv, <1>1, PTL DEF Spec

-----------------------------------------------------------------------------
(* A message in progress has filled its first receive_offset bytes, each   *)
(* with the byte of the part whose turn it was.                            *)
FilledInv ==
    receive_status = "INPROGRESS" =>
        /\ Len(parts) > 0
        /\ receive_offset = FfData + (Len(parts) - 1) * CfData
        /\ \A i \in 0..(receive_offset - 1) :
              /\ PartOf(i) \in 1..Len(parts)
              /\ receive_buffer[i] = <<parts[PartOf(i)], i - PartAt(PartOf(i))>>

(* Whole blocks, one grant behind each, and what receive_bs_count has      *)
(* counted down of the next make the consecutive frames received.          *)
CountInv ==
    receive_status = "INPROGRESS" =>
        /\ Len(fcs) > before
        /\ Len(parts) - 1 = (Len(fcs) - before - 1) * BlockSize
                                + (BlockSize - receive_bs_count)

PlacedInv == receive_status = "FULL" => Placed

HistoryInv == FilledInv /\ PlacedInv /\ CountInv

LEMMA Quotient ==
    ASSUME NEW n \in Nat \ {0}, NEW q \in Nat, NEW s \in 0..(n - 1)
    PROVE  (q * n + s) \div n = q
  OBVIOUS

(* The bytes behind a first frame and k consecutive ones are those of the  *)
(* next part, from its place on.                                           *)
LEMMA NextPart ==
    ASSUME NEW k \in Nat, NEW j \in 0..(CfData - 1)
    PROVE  LET i == FfData + k * CfData + j
           IN  PartOf(i) = k + 2 /\ i - PartAt(PartOf(i)) = j
  <1> DEFINE i == FfData + k * CfData + j
  <1>1. CfData \in Nat \ {0} /\ FfData \in Nat \ {0} /\ k * CfData \in Nat
    BY ReceiveConstants DEF FfData
  <1>2. (k * CfData + j) \div CfData = k
    BY <1>1, Quotient
  <1>3. i - FfData = k * CfData + j /\ ~(i < FfData)
    BY <1>1
  <1>4. PartOf(i) = k + 2
    BY <1>2, <1>3 DEF PartOf
  <1>5. PartAt(k + 2) = FfData + k * CfData
    BY <1>1 DEF PartAt
  <1> QED
    BY <1>1, <1>4, <1>5

LEMMA BufferType == IInv => receive_buffer \in [0..(RecvBufSize - 1) -> Byte]
  BY DEF IInv, TypeOK

LEMMA CopiedBytes ==
    ASSUME NEW buffer \in [0..(RecvBufSize - 1) -> Byte], NEW at \in Nat,
           NEW n \in Nat, NEW id, NEW i \in 0..(RecvBufSize - 1),
           at <= i, i < at + n
    PROVE  Copied(buffer, at, n, id, 0)[i] = <<id, i - at>>
  <1>1. 0 + (i - at) = i - at
    OBVIOUS
  <1> QED
    BY <1>1 DEF Copied

LEMMA BytesBefore ==
    ASSUME NEW buffer \in [0..(RecvBufSize - 1) -> Byte], NEW at \in Nat,
           NEW n \in Nat, NEW id, NEW i \in 0..(RecvBufSize - 1), i < at
    PROVE  Copied(buffer, at, n, id, 0)[i] = buffer[i]
  BY DEF Copied

(* The frame that ends a block opens the count of the next. *)
LEMMA NextBlock ==
    ASSUME NEW bs \in Nat, NEW q \in Nat
    PROVE  (q + 1) * bs = q * bs + bs /\ q * bs \in Nat
  OBVIOUS

LEMMA HistoryInit == Init => HistoryInv
  BY DEF Init, ReceiveInit, HistoryInv, FilledInv, PlacedInv, CountInv

LEMMA HistoryKept ==
    ASSUME HistoryInv, receive_status' \in {receive_status, "IDLE"},
           UNCHANGED <<receive_buffer, receive_size, receive_offset,
                       receive_bs_count, fcs, parts, before>>
    PROVE  HistoryInv'
  BY DEF HistoryInv, FilledInv, PlacedInv, Placed, CountInv, Single

LEMMA HistoryIdle == receive_status' = "IDLE" => HistoryInv'
  BY DEF HistoryInv, FilledInv, PlacedInv, Placed, CountInv

LEMMA HistorySingle ==
    ASSUME IInv, HistoryInv, NEW dl \in Sizes, NEW room \in Rooms,
           SingleArrives(dl, room)
    PROVE  HistoryInv'
  <1>1. CASE dl = 0 \/ dl > room
    <2>1. parts' = parts
      BY <1>1, ReceiverConstants DEF SingleArrives
    <2> QED
      BY <1>1, <2>1, HistoryKept DEF SingleArrives, OnSingle
  <1>2. CASE ~(dl = 0 \/ dl > room)
    <2>1. /\ receive_status' = "FULL" /\ receive_size' = dl /\ parts' = <<This>>
          /\ receive_buffer' = Copied(receive_buffer, 0, dl, This, 0)
      BY <1>2, ReceiverConstants DEF SingleArrives, OnSingle
    <2>2. dl \in Nat /\ dl <= RecvBufSize
      BY <1>2, ReceiveConstants, ReceiverConstants
    <2>3. \A i \in 0..(dl - 1) : receive_buffer'[i] = <<This, i>>
      <3> SUFFICES ASSUME NEW i \in 0..(dl - 1)
                   PROVE  receive_buffer'[i] = <<This, i>>
        OBVIOUS
      <3>1. i \in 0..(RecvBufSize - 1) /\ 0 <= i /\ i < 0 + dl
        BY <2>2, ReceiveConstants
      <3>2. receive_buffer'[i] = <<This, i - 0>>
        BY <2>1, <2>2, <3>1, BufferType, CopiedBytes
      <3> QED
        BY <3>1, <3>2
    <2> QED
      BY <2>1, <2>3 DEF HistoryInv, FilledInv, PlacedInv, Placed, CountInv, Single
  <1> QED
    BY <1>1, <1>2

LEMMA HistoryFirst ==
    ASSUME IInv, HistoryInv, NEW dl \in Sizes, NEW room \in Rooms,
           FirstArrives(dl, room)
    PROVE  HistoryInv'
  <1>1. CASE OnFirstIgnored(dl, room)
    BY <1>1, HistoryKept DEF FirstArrives, OnFirstIgnored
  <1>2. CASE OnFirstRefused(dl, room)
    BY <1>2, HistoryIdle DEF OnFirstRefused
  <1>3. CASE OnFirstAccepted(This, dl, room)
    <2>1. /\ receive_status' = "INPROGRESS" /\ receive_offset' = FfData
          /\ receive_bs_count' = BlockSize
          /\ fcs' = Append(fcs, FlowControl("CONTINUE", BlockSize))
          /\ parts' = <<This>> /\ before' = Len(fcs)
          /\ receive_buffer' = Copied(receive_buffer, 0, FfData, This, 0)
      BY <1>3 DEF FirstArrives, OnFirstAccepted, FirstOffset
    <2>2. FfData \in Nat /\ FfData < RecvBufSize /\ fcs \in Seq(FlowControls)
      BY ReceiveConstants DEF FfData, IInv, TypeOK
    <2>3. FilledInv'
      <3>1. \A i \in 0..(FfData - 1) : receive_buffer'[i] = <<This, i - 0>>
        <4> SUFFICES ASSUME NEW i \in 0..(FfData - 1)
                     PROVE  receive_buffer'[i] = <<This, i - 0>>
          OBVIOUS
        <4>1. i \in 0..(RecvBufSize - 1) /\ 0 <= i /\ i < 0 + FfData
          BY <2>2, ReceiveConstants
        <4> QED
          BY <2>1, <2>2, <4>1, BufferType, CopiedBytes
      <3>2. \A i \in 0..(FfData - 1) : PartOf(i) = 1 /\ PartAt(1) = 0
        BY <2>2 DEF PartOf, PartAt
      <3>3. Len(parts') = 1 /\ parts'[1] = This
        BY <2>1
      <3> QED
        BY <2>1, <2>2, <3>1, <3>2, <3>3, ReceiveConstants DEF FilledInv
    <2>4. Len(fcs') = Len(fcs) + 1 /\ Len(parts') = 1
      BY <2>1, <2>2
    <2>5. CountInv'
      BY <2>1, <2>2, <2>4, ReceiveConstants DEF CountInv
    <2> QED
      BY <2>1, <2>3, <2>5 DEF HistoryInv, PlacedInv
  <1> QED
    BY <1>1, <1>2, <1>3 DEF FirstArrives, OnFirst

(* A frame that continues a message fills the bytes of the next part, and  *)
(* the last of a block is answered.                                        *)
LEMMA HistoryContinued ==
    ASSUME IInv, HistoryInv, NEW sn, NEW room \in Rooms,
           OnConsecutiveAccepted(This, sn, 0, room), arrived' = arrived + 1,
           parts' = Append(parts, This), before' = before
    PROVE  HistoryInv'
  <1> DEFINE n == Remaining
             k == Len(parts) - 1
  <1>1. /\ receive_status = "INPROGRESS"
        /\ receive_offset < receive_size /\ receive_size <= RecvBufSize
        /\ receive_size' = receive_size /\ receive_offset' = receive_offset + n
        /\ receive_offset \in Nat /\ receive_size \in Nat
        /\ receive_bs_count \in 1..BlockSize
        /\ parts \in Seq(Nat) /\ fcs \in Seq(FlowControls) /\ before \in Nat
    BY DEF OnConsecutiveAccepted, InBounds, IInv, TypeOK
  <1>2. n \in 1..CfData /\ (n = CfData \/ receive_offset + n = receive_size)
        /\ receive_offset + n <= receive_size
    BY <1>1, ReceiveConstants DEF Remaining, Lesser
  <1>3. k \in Nat /\ receive_offset = FfData + k * CfData
    BY <1>1 DEF HistoryInv, FilledInv
  <1>4. Len(parts') = k + 2 /\ parts'[k + 2] = This
        /\ \A j \in 1..(k + 1) : parts'[j] = parts[j]
    BY <1>1, <1>3 DEF This
  <1>5. receive_buffer' = Copied(receive_buffer, receive_offset, n, This, 0)
    BY DEF OnConsecutiveAccepted
  <1>6. ASSUME NEW i \in 0..(receive_offset' - 1)
        PROVE  /\ PartOf(i) \in 1..Len(parts')
               /\ receive_buffer'[i] = <<parts'[PartOf(i)], i - PartAt(PartOf(i))>>
    <2>0. i \in 0..(RecvBufSize - 1) /\ n \in Nat
      BY <1>1, <1>2, ReceiveConstants
    <2>1. CASE i < receive_offset
      <3>1. /\ PartOf(i) \in 1..(k + 1)
            /\ receive_buffer[i] = <<parts[PartOf(i)], i - PartAt(PartOf(i))>>
        BY <1>1, <1>3, <2>1, SMTT(30) DEF HistoryInv, FilledInv
      <3>2. receive_buffer'[i] = receive_buffer[i]
        <4>1. Copied(receive_buffer, receive_offset, n, This, 0)[i] = receive_buffer[i]
          <5>1. receive_offset \in Nat /\ i < receive_offset
            BY <1>1, <2>1
          <5> HIDE DEF n
          <5> QED
            BY <2>0, <5>1, BufferType, BytesBefore, ZenonT(30)
        <4> QED
          BY <1>5, <4>1
      <3> QED
        BY <1>3, <1>4, <3>1, <3>2
    <2>2. CASE i >= receive_offset
      <3> DEFINE j == i - receive_offset
      <3>1. j \in 0..(CfData - 1) /\ i = FfData + k * CfData + j
        BY <1>1, <1>2, <1>3, <2>2, ReceiveConstants DEF FfData
      <3>2. PartOf(i) = k + 2 /\ i - PartAt(PartOf(i)) = j
        BY <1>3, <3>1, NextPart
      <3>3. receive_buffer'[i] = <<This, j>>
        <4>1. Copied(receive_buffer, receive_offset, n, This, 0)[i] = <<This, j>>
          <5>1. /\ receive_offset \in Nat
                /\ receive_offset <= i /\ i < receive_offset + n
            BY <1>1, <2>0, <2>2
          <5> HIDE DEF n
          <5> QED
            BY <2>0, <5>1, BufferType, CopiedBytes
        <4> QED
          BY <1>5, <4>1
      <3> QED
        BY <1>3, <1>4, <3>2, <3>3, SMTT(30)
    <2> QED
      BY <1>1, <2>1, <2>2
  <1>7. CASE receive_offset' >= receive_size
    <2>1. receive_status' = "FULL" /\ receive_offset' = receive_size'
      BY <1>1, <1>2, <1>7 DEF OnConsecutiveAccepted
    <2>2. ~Single'
      BY <1>3, <1>4 DEF Single
    <2>3. PlacedInv'
      BY <1>6, <2>1, <2>2 DEF PlacedInv, Placed
    <2> QED
      BY <2>1, <2>3 DEF HistoryInv, FilledInv, CountInv
  <1>8. CASE ~(receive_offset' >= receive_size)
    <2>1. CountBlock /\ receive_status' = "INPROGRESS"
      BY <1>1, <1>8 DEF OnConsecutiveAccepted
    <2>2. n = CfData
      BY <1>1, <1>2, <1>8
    <2>3. receive_offset' = FfData + (Len(parts') - 1) * CfData
      BY <1>1, <1>3, <1>4, <2>2, ReceiveConstants DEF FfData
    <2>4. FilledInv'
      BY <1>3, <1>4, <1>6, <2>3 DEF FilledInv
    <2>5. CountInv'
      <3> DEFINE q == Len(fcs) - before - 1
      <3>1. q \in Nat /\ k = q * BlockSize + (BlockSize - receive_bs_count)
        BY <1>1 DEF HistoryInv, CountInv
      <3>2. CASE receive_bs_count - 1 = 0
        <4>1. receive_bs_count' = BlockSize /\ Len(fcs') = Len(fcs) + 1
          BY <1>1, <2>1, <3>2 DEF CountBlock
        <4>2. Len(parts') - 1 = (q + 1) * BlockSize + (BlockSize - receive_bs_count')
          <5>1. /\ (q + 1) * BlockSize = q * BlockSize + BlockSize
                /\ q * BlockSize \in Nat /\ BlockSize \in Nat
            BY <3>1, ReceiveConstants, NextBlock
          <5>2. k + 1 = q * BlockSize + BlockSize
            BY <1>1, <3>1, <3>2, <5>1, SMTT(30)
          <5>3. Len(parts') - 1 = k + 1
            BY <1>3, <1>4
          <5> HIDE DEF q, k
          <5> QED
            BY <4>1, <5>1, <5>2, <5>3
        <4>3. Len(fcs') - before' - 1 = q + 1 /\ Len(fcs') > before'
          BY <1>1, <3>1, <4>1
        <4> QED
          BY <4>2, <4>3 DEF CountInv
      <3>3. CASE ~(receive_bs_count - 1 = 0)
        <4>1. receive_bs_count' = receive_bs_count - 1 /\ fcs' = fcs
          BY <2>1, <3>3 DEF CountBlock
        <4>2. Len(parts') - 1 = q * BlockSize + (BlockSize - receive_bs_count')
          <5>1. q * BlockSize \in Nat /\ BlockSize \in Nat
            BY <3>1, ReceiveConstants, NextBlock
          <5>2. Len(parts') - 1 = k + 1
            BY <1>3, <1>4
          <5> HIDE DEF q, k
          <5> QED
            BY <1>1, <3>1, <4>1, <5>1, <5>2
        <4>3. Len(fcs') - before' - 1 = q /\ Len(fcs') > before'
          BY <1>1, <3>1, <4>1
        <4> QED
          BY <4>2, <4>3 DEF CountInv
      <3> QED
        BY <3>2, <3>3
    <2> QED
      BY <2>1, <2>4, <2>5 DEF HistoryInv, PlacedInv
  <1> QED
    BY <1>7, <1>8

LEMMA HistoryConsecutive ==
    ASSUME IInv, HistoryInv, NEW sn \in 0..(SnMod - 1), NEW room \in Rooms,
           ConsecutiveArrives(sn, room)
    PROVE  HistoryInv'
  <1>1. CASE OnConsecutiveUnexpected
    BY <1>1, HistoryKept DEF ConsecutiveArrives, OnConsecutiveUnexpected
  <1>2. CASE OnConsecutiveWrongSn(sn)
    BY <1>2, HistoryIdle DEF OnConsecutiveWrongSn
  <1>3. CASE OnConsecutiveShort(sn, room)
    BY <1>3, HistoryKept DEF ConsecutiveArrives, OnConsecutiveShort, receive_vars
  <1>4. CASE OnConsecutiveAccepted(This, sn, 0, room)
    <2>1. receive_offset' # receive_offset
      BY <1>4, ReceiveConstants
      DEF OnConsecutiveAccepted, Remaining, Lesser, InBounds, IInv, TypeOK
    <2> QED
      BY <1>4, <2>1, HistoryContinued DEF ConsecutiveArrives, Arrive
  <1> QED
    BY <1>1, <1>2, <1>3, <1>4 DEF ConsecutiveArrives, OnConsecutive

LEMMA AllHistory == Spec => [](IInv /\ HistoryInv)
  <1>1. IInv /\ HistoryInv /\ [Next]_vars => HistoryInv'
    <2> SUFFICES ASSUME IInv, HistoryInv, [Next]_vars PROVE HistoryInv'
      OBVIOUS
    <2>1. CASE Process
      BY <2>1, HistoryIdle DEF Process, PollTimeoutCr, IsotpReceive
    <2>2. CASE Tick
      BY <2>2, HistoryKept DEF Tick, ReceiveElapse
    <2>3. CASE UNCHANGED vars
      BY <2>3, HistoryKept DEF vars, receive_vars
    <2> QED
      BY <2>1, <2>2, <2>3, HistorySingle, HistoryFirst, HistoryConsecutive DEF Next
  <1> QED
    BY InitIInv, NextIInv, HistoryInit, <1>1, PTL DEF Spec

-----------------------------------------------------------------------------
(* The parts of a message are numbered from 0 on, and the next number is   *)
(* the one the link waits for.                                             *)
NumberInv ==
    /\ receive_status \in {"INPROGRESS", "FULL"} => Len(numbers) = Len(parts) /\ CountedOn
    /\ receive_status = "INPROGRESS" => receive_sn = Len(parts) % SnMod

LEMMA RemainderIs ==
    ASSUME NEW n \in Nat \ {0}, NEW q \in Nat, NEW s \in 0..(n - 1)
    PROVE  (q * n + s) % n = s /\ (q * n) % n = 0
  OBVIOUS

LEMMA NextNumber ==
    ASSUME NEW n \in Nat
    PROVE  NextSn(n % SnMod) = (n + 1) % SnMod
  <1>. DEFINE m == SnMod q == n \div m r == n % m
  <1>1. m \in Nat /\ m > 1
    BY ReceiveConstants
  <1>2. q \in Nat /\ r \in 0..(m - 1) /\ n = q * m + r
    BY <1>1
  <1>3. CASE r + 1 > m - 1
    <2>1. n + 1 = (q + 1) * m /\ q + 1 \in Nat /\ m \in Nat \ {0} /\ 0 \in 0..(m - 1)
      BY <1>1, <1>2, <1>3
    <2>. HIDE DEF m, q, r
    <2>2. (n + 1) % m = 0
      BY <2>1, RemainderIs
    <2> QED
      BY <1>3, <2>2 DEF NextSn, m, r
  <1>4. CASE ~(r + 1 > m - 1)
    <2>1. n + 1 = q * m + (r + 1) /\ r + 1 \in 0..(m - 1)
      BY <1>1, <1>2, <1>4
    <2>. HIDE DEF m, q, r
    <2>2. (n + 1) % m = r + 1
      BY <1>1, <1>2, <2>1, RemainderIs
    <2> QED
      BY <1>4, <2>2 DEF NextSn, m, r
  <1> QED
    BY <1>3, <1>4

LEMMA NumberBegins ==
    ASSUME IInv, Len(parts') = 1, numbers' = << 0 >>,
           receive_status' # "INPROGRESS" \/ receive_sn' = 1
    PROVE  NumberInv'
  <1>1. 0 % SnMod = 0 /\ 1 % SnMod = 1
    BY ReceiveConstants
  <1>2. Len(numbers') = 1 /\ numbers'[1] = 0
    OBVIOUS
  <1> QED
    BY <1>1, <1>2 DEF NumberInv, CountedOn

LEMMA NumberKept ==
    ASSUME NumberInv, receive_status' \in {receive_status, "IDLE"},
           UNCHANGED <<receive_sn, parts, numbers>>
    PROVE  NumberInv'
  BY DEF NumberInv, CountedOn

LEMMA NumberIdle == receive_status' = "IDLE" => NumberInv'
  BY DEF NumberInv

LEMMA NumberContinued ==
    ASSUME IInv, NumberInv, NEW sn \in 0..(SnMod - 1), NEW room \in Rooms,
           OnConsecutiveAccepted(This, sn, 0, room),
           parts' = Append(parts, This), numbers' = Append(numbers, sn)
    PROVE  NumberInv'
  <1> DEFINE n == Len(parts)
  <1>1. /\ receive_status = "INPROGRESS" /\ sn = receive_sn /\ receive_sn' = NextSn(receive_sn)
        /\ parts \in Seq(Nat) /\ numbers \in Seq(Nat) /\ n \in Nat
    BY DEF OnConsecutiveAccepted, InSequence, IInv, TypeOK
  <1>2. Len(numbers) = n /\ sn = n % SnMod /\ \A k \in 1..n : numbers[k] = (k - 1) % SnMod
    BY <1>1 DEF NumberInv, CountedOn
  <1>3. receive_sn' = (n + 1) % SnMod
    BY <1>1, <1>2, NextNumber
  <1>4. /\ Len(parts') = n + 1 /\ Len(numbers') = n + 1 /\ numbers'[n + 1] = sn
        /\ \A k \in 1..n : numbers'[k] = numbers[k]
    BY <1>1, <1>2
  <1>. HIDE DEF n
  <1>5. \A k \in 1..(n + 1) : numbers'[k] = (k - 1) % SnMod
    <2>1. ASSUME NEW k \in 1..(n + 1) PROVE k \in 1..n \/ (k = n + 1 /\ k - 1 = n)
      BY <1>1
    <2> QED
      BY <1>2, <1>4, <2>1
  <1> QED
    BY <1>3, <1>4, <1>5 DEF NumberInv, CountedOn

LEMMA NumberInit == Init => NumberInv
  BY DEF Init, ReceiveInit, NumberInv

LEMMA NumberNext == IInv /\ NumberInv /\ [Next]_vars => NumberInv'
  <1> SUFFICES ASSUME IInv, NumberInv, [Next]_vars PROVE NumberInv'
    OBVIOUS
  <1>1. ASSUME NEW dl \in Sizes, NEW room \in Rooms, SingleArrives(dl, room)
        PROVE  NumberInv'
    <2>1. dl \in Nat /\ room \in Nat
      BY ReceiveConstants, ReceiverConstants
    <2>2. CASE dl \in 1..room
      <3>1. receive_status' = "FULL" /\ parts' = <<This>> /\ numbers' = <<0>>
        BY <1>1, <2>1, <2>2 DEF SingleArrives, OnSingle
      <3> QED
        BY <3>1, NumberBegins
    <2>3. CASE dl \notin 1..room
      <3>1. UNCHANGED <<receive_status, receive_sn, parts, numbers>>
        BY <1>1, <2>1, <2>3 DEF SingleArrives, OnSingle
      <3> QED
        BY <3>1, NumberKept
    <2> QED
      BY <2>2, <2>3
  <1>2. ASSUME NEW dl \in Sizes, NEW room \in Rooms, FirstArrives(dl, room)
        PROVE  NumberInv'
    <2>1. CASE OnFirstIgnored(dl, room)
      BY <1>2, <2>1, NumberKept DEF FirstArrives, OnFirstIgnored
    <2>2. CASE OnFirstRefused(dl, room)
      BY <2>2, NumberIdle DEF OnFirstRefused
    <2>3. CASE OnFirstAccepted(This, dl, room)
      <3>1. parts' = <<This>> /\ numbers' = <<0>> /\ receive_sn' = 1
        BY <1>2, <2>3 DEF FirstArrives, OnFirstAccepted
      <3> QED
        BY <3>1, NumberBegins
    <2> QED
      BY <1>2, <2>1, <2>2, <2>3 DEF FirstArrives, OnFirst
  <1>3. ASSUME NEW sn \in 0..(SnMod - 1), NEW room \in Rooms, ConsecutiveArrives(sn, room)
        PROVE  NumberInv'
    <2>1. CASE OnConsecutiveUnexpected
      BY <1>3, <2>1, NumberKept DEF ConsecutiveArrives, OnConsecutiveUnexpected
    <2>2. CASE OnConsecutiveWrongSn(sn)
      BY <2>2, NumberIdle DEF OnConsecutiveWrongSn
    <2>3. CASE OnConsecutiveShort(sn, room)
      BY <1>3, <2>3, NumberKept DEF ConsecutiveArrives, OnConsecutiveShort, receive_vars
    <2>4. CASE OnConsecutiveAccepted(This, sn, 0, room)
      <3>1. receive_offset' # receive_offset
        BY <2>4, ReceiveConstants
        DEF OnConsecutiveAccepted, Remaining, Lesser, InBounds, IInv, TypeOK
      <3> QED
        BY <1>3, <2>4, <3>1, NumberContinued DEF ConsecutiveArrives
    <2> QED
      BY <1>3, <2>1, <2>2, <2>3, <2>4 DEF ConsecutiveArrives, OnConsecutive
  <1>4. CASE Process
    BY <1>4, NumberIdle DEF Process, PollTimeoutCr, IsotpReceive
  <1>5. CASE Tick
    BY <1>5, NumberKept DEF Tick, ReceiveElapse
  <1>6. CASE UNCHANGED vars
    BY <1>6, NumberKept DEF vars, receive_vars
  <1> QED
    BY <1>1, <1>2, <1>3, <1>4, <1>5, <1>6 DEF Next

(* Whatever frames arrive, a message isotp_receive hands over is made of   *)
(* the frames that began and continued it, each at its place and with the  *)
(* number that is next (isotp_receive_first_frame,                         *)
(* isotp_receive_consecutive_frame).                                       *)
THEOREM ReceiverAssembles == Spec => []Assembled
  <1>1. HistoryInv /\ NumberInv => Assembled
    BY DEF HistoryInv, PlacedInv, NumberInv, Assembled
  <1> QED
    BY AllHistory, NumberInit, NumberNext, <1>1, PTL DEF Spec

(* Whatever frames arrive, the peer was sent one CONTINUE for each block   *)
(* it has begun (isotp.c:386).                                             *)
THEOREM ReceiverAcknowledges == Spec => []BlocksAcknowledged
  <1>1. IInv /\ HistoryInv => BlocksAcknowledged
    <2> SUFFICES ASSUME IInv, HistoryInv, receive_status = "INPROGRESS"
                 PROVE  Len(fcs) - before = 1 + (Len(parts) - 1) \div BlockSize
      BY DEF BlocksAcknowledged
    <2> DEFINE q == Len(fcs) - before - 1
               s == BlockSize - receive_bs_count
    <2>1. BlockSize \in Nat \ {0} /\ s \in 0..(BlockSize - 1)
      BY ReceiveConstants DEF IInv, TypeOK, InBounds
    <2>2. q \in Nat /\ Len(parts) - 1 = q * BlockSize + s
      BY DEF HistoryInv, CountInv, IInv, TypeOK
    <2>3. (q * BlockSize + s) \div BlockSize = q
      BY <2>1, <2>2, Quotient
    <2> QED
      BY <2>2, <2>3 DEF IInv, TypeOK
  <1> QED
    BY AllHistory, <1>1, PTL
=============================================================================
