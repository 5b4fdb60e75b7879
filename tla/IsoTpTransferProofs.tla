------------------------- MODULE IsoTpTransferProofs -------------------------
(***************************************************************************)
(* Proofs about IsoTpTransfer: whatever frames the bus loses, the two      *)
(* links keep the promise of MessageTransfer and the blocks granted.  The  *)
(* sequence numbers play no part in it: frames of two messages never meet, *)
(* because the sender goes on only when an answer to this message came or  *)
(* when nothing is under way any more, and a message that lacks a frame    *)
(* never fills up.                                                         *)
(***************************************************************************)
EXTENDS IsoTpTransfer, FiniteSetTheorems, TLAPS

Frames == [type : {"SF", "FF"}, id : Nat, dl : Nat]
              \cup [type : {"CF"}, id : Nat, sn : Nat, offset : Nat]

Messages == {Promise!Payload(id, size) : id \in 1..MaxMessages, size \in Sizes}

TypeInv ==
    /\ wire \in Seq(Frames)
    /\ fcs \in Seq([fs : {"CONTINUE", "OVERFLOW"}, bs : {0, BlockSize}])
    /\ offered \in Seq(Sizes) /\ Len(offered) <= MaxMessages
    /\ delivered \in Seq(Messages)
    /\ send_buffer \in Nat /\ send_size \in Nat /\ send_offset \in Nat
    /\ send_sn \in Nat /\ send_bs_remain \in 0..BlockSize /\ send_st_min = 0
    /\ send_timer_bs \in Int
    /\ send_status \in {"IDLE", "INPROGRESS", "ERROR"}
    /\ receive_buffer \in [0..(RecvBufSize - 1) -> Nat \X Nat]
    /\ receive_size \in Nat /\ receive_offset \in Nat
    /\ receive_bs_count \in 0..BlockSize
    /\ receive_status \in {"IDLE", "INPROGRESS", "FULL"}
    /\ Newest \in Nat /\ Newest <= Len(offered)

-----------------------------------------------------------------------------
Sending   == send_status = "INPROGRESS"
Receiving == receive_status = "INPROGRESS"

(* The sender is at the last message offered, inside it; while a frame is  *)
(* under way either way it does not time out.                              *)
SenderInv ==
    /\ Sending =>
          /\ send_buffer = Len(offered) /\ Len(offered) > 0
          /\ send_size = offered[send_buffer] /\ send_size > CfData
          /\ Tx!FfData <= send_offset /\ send_offset < send_size
          /\ wire # <<>> \/ fcs # <<>> => send_timer_bs >= 0
    /\ ~Sending => fcs = <<>>

(* The consecutive frames come first on the bus; the index of the last.    *)
Ahead == Cardinality(UnderWay)

PartsFirst(s, w) ==
    /\ w \in 0..Len(s)
    /\ \A k \in DOMAIN s : s[k].type = "CF" <=> k <= w

(* A frame carries what its message has.                                   *)
Carries(f) ==
    /\ f.id \in DOMAIN offered
    /\ f.type = "SF" => f.dl = offered[f.id] /\ f.dl <= CfData
    /\ f.type = "FF" => f.dl = offered[f.id] % FfDlMod
    /\ f.type = "CF" => f.offset < offered[f.id]

InOrder(f, g) == IF g.type = "CF" THEN f.id = g.id ELSE f.id < g.id

WireInv ==
    /\ PartsFirst(wire, Ahead)
    /\ \A k \in DOMAIN wire : Carries(wire[k])
    /\ \A j, k \in DOMAIN wire : j < k => InOrder(wire[j], wire[k])
    /\ \A k \in 1..(Ahead - 1) : wire[k + 1].offset = wire[k].offset + CfData

(* The last consecutive frame is the sender's last, or ends its message.   *)
LastInv ==
    Ahead > 0 =>
        IF Sending /\ send_buffer = wire[Ahead].id
        THEN send_offset = wire[Ahead].offset + CfData
        ELSE wire[Ahead].offset + CfData >= offered[wire[Ahead].id]

(* A first frame is the last on the bus and the sender waits for the       *)
(* answer; after it there is nothing on the bus but its own consecutive    *)
(* frames; while an answer is under way there is nothing at all.           *)
FirstWaits ==
    /\ wire # <<>> /\ wire[Len(wire)].type = "FF"
    /\ wire[Len(wire)].id = send_buffer
    /\ fcs = <<>> /\ send_bs_remain = 0 /\ send_offset = Tx!FfData

OnlyParts == \A k \in DOMAIN wire : wire[k].type = "CF" /\ wire[k].id = send_buffer

PhaseInv ==
    /\ Sending => FirstWaits \/ OnlyParts
    /\ \A k \in DOMAIN wire : wire[k].type = "FF" => Sending /\ k = Len(wire)
    /\ fcs # <<>> => Len(fcs) = 1 /\ wire = <<>> /\ send_bs_remain = 0
    /\ \A k \in DOMAIN fcs : fcs[k].fs = "CONTINUE" => fcs[k].bs = BlockSize

-----------------------------------------------------------------------------
(* The message in the receive buffer.                                      *)
Current == IdOf(receive_buffer)

IsExact(n) == \A i \in 0..(n - 1) : receive_buffer[i] = <<Current, i>>

(* What is received is an offered message, later than the last delivered;  *)
(* the frames that begin others are later still.                           *)
CurrentInv ==
    /\ receive_status # "IDLE" =>
          /\ Current \in DOMAIN offered /\ Current > Newest
          /\ receive_size = offered[Current] /\ receive_size \in 1..RecvBufSize
          /\ \A k \in DOMAIN wire : wire[k].type # "CF" => wire[k].id > Current
    /\ receive_status = "FULL" => IsExact(receive_size)
    /\ \A k \in DOMAIN wire : wire[k].type # "CF" => wire[k].id > Newest

(* More of the message in the buffer may come.                             *)
SameMessage == Sending /\ send_buffer = Current

Live == Ahead > 0 \/ SameMessage

NextOffset == IF Ahead > 0 THEN wire[1].offset ELSE send_offset

(* What may still be sent of the block.                                    *)
Granted ==
    IF SameMessage THEN send_bs_remain + (IF fcs = <<>> THEN 0 ELSE BlockSize)
    ELSE 0

(* The next frame comes to its place, or a frame was lost, and then the    *)
(* block never fills up, so that no other is granted.                      *)
ProgressInv ==
    Receiving =>
        /\ Rx!FfData <= receive_offset /\ receive_offset < receive_size
        /\ receive_bs_count > 0
        /\ Ahead > 0 => wire[1].id = Current
        /\ Sending /\ send_bs_remain > 0 => SameMessage
        /\ \A k \in DOMAIN fcs : fcs[k].fs = "CONTINUE" => SameMessage
        /\ Live => Ahead + Granted <= receive_bs_count
        /\ Live =>
              \/ receive_offset = NextOffset /\ IsExact(receive_offset)
              \/ /\ receive_offset + CfData <= NextOffset
                 /\ Ahead + Granted < receive_bs_count

IInv ==
    /\ TypeInv /\ SenderInv /\ WireInv /\ LastInv /\ PhaseInv
    /\ CurrentInv /\ ProgressInv

-----------------------------------------------------------------------------
(* Sequences of frames. *)

LEMMA PartsCount ==
    ASSUME NEW s \in Seq(Frames), NEW w, PartsFirst(s, w)
    PROVE  Cardinality({k \in DOMAIN s : s[k].type = "CF"}) = w
  <1>1. {k \in DOMAIN s : s[k].type = "CF"} = 1..w
    <2>1. w \in 0..Len(s) /\ DOMAIN s = 1..Len(s)
      BY DEF PartsFirst
    <2>2. \A k \in DOMAIN s : s[k].type = "CF" <=> k <= w
      BY DEF PartsFirst
    <2> QED
      BY <2>1, <2>2
  <1>2. w \in Nat /\ 1 \in Int /\ w \in Int
    BY DEF PartsFirst
  <1>3. Cardinality(1..w) = IF 1 > w THEN 0 ELSE w - 1 + 1
    BY <1>2, FS_Interval
  <1>4. Cardinality(1..w) = w
    BY <1>2, <1>3
  <1> QED
    BY <1>1, <1>4

LEMMA AheadIs ==
    ASSUME wire \in Seq(Frames), NEW w, PartsFirst(wire, w)
    PROVE  Ahead = w
  BY PartsCount DEF Ahead, UnderWay

LEMMA TailOf ==
    ASSUME NEW S, NEW s \in Seq(S), s # <<>>
    PROVE  /\ Tail(s) \in Seq(S) /\ Len(Tail(s)) = Len(s) - 1
           /\ Len(s) \in Nat \ {0} /\ Head(s) = s[1]
           /\ \A k \in 1..(Len(s) - 1) : Tail(s)[k] = s[k + 1]
  OBVIOUS

LEMMA AppendOf ==
    ASSUME NEW S, NEW s \in Seq(S), NEW x \in S
    PROVE  /\ Append(s, x) \in Seq(S) /\ Len(Append(s, x)) = Len(s) + 1
           /\ Len(s) \in Nat
           /\ Append(s, x)[Len(s) + 1] = x
           /\ \A k \in 1..Len(s) : Append(s, x)[k] = s[k]
  OBVIOUS

LEMMA PartsOfTail ==
    ASSUME NEW s \in Seq(Frames), s # <<>>, NEW w, PartsFirst(s, w)
    PROVE  PartsFirst(Tail(s), IF w > 0 THEN w - 1 ELSE 0)
  <1>1. w \in 0..Len(s) /\ \A k \in 1..Len(s) : s[k].type = "CF" <=> k <= w
    BY DEF PartsFirst
  <1>2. /\ Len(Tail(s)) = Len(s) - 1 /\ Len(s) \in Nat \ {0}
        /\ \A k \in 1..(Len(s) - 1) : Tail(s)[k] = s[k + 1]
    BY TailOf
  <1>3. DOMAIN Tail(s) = 1..(Len(s) - 1)
    BY <1>2, TailOf
  <1> QED
    BY <1>1, <1>2, <1>3 DEF PartsFirst

LEMMA PartsOfAppend ==
    ASSUME NEW s \in Seq(Frames), NEW w, PartsFirst(s, w), NEW f \in Frames,
           f.type = "CF" => w = Len(s)
    PROVE  PartsFirst(Append(s, f), IF f.type = "CF" THEN w + 1 ELSE w)
  <1>1. w \in 0..Len(s) /\ \A k \in 1..Len(s) : s[k].type = "CF" <=> k <= w
    BY DEF PartsFirst
  <1>2. /\ Len(Append(s, f)) = Len(s) + 1 /\ Len(s) \in Nat
        /\ Append(s, f)[Len(s) + 1] = f
        /\ \A k \in 1..Len(s) : Append(s, f)[k] = s[k]
    BY AppendOf
  <1>3. DOMAIN Append(s, f) = 1..(Len(s) + 1)
    BY <1>2, AppendOf
  <1> QED
    BY <1>1, <1>2, <1>3 DEF PartsFirst

-----------------------------------------------------------------------------
LEMMA InitIInv == Init => IInv
  <1> SUFFICES ASSUME Init PROVE IInv
    OBVIOUS
  <1> USE DEF Init, Tx!SendInit, Rx!ReceiveInit
  <1>1. wire = <<>> /\ fcs = <<>> /\ ~Sending /\ ~Receiving
        /\ receive_status = "IDLE"
    BY DEF Sending, Receiving
  <1>2. PartsFirst(wire, 0) /\ wire \in Seq(Frames)
    BY <1>1 DEF PartsFirst
  <1>3. Ahead = 0
    BY <1>2, AheadIs
  <1>4. TypeInv
    <2>1. Rx!Blank \in Nat \X Nat
      BY DEF Rx!Blank
    <2> QED
      BY <2>1, TransferConstants DEF TypeInv, Newest
  <1>5. SenderInv
    BY <1>1 DEF SenderInv
  <1>6. WireInv
    BY <1>1, <1>2, <1>3 DEF WireInv
  <1>7. LastInv
    BY <1>3 DEF LastInv
  <1>8. PhaseInv
    BY <1>1 DEF PhaseInv
  <1>9. CurrentInv
    BY <1>1 DEF CurrentInv
  <1>10. ProgressInv
    BY <1>1 DEF ProgressInv
  <1> QED
    BY <1>4, <1>5, <1>6, <1>7, <1>8, <1>9, <1>10 DEF IInv

-----------------------------------------------------------------------------
(* The frame at the head of the bus is gone, received or lost: what is     *)
(* said of the bus and of the sender's place in it holds of the rest.      *)
BusInv ==
    /\ WireInv /\ LastInv
    /\ Sending => FirstWaits \/ OnlyParts
    /\ \A k \in DOMAIN wire : wire[k].type = "FF" => Sending /\ k = Len(wire)

LEMMA HeadGone ==
    ASSUME IInv, wire # <<>>, wire' = Tail(wire), UNCHANGED <<sender, offered>>,
           fcs' = fcs \/ wire' = <<>>
    PROVE  /\ BusInv' /\ wire' \in Seq(Frames)
           /\ Ahead' = IF Ahead > 0 THEN Ahead - 1 ELSE 0
           /\ Len(wire') = Len(wire) - 1 /\ Len(wire) \in Nat \ {0}
           /\ \A k \in 1..(Len(wire) - 1) : wire'[k] = wire[k + 1]
  <1> DEFINE w == IF Ahead > 0 THEN Ahead - 1 ELSE 0
  <1>0. /\ wire \in Seq(Frames) /\ PartsFirst(wire, Ahead)
        /\ UNCHANGED <<send_status, send_buffer, send_offset, send_bs_remain>>
    BY DEF IInv, TypeInv, WireInv, sender
  <1>1. /\ wire' \in Seq(Frames) /\ Len(wire') = Len(wire) - 1
        /\ Len(wire) \in Nat \ {0}
        /\ \A k \in 1..(Len(wire) - 1) : wire'[k] = wire[k + 1]
    BY <1>0, TailOf
  <1>2. DOMAIN wire' = 1..(Len(wire) - 1) /\ DOMAIN wire = 1..Len(wire)
    BY <1>0, <1>1
  <1>3. PartsFirst(wire', w)
    BY <1>0, PartsOfTail
  <1>4. Ahead' = w
    BY <1>1, <1>3, PartsCount DEF Ahead, UnderWay
  <1>5. Ahead \in 0..Len(wire)
    BY <1>0 DEF PartsFirst
  <1>6. WireInv'
    <2>1. (\A k \in DOMAIN wire : Carries(wire[k]))'
      BY <1>1, <1>2 DEF IInv, WireInv, Carries
    <2>2. \A j, k \in DOMAIN wire' : j < k => InOrder(wire'[j], wire'[k])
      BY <1>1, <1>2 DEF IInv, WireInv
    <2>3. \A k \in 1..(Ahead' - 1) : wire'[k + 1].offset = wire'[k].offset + CfData
      BY <1>1, <1>2, <1>4, <1>5 DEF IInv, WireInv
    <2> QED
      BY <1>3, <1>4, <2>1, <2>2, <2>3 DEF WireInv
  <1>7. LastInv'
    <2>1. Ahead' > 0 => wire'[Ahead'] = wire[Ahead] /\ Ahead > 0
      BY <1>1, <1>4, <1>5
    <2> QED
      BY <1>0, <2>1 DEF IInv, LastInv, Sending
  <1>8. Sending' => FirstWaits' \/ OnlyParts'
    <2> SUFFICES ASSUME Sending' PROVE FirstWaits' \/ OnlyParts'
      OBVIOUS
    <2>1. Sending
      BY <1>0 DEF Sending
    <2>2. CASE wire' = <<>>
      BY <2>2 DEF OnlyParts
    <2>3. CASE wire' # <<>> /\ OnlyParts
      BY <1>0, <1>1, <1>2, <2>3 DEF OnlyParts
    <2>4. CASE wire' # <<>> /\ FirstWaits
      <3>1. Len(wire) - 1 > 0 /\ wire'[Len(wire')] = wire[Len(wire)]
        BY <1>1, <2>4
      <3> QED
        BY <1>0, <2>4, <3>1 DEF FirstWaits
    <2> QED
      BY <2>1, <2>2, <2>3, <2>4 DEF IInv, PhaseInv
  <1>9. \A k \in DOMAIN wire' : wire'[k].type = "FF" => Sending' /\ k = Len(wire')
    <2> SUFFICES ASSUME NEW k \in DOMAIN wire', wire'[k].type = "FF"
                 PROVE  Sending' /\ k = Len(wire')
      OBVIOUS
    <2>1. k + 1 \in DOMAIN wire /\ wire[k + 1].type = "FF" /\ k \in Int
      BY <1>1, <1>2
    <2>2. Sending /\ k + 1 = Len(wire)
      BY <2>1 DEF IInv, PhaseInv
    <2> QED
      BY <1>0, <1>1, <2>1, <2>2 DEF Sending
  <1> QED
    BY <1>1, <1>4, <1>6, <1>7, <1>8, <1>9 DEF BusInv

LEMMA FrameTypes ==
    ASSUME NEW f \in Frames
    PROVE  /\ f.type \in {"SF", "FF", "CF"} /\ f.id \in Nat
           /\ f.type = "CF" => f.offset \in Nat
           /\ f.type # "CF" => f.dl \in Nat
  BY DEF Frames

LEMMA OnBus ==
    ASSUME IInv, Ahead > 0
    PROVE  /\ Ahead \in 1..Len(wire) /\ Len(wire) \in Nat
           /\ DOMAIN wire = 1..Len(wire)
           /\ wire[1].type = "CF" /\ wire[1].offset \in Nat
           /\ Ahead > 1 => wire[2].offset = wire[1].offset + CfData
           /\ SameMessage /\ Receiving /\ Ahead = 1 => send_offset = wire[1].offset + CfData
  <1>1. /\ wire \in Seq(Frames) /\ PartsFirst(wire, Ahead)
    BY DEF IInv, TypeInv, WireInv
  <1>2. /\ Ahead \in 1..Len(wire) /\ Len(wire) \in Nat /\ DOMAIN wire = 1..Len(wire)
        /\ wire[1].type = "CF" /\ wire[1] \in Frames
    BY <1>1 DEF PartsFirst
  <1>3. wire[1].offset \in Nat
    BY <1>2, FrameTypes
  <1>4. Ahead > 1 => wire[2].offset = wire[1].offset + CfData
    <2>1. Ahead > 1 => 1 \in 1..(Ahead - 1)
      BY <1>2
    <2>2. Ahead > 1 => wire[1 + 1].offset = wire[1].offset + CfData
      BY <2>1 DEF IInv, WireInv
    <2> QED
      BY <2>2
  <1>5. SameMessage /\ Receiving /\ Ahead = 1 => send_offset = wire[1].offset + CfData
    BY DEF IInv, ProgressInv, LastInv, SameMessage
  <1> QED
    BY <1>2, <1>3, <1>4, <1>5

(* A frame is lost, or makes no difference to the message being received,  *)
(* unless to end it.                                                       *)
LEMMA FrameSkipped ==
    ASSUME IInv, wire # <<>>, wire' = Tail(wire),
           UNCHANGED <<sender, offered, delivered, fcs, receive_buffer,
                       receive_size, receive_offset, receive_bs_count>>,
           receive_status' \in {receive_status, "IDLE"}
    PROVE  IInv'
  <1>0. /\ UNCHANGED <<send_buffer, send_size, send_offset, send_sn, send_st_min,
                       send_bs_remain, send_timer_bs, send_status>>
        /\ UNCHANGED <<Sending, SameMessage, Granted, Current, Newest>>
    BY DEF sender, Sending, SameMessage, Granted, Current, Newest
  <1>1. /\ BusInv' /\ wire' \in Seq(Frames)
        /\ Ahead' = IF Ahead > 0 THEN Ahead - 1 ELSE 0
        /\ Len(wire') = Len(wire) - 1 /\ Len(wire) \in Nat \ {0}
        /\ \A k \in 1..(Len(wire) - 1) : wire'[k] = wire[k + 1]
    BY HeadGone
  <1>2. DOMAIN wire' = 1..(Len(wire) - 1) /\ DOMAIN wire = 1..Len(wire)
    BY <1>1 DEF IInv, TypeInv
  <1>3. TypeInv'
    BY <1>0, <1>1 DEF IInv, TypeInv
  <1>4. SenderInv'
    BY <1>0 DEF IInv, SenderInv
  <1>5. PhaseInv'
    BY <1>0, <1>1 DEF IInv, PhaseInv, BusInv
  <1>6. CurrentInv'
    <2>1. \A k \in DOMAIN wire' : k + 1 \in DOMAIN wire /\ wire'[k] = wire[k + 1]
      BY <1>1, <1>2
    <2>2. \A n : IsExact(n)' = IsExact(n)
      BY <1>0 DEF IsExact
    <2> QED
      BY <1>0, <2>1, <2>2 DEF IInv, CurrentInv
  <1>7. ProgressInv'
    <2> SUFFICES ASSUME Receiving' PROVE ProgressInv'
      BY DEF ProgressInv
    <2>0. Receiving
      BY DEF Receiving
    <2>1. IsExact(receive_offset)' = IsExact(receive_offset)
      BY <1>0 DEF IsExact
    <2>2. /\ Rx!FfData <= receive_offset /\ receive_offset < receive_size
          /\ receive_bs_count > 0
          /\ Sending /\ send_bs_remain > 0 => SameMessage
          /\ \A k \in DOMAIN fcs : fcs[k].fs = "CONTINUE" => SameMessage
          /\ Live => Ahead + Granted <= receive_bs_count
          /\ Live => \/ receive_offset = NextOffset /\ IsExact(receive_offset)
                     \/ /\ receive_offset + CfData <= NextOffset
                        /\ Ahead + Granted < receive_bs_count
      BY <2>0 DEF IInv, ProgressInv
    <2>3. Granted \in Nat /\ receive_offset \in Nat /\ receive_bs_count \in Nat
      BY TransferConstants DEF Granted, IInv, TypeInv
    <2>4. /\ Ahead' > 0 => wire'[1].id = Current
          /\ Live' => Live
          /\ Live' => Ahead' + Granted <= receive_bs_count
          /\ Live' => \/ receive_offset = NextOffset' /\ IsExact(receive_offset)
                      \/ /\ receive_offset + CfData <= NextOffset'
                         /\ Ahead' + Granted < receive_bs_count
      <3>1. CASE Ahead > 0
        <4>1. /\ Ahead \in 1..Len(wire)
              /\ wire[1].offset \in Nat
              /\ Ahead > 1 => wire[2].offset = wire[1].offset + CfData
              /\ SameMessage /\ Ahead = 1 => send_offset = wire[1].offset + CfData
          BY <3>1, <2>0, OnBus
        <4>2. Ahead' = Ahead - 1 /\ Live /\ NextOffset = wire[1].offset
          BY <1>1, <3>1 DEF Live, NextOffset
        <4>3. /\ Ahead + Granted <= receive_bs_count
              /\ receive_offset <= wire[1].offset
          BY <2>2, <2>3, <4>1, <4>2, TransferConstants
        <4>4. CASE Ahead = 1
          <5>1. Live' => SameMessage /\ NextOffset' = wire[1].offset + CfData
            BY <1>0, <4>1, <4>2, <4>4 DEF Live, NextOffset
          <5> QED
            BY <2>3, <4>1, <4>2, <4>3, <4>4, <5>1, TransferConstants
        <4>5. CASE Ahead > 1
          <5>1. 1 \in 1..(Len(wire) - 1) /\ 2 \in DOMAIN wire /\ 1 \in DOMAIN wire
            BY <1>1, <1>2, <4>1, <4>5
          <5>2. wire'[1] = wire[2]
            BY <1>1, <5>1
          <5>3. wire[2].id = wire[1].id
            <6>1. wire[2].type = "CF"
              BY <4>5, <5>1 DEF IInv, WireInv, PartsFirst
            <6>2. InOrder(wire[1], wire[2])
              BY <5>1 DEF IInv, WireInv
            <6> QED
              BY <6>1, <6>2 DEF InOrder
          <5>4. NextOffset' = wire[1].offset + CfData /\ Live'
            BY <4>1, <4>2, <4>5, <5>2 DEF Live, NextOffset
          <5>5. wire[1].id = Current
            BY <2>0, <3>1 DEF IInv, ProgressInv
          <5>6. /\ receive_offset + CfData <= NextOffset'
                /\ Ahead' + Granted < receive_bs_count
            BY <2>3, <4>1, <4>2, <4>3, <5>4, TransferConstants
          <5>7. wire'[1].id = Current
            BY <5>2, <5>3, <5>5
          <5>8. Ahead' + Granted <= receive_bs_count
            BY <2>3, <4>1, <4>2, <5>6
          <5> QED
            BY <4>2, <5>6, <5>7, <5>8
        <4>6. Ahead = 1 \/ Ahead > 1
          BY <1>1, <4>1
        <4> QED
          BY <4>4, <4>5, <4>6
      <3>2. CASE ~(Ahead > 0)
        <4>1. Ahead' = 0
          BY <1>1, <3>2
        <4>2. Ahead = 0
          BY <3>2 DEF IInv, WireInv, PartsFirst
        <4>3. Live' = Live /\ NextOffset' = NextOffset
          BY <1>0, <4>1, <4>2 DEF Live, NextOffset
        <4> QED
          BY <2>2, <4>1, <4>2, <4>3
      <3> QED
        BY <3>1, <3>2
    <2> QED
      BY <1>0, <2>1, <2>2, <2>4 DEF ProgressInv
  <1> QED
    BY <1>1, <1>3, <1>4, <1>5, <1>6, <1>7 DEF IInv, BusInv

LEMMA CopiedType ==
    ASSUME NEW b \in [0..(RecvBufSize - 1) -> Nat \X Nat], NEW at \in Nat,
           NEW n \in Nat, NEW id \in Nat, NEW from \in Nat
    PROVE  Rx!Copied(b, at, n, id, from) \in [0..(RecvBufSize - 1) -> Nat \X Nat]
  <1>1. \A i \in 0..(RecvBufSize - 1) :
            at <= i => <<id, from + (i - at)>> \in Nat \X Nat
    BY TransferConstants
  <1> QED
    BY <1>1 DEF Rx!Copied

(* The frame at the head of the bus begins a message later than any.       *)
LEMMA NewMessage ==
    ASSUME IInv, wire # <<>>, wire[1].type # "CF"
    PROVE  /\ wire[1].id \in DOMAIN offered /\ wire[1].id > Newest
           /\ Ahead = 0 /\ wire[1] \in Frames /\ wire[1].id \in Nat
           /\ offered[wire[1].id] \in 0..SendBufSize
           /\ \A k \in 1..(Len(wire) - 1) :
                 wire[k + 1].type # "CF" => wire[k + 1].id > wire[1].id
           /\ \A k \in 1..(Len(wire) - 1) :
                 wire[k + 1].type # "CF" => wire[k + 1].id > Newest
  <1>1. 1 \in DOMAIN wire /\ wire[1] \in Frames /\ DOMAIN wire = 1..Len(wire)
        /\ Len(wire) \in Nat
    BY DEF IInv, TypeInv
  <1>2. Carries(wire[1]) /\ wire[1].id > Newest
    BY <1>1 DEF IInv, WireInv, CurrentInv
  <1>3. Ahead = 0
    <2>1. Ahead \in Nat /\ ~(1 <= Ahead)
      BY <1>1 DEF IInv, WireInv, PartsFirst
    <2> QED
      BY <2>1
  <1>4. \A k \in 1..(Len(wire) - 1) : k + 1 \in DOMAIN wire /\ 1 < k + 1
    BY <1>1
  <1>5. \A k \in 1..(Len(wire) - 1) :
            wire[k + 1].type # "CF" => wire[k + 1].id > wire[1].id
    <2> SUFFICES ASSUME NEW k \in 1..(Len(wire) - 1), wire[k + 1].type # "CF"
                 PROVE  wire[k + 1].id > wire[1].id
      OBVIOUS
    <2>1. wire[1].id < wire[k + 1].id
      BY <1>1, <1>4 DEF IInv, WireInv, InOrder
    <2>2. wire[1].id \in Nat /\ wire[k + 1].id \in Nat
      BY <1>1, <1>4, FrameTypes DEF IInv, TypeInv
    <2> QED
      BY <2>1, <2>2
  <1>6. \A k \in 1..(Len(wire) - 1) :
            wire[k + 1].type # "CF" => wire[k + 1].id > Newest
    BY <1>4 DEF IInv, CurrentInv
  <1>7. wire[1].id \in DOMAIN offered /\ offered[wire[1].id] \in 0..SendBufSize
    <2>1. wire[1].id \in DOMAIN offered /\ offered \in Seq(Sizes)
      BY <1>2 DEF Carries, IInv, TypeInv
    <2>2. offered[wire[1].id] \in Sizes
      BY <2>1
    <2> QED
      BY <2>1, <2>2, TransferConstants
  <1>8. wire[1].id \in Nat
    BY <1>1, FrameTypes
  <1> QED
    BY <1>1, <1>2, <1>3, <1>5, <1>6, <1>7, <1>8

LEMMA SingleAccepted ==
    ASSUME IInv, wire # <<>>, wire' = Tail(wire), wire[1].type = "SF",
           wire[1].dl # 0,
           UNCHANGED <<sender, offered, delivered, fcs, receive_offset,
                       receive_bs_count>>,
           receive_buffer' = Rx!Copied(receive_buffer, 0, wire[1].dl, wire[1].id, 0),
           receive_size' = wire[1].dl, receive_status' = "FULL"
    PROVE  IInv'
  <1> DEFINE id == wire[1].id
             dl == wire[1].dl
  <1>0. /\ UNCHANGED <<send_buffer, send_size, send_offset, send_sn, send_st_min,
                       send_bs_remain, send_timer_bs, send_status>>
        /\ UNCHANGED <<Sending, Newest>>
    BY DEF sender, Sending, Newest
  <1>1. /\ BusInv' /\ wire' \in Seq(Frames)
        /\ Len(wire') = Len(wire) - 1 /\ Len(wire) \in Nat \ {0}
        /\ \A k \in 1..(Len(wire) - 1) : wire'[k] = wire[k + 1]
    BY HeadGone
  <1>2. DOMAIN wire' = 1..(Len(wire) - 1) /\ 1 \in DOMAIN wire
    BY <1>1 DEF IInv, TypeInv
  <1>3. /\ id \in DOMAIN offered /\ id > Newest /\ id \in Nat
        /\ \A k \in DOMAIN wire' : wire'[k].type # "CF" => wire'[k].id > id
        /\ \A k \in DOMAIN wire' : wire'[k].type # "CF" => wire'[k].id > Newest
    BY <1>1, <1>2, NewMessage
  <1>4. dl = offered[id] /\ dl \in 1..RecvBufSize /\ dl \in Nat
    <2>1. wire[1] \in Frames /\ offered[id] \in 0..SendBufSize
      BY NewMessage
    <2>2. dl = offered[id] /\ dl <= CfData
      BY <1>2 DEF IInv, WireInv, Carries
    <2> QED
      BY <2>1, <2>2, TransferConstants
  <1>5. /\ receive_buffer' \in [0..(RecvBufSize - 1) -> Nat \X Nat]
        /\ \A i \in 0..(dl - 1) : receive_buffer'[i] = <<id, i>>
    <2> HIDE DEF id, dl
    <2>1. /\ receive_buffer \in [0..(RecvBufSize - 1) -> Nat \X Nat]
          /\ receive_buffer' = Rx!Copied(receive_buffer, 0, dl, id, 0)
      BY DEF IInv, TypeInv, id, dl
    <2> DEFINE copied == Rx!Copied(receive_buffer, 0, dl, id, 0)
    <2>2. copied \in [0..(RecvBufSize - 1) -> Nat \X Nat]
      <3>1. 0 \in Nat /\ id \in Nat /\ dl \in Nat
        BY <1>3, <1>4
      <3> QED
        BY <2>1, <3>1, CopiedType
    <2>3. \A i \in 0..(dl - 1) : i \in 0..(RecvBufSize - 1)
                                  /\ 0 <= i /\ i < 0 + dl /\ 0 + (i - 0) = i
      BY <1>4, TransferConstants
    <2>4. \A i \in 0..(dl - 1) : copied[i] = <<id, i>>
      BY <2>1, <2>3 DEF Rx!Copied
    <2> QED
      BY <2>1, <2>2, <2>4
  <1>6. Current' = id
    BY <1>4, <1>5 DEF Current, IdOf
  <1>7. TypeInv'
    BY <1>0, <1>1, <1>4, <1>5 DEF IInv, TypeInv
  <1>8. SenderInv'
    BY <1>0 DEF IInv, SenderInv
  <1>9. PhaseInv'
    BY <1>0, <1>1 DEF IInv, PhaseInv, BusInv
  <1>10. CurrentInv'
    <2>1. IsExact(receive_size)'
      BY <1>5, <1>6 DEF IsExact
    <2> QED
      BY <1>0, <1>3, <1>4, <1>6, <2>1 DEF CurrentInv
  <1>11. ProgressInv'
    BY DEF ProgressInv, Receiving
  <1> QED
    BY <1>1, <1>7, <1>8, <1>9, <1>10, <1>11 DEF IInv, BusInv

LEMMA ModLess ==
    ASSUME NEW d \in Nat, NEW n \in 0..(d - 1)
    PROVE  n % d = n
  BY Z3

(* A first frame at the head of the bus is alone on it, the sender waits   *)
(* for the answer and none is under way.                                   *)
LEMMA FirstAlone ==
    ASSUME IInv, wire # <<>>, wire' = Tail(wire), wire[1].type = "FF",
           UNCHANGED <<sender, offered>>
    PROVE  /\ wire' = <<>> /\ fcs = <<>> /\ BusInv' /\ Ahead' = 0
           /\ UNCHANGED <<send_buffer, send_size, send_offset, send_sn, send_st_min,
                          send_bs_remain, send_timer_bs, send_status, Sending>>
           /\ Sending /\ wire[1].id = send_buffer /\ send_timer_bs >= 0
           /\ send_bs_remain = 0 /\ send_offset = Tx!FfData
           /\ wire[1].dl = offered[wire[1].id] % FfDlMod
  <1>0. UNCHANGED <<send_buffer, send_size, send_offset, send_sn, send_st_min,
                    send_bs_remain, send_timer_bs, send_status, Sending>>
    BY DEF sender, Sending
  <1>1. wire \in Seq(Frames) /\ 1 \in DOMAIN wire
    BY DEF IInv, TypeInv
  <1>2. Sending /\ Len(wire) = 1
    BY <1>1 DEF IInv, PhaseInv
  <1>3. FirstWaits
    <2>1. ~OnlyParts
      BY <1>1 DEF OnlyParts
    <2> QED
      BY <1>2, <2>1 DEF IInv, PhaseInv
  <1>4. wire' = <<>>
    BY <1>1, <1>2
  <1>5. BusInv' /\ Ahead' = 0
    <2>1. wire[1].type # "CF"
      OBVIOUS
    <2>2. Ahead = 0
      BY <2>1, NewMessage
    <2> QED
      BY <1>4, <2>2, HeadGone
  <1>6. wire[1].dl = offered[wire[1].id] % FfDlMod
    BY <1>1 DEF IInv, WireInv, Carries
  <1> QED
    BY <1>0, <1>2, <1>3, <1>4, <1>5, <1>6 DEF FirstWaits, IInv, SenderInv

LEMMA OneAnswer ==
    ASSUME NEW fs \in {"CONTINUE", "OVERFLOW"}, NEW bs \in {0, BlockSize},
           fcs = <<>>, fcs' = Append(fcs, Rx!FlowControl(fs, bs))
    PROVE  /\ fcs' \in Seq([fs : {"CONTINUE", "OVERFLOW"}, bs : {0, BlockSize}])
           /\ Len(fcs') = 1 /\ DOMAIN fcs' = {1} /\ fcs' # <<>>
           /\ fcs'[1].fs = fs /\ fcs'[1].bs = bs
  <1> DEFINE S == [fs : {"CONTINUE", "OVERFLOW"}, bs : {0, BlockSize}]
             f == Rx!FlowControl(fs, bs)
  <1>1. fcs \in Seq(S) /\ Len(fcs) = 0
    OBVIOUS
  <1>2. f \in S /\ f.fs = fs /\ f.bs = bs
    BY DEF Rx!FlowControl
  <1>3. fcs' = Append(fcs, f)
    OBVIOUS
  <1> HIDE DEF S, f
  <1>4. fcs' \in Seq(S) /\ Len(fcs') = 1 /\ fcs'[1] = f
    BY <1>1, <1>2, <1>3, AppendOf
  <1>5. DOMAIN fcs' = {1} /\ fcs' # <<>>
    BY <1>4
  <1> QED
    BY <1>2, <1>4, <1>5 DEF S

LEMMA FirstRefused ==
    ASSUME IInv, wire # <<>>, wire' = Tail(wire), wire[1].type = "FF",
           UNCHANGED <<sender, offered, delivered, receive_buffer, receive_size,
                       receive_offset, receive_bs_count>>,
           fcs' = Append(fcs, Rx!FlowControl("OVERFLOW", 0)),
           receive_status' = "IDLE"
    PROVE  IInv'
  <1>1. /\ wire' = <<>> /\ fcs = <<>> /\ BusInv' /\ Ahead' = 0
        /\ UNCHANGED <<send_buffer, send_size, send_offset, send_sn, send_st_min,
                       send_bs_remain, send_timer_bs, send_status, Sending>>
        /\ Sending /\ send_timer_bs >= 0 /\ send_bs_remain = 0
    BY FirstAlone
  <1>3. fcs' \in Seq([fs : {"CONTINUE", "OVERFLOW"}, bs : {0, BlockSize}])
        /\ Len(fcs') = 1 /\ fcs'[1].fs = "OVERFLOW" /\ DOMAIN fcs' = {1}
    BY <1>1, OneAnswer
  <1>4. TypeInv'
    BY <1>1, <1>3 DEF IInv, TypeInv, Newest
  <1>5. SenderInv'
    BY <1>1 DEF IInv, SenderInv
  <1>6. PhaseInv'
    BY <1>1, <1>3 DEF PhaseInv, BusInv
  <1>7. CurrentInv'
    BY <1>1 DEF CurrentInv
  <1>8. ProgressInv'
    BY DEF ProgressInv, Receiving
  <1> QED
    BY <1>1, <1>4, <1>5, <1>6, <1>7, <1>8 DEF IInv, BusInv

LEMMA FirstAccepted ==
    ASSUME IInv, wire # <<>>, wire' = Tail(wire), wire[1].type = "FF",
           UNCHANGED <<sender, offered, delivered>>,
           wire[1].dl > CfData, wire[1].dl <= RecvBufSize,
           receive_buffer' =
               Rx!Copied(receive_buffer, 0, Rx!FfData, wire[1].id, 0),
           receive_size' = wire[1].dl, receive_offset' = Rx!FfData,
           receive_status' = "INPROGRESS", receive_bs_count' = BlockSize,
           fcs' = Append(fcs, Rx!FlowControl("CONTINUE", BlockSize))
    PROVE  IInv'
  <1> DEFINE id == wire[1].id
             dl == wire[1].dl
  <1>0. UNCHANGED Newest
    BY DEF Newest
  <1>1. /\ wire' = <<>> /\ fcs = <<>> /\ BusInv' /\ Ahead' = 0
        /\ UNCHANGED <<send_buffer, send_size, send_offset, send_sn, send_st_min,
                       send_bs_remain, send_timer_bs, send_status, Sending>>
        /\ Sending /\ id = send_buffer /\ send_timer_bs >= 0
        /\ send_bs_remain = 0 /\ send_offset = Tx!FfData
        /\ dl = offered[id] % FfDlMod
    BY FirstAlone
  <1>3. /\ fcs' \in Seq([fs : {"CONTINUE", "OVERFLOW"}, bs : {0, BlockSize}])
        /\ Len(fcs') = 1 /\ DOMAIN fcs' = {1} /\ fcs' # <<>>
        /\ fcs'[1].bs = BlockSize
    BY <1>1, OneAnswer
  <1>4. id \in DOMAIN offered /\ id > Newest /\ id \in Nat
    BY NewMessage
  (* The size is not cut: one of FfDlMod would be announced as none.       *)
  <1>5. dl = offered[id] /\ dl \in 1..RecvBufSize /\ dl \in Nat
    <2>1. offered[id] \in 0..SendBufSize
      BY NewMessage
    <2>2. offered[id] # FfDlMod
      <3>1. FfDlMod % FfDlMod = 0
        BY TransferConstants
      <3> QED
        BY <1>1, <3>1, TransferConstants
    <2>3. offered[id] \in 0..(FfDlMod - 1)
      BY <2>1, <2>2, TransferConstants
    <2>4. offered[id] % FfDlMod = offered[id]
      BY <2>3, ModLess, TransferConstants
    <2> QED
      BY <1>1, <2>1, <2>4, TransferConstants
  <1>6. Rx!FfData = CfData - 1 /\ Tx!FfData = Rx!FfData /\ Rx!FfData \in Nat \ {0}
        /\ Rx!FfData < RecvBufSize
    BY TransferConstants DEF Rx!FfData, Tx!FfData
  <1>7. /\ receive_buffer' \in [0..(RecvBufSize - 1) -> Nat \X Nat]
        /\ \A i \in 0..(Rx!FfData - 1) : receive_buffer'[i] = <<id, i>>
    <2> HIDE DEF id, dl
    <2>1. /\ receive_buffer \in [0..(RecvBufSize - 1) -> Nat \X Nat]
          /\ receive_buffer' = Rx!Copied(receive_buffer, 0, Rx!FfData, id, 0)
      BY DEF IInv, TypeInv, id, dl
    <2> DEFINE copied == Rx!Copied(receive_buffer, 0, Rx!FfData, id, 0)
    <2>2. copied \in [0..(RecvBufSize - 1) -> Nat \X Nat]
      <3>1. 0 \in Nat /\ id \in Nat /\ Rx!FfData \in Nat
        BY <1>4, <1>6
      <3> QED
        BY <2>1, <3>1, CopiedType
    <2>3. \A i \in 0..(Rx!FfData - 1) :
              i \in 0..(RecvBufSize - 1)
              /\ 0 <= i /\ i < 0 + Rx!FfData /\ 0 + (i - 0) = i
      BY <1>6, TransferConstants
    <2>4. \A i \in 0..(Rx!FfData - 1) : copied[i] = <<id, i>>
      BY <2>1, <2>3 DEF Rx!Copied
    <2> QED
      BY <2>1, <2>2, <2>4
  <1>8. Current' = id
    <2>1. 0 \in 0..(Rx!FfData - 1) /\ 0 - 0 = 0
      <3> DEFINE n == Rx!FfData
      <3>1. n \in Nat \ {0}
        BY <1>6
      <3> HIDE DEF n
      <3>2. 0 \in 0..(n - 1)
        BY <3>1
      <3> QED
        BY <3>2 DEF n
    <2>2. receive_buffer'[0] = <<id, 0>>
      BY <1>7, <2>1
    <2> QED
      BY <2>2 DEF Current, IdOf
  <1>9. TypeInv'
    <2>1. Rx!FfData \in Nat /\ BlockSize \in 0..BlockSize
      BY <1>6, TransferConstants
    <2> QED
      BY <1>0, <1>1, <1>3, <1>5, <1>7, <2>1 DEF IInv, TypeInv
  <1>10. SenderInv'
    BY <1>1 DEF IInv, SenderInv
  <1>11. PhaseInv'
    BY <1>1, <1>3 DEF PhaseInv, BusInv
  <1>12. CurrentInv'
    BY <1>0, <1>1, <1>4, <1>5, <1>8 DEF CurrentInv
  <1>13. ProgressInv'
    <2>1. SameMessage'
      BY <1>1, <1>8 DEF SameMessage
    <2>2. Granted' = BlockSize
      BY <1>1, <1>3, <2>1, TransferConstants DEF Granted
    <2>3. NextOffset' = Rx!FfData
      BY <1>1, <1>6 DEF NextOffset
    <2>4. IsExact(receive_offset)'
      BY <1>7, <1>8 DEF IsExact
    <2>5. Ahead' = 0 /\ BlockSize \in 1..255 /\ CfData \in Nat
      BY <1>1, TransferConstants
    <2>6. Rx!FfData < dl
      BY <1>5, <1>6, TransferConstants
    <2> QED
      BY <1>6, <2>1, <2>2, <2>3, <2>4, <2>5, <2>6 DEF ProgressInv
  <1> QED
    BY <1>1, <1>9, <1>10, <1>11, <1>12, <1>13 DEF IInv, BusInv

-----------------------------------------------------------------------------
(* A consecutive frame at the head of the bus while a message is received. *)
LEMMA PartAtHead ==
    ASSUME IInv, Receiving, wire # <<>>, wire[1].type = "CF"
    PROVE  /\ Ahead \in 1..Len(wire) /\ Len(wire) \in Nat /\ DOMAIN wire = 1..Len(wire)
           /\ Live /\ NextOffset = wire[1].offset /\ fcs = <<>>
           /\ wire[1].id = Current /\ wire[1].offset < receive_size
           /\ wire[1].offset \in Nat /\ Current \in Nat
           /\ receive_size = offered[Current]
           /\ receive_size \in 1..RecvBufSize
           /\ Granted \in Nat /\ receive_bs_count \in 1..BlockSize
           /\ Rx!FfData <= receive_offset /\ receive_offset < receive_size
           /\ receive_offset \in Nat
           /\ \/ /\ receive_offset = wire[1].offset /\ IsExact(receive_offset)
                 /\ Ahead + Granted <= receive_bs_count
              \/ /\ receive_offset + CfData <= wire[1].offset
                 /\ Ahead + Granted < receive_bs_count
  <1>1. Ahead > 0
    <2>1. wire \in Seq(Frames) /\ PartsFirst(wire, Ahead) /\ 1 \in DOMAIN wire
      BY DEF IInv, TypeInv, WireInv
    <2> QED
      BY <2>1 DEF PartsFirst
  <1>2. /\ Ahead \in 1..Len(wire) /\ Len(wire) \in Nat /\ DOMAIN wire = 1..Len(wire)
        /\ wire[1].offset \in Nat
    BY <1>1, OnBus
  <1>3. Live /\ NextOffset = wire[1].offset
    BY <1>1 DEF Live, NextOffset
  <1>4. fcs = <<>>
    BY DEF IInv, PhaseInv
  <1>5. wire[1].id = Current
    BY <1>1 DEF IInv, ProgressInv
  <1>6. /\ receive_size = offered[Current] /\ receive_size \in 1..RecvBufSize
        /\ Current \in Nat
    BY DEF IInv, CurrentInv, Receiving, TypeInv
  <1>7. wire[1].offset < receive_size
    <2>1. Carries(wire[1])
      BY <1>2 DEF IInv, WireInv
    <2> QED
      BY <1>5, <1>6, <2>1 DEF Carries
  <1>8. Granted \in Nat /\ receive_offset \in Nat /\ receive_bs_count \in 1..BlockSize
    <2>1. send_bs_remain \in Nat /\ BlockSize \in Nat /\ receive_offset \in Nat
      BY TransferConstants DEF IInv, TypeInv
    <2>2. Granted \in Nat
      BY <2>1 DEF Granted
    <2>3. receive_bs_count \in 0..BlockSize /\ receive_bs_count > 0
      BY DEF IInv, TypeInv, ProgressInv
    <2> QED
      BY <2>1, <2>2, <2>3
  <1>9. /\ Rx!FfData <= receive_offset /\ receive_offset < receive_size
        /\ Ahead + Granted <= receive_bs_count
        /\ \/ receive_offset = wire[1].offset /\ IsExact(receive_offset)
           \/ /\ receive_offset + CfData <= wire[1].offset
              /\ Ahead + Granted < receive_bs_count
    BY <1>3 DEF IInv, ProgressInv
  <1> QED
    BY <1>2, <1>3, <1>4, <1>5, <1>6, <1>7, <1>8, <1>9

(* What is on the bus after it.                                            *)
LEMMA PartGone ==
    ASSUME IInv, Receiving, wire # <<>>, wire[1].type = "CF", wire' = Tail(wire),
           UNCHANGED <<sender, offered>>, Current' = Current,
           fcs' = fcs \/ wire' = <<>>
    PROVE  /\ BusInv' /\ wire' \in Seq(Frames) /\ Ahead' = Ahead - 1
           /\ Ahead' > 0 => wire'[1].id = Current
           /\ Live' => NextOffset' = wire[1].offset + CfData
           /\ \A k \in DOMAIN wire' : wire'[k].type # "CF" => wire'[k].id > Current
           /\ \A k \in DOMAIN wire' : wire'[k].type # "CF" => wire'[k].id > Newest
  <1>0. UNCHANGED <<send_buffer, send_offset, send_status>>
    BY DEF sender
  <1>1. /\ Ahead \in 1..Len(wire) /\ wire[1].id = Current
        /\ DOMAIN wire = 1..Len(wire) /\ Len(wire) \in Nat
    BY PartAtHead
  <1>2. /\ BusInv' /\ wire' \in Seq(Frames) /\ Ahead' = Ahead - 1
        /\ Len(wire') = Len(wire) - 1
        /\ \A k \in 1..(Len(wire) - 1) : wire'[k] = wire[k + 1]
    BY <1>1, HeadGone
  <1>3. \A k \in DOMAIN wire' : k + 1 \in DOMAIN wire /\ wire'[k] = wire[k + 1]
    BY <1>1, <1>2
  <1>4. CASE Ahead = 1
    <2>1. SameMessage' => SameMessage
      BY <1>0 DEF SameMessage, Sending
    <2>2. SameMessage => send_offset = wire[1].offset + CfData
      BY <1>1, <1>4, OnBus
    <2>3. ~(Ahead' > 0)
      BY <1>2, <1>4
    <2>4. Live' => NextOffset' = wire[1].offset + CfData
      BY <1>0, <2>1, <2>2, <2>3 DEF Live, NextOffset
    <2> QED
      BY <1>2, <1>3, <2>3, <2>4 DEF IInv, CurrentInv, Receiving
  <1>5. CASE Ahead > 1
    <2>1. wire'[1] = wire[2] /\ 2 \in DOMAIN wire /\ 1 \in DOMAIN wire
      BY <1>1, <1>2, <1>5
    <2>2. wire[2].type = "CF"
      BY <1>5, <2>1 DEF IInv, WireInv, PartsFirst
    <2>3. wire[2].id = Current
      BY <1>1, <2>1, <2>2 DEF IInv, WireInv, InOrder
    <2>4. wire[2].offset = wire[1].offset + CfData
      BY <1>1, <1>5, OnBus
    <2>5. Ahead' > 0
      BY <1>1, <1>2, <1>5
    <2>6. NextOffset' = wire[1].offset + CfData
      BY <2>1, <2>4, <2>5 DEF NextOffset
    <2> QED
      BY <1>2, <1>3, <2>1, <2>3, <2>6 DEF IInv, CurrentInv, Receiving
  <1> QED
    BY <1>1, <1>4, <1>5

(* The last frame of a block that does not end the message: it is the only *)
(* frame on the bus, it comes to its place, and the sender waits.          *)
LEMMA BlockEnds ==
    ASSUME IInv, Receiving, wire # <<>>, wire[1].type = "CF",
           receive_bs_count = 1, receive_offset + CfData < receive_size
    PROVE  /\ SameMessage /\ send_bs_remain = 0 /\ Tail(wire) = <<>>
           /\ receive_offset = wire[1].offset /\ Ahead = 1
  <1>1. /\ Ahead = 1 /\ Granted = 0 /\ receive_offset = wire[1].offset
        /\ wire[1].id = Current /\ receive_size = offered[Current]
        /\ receive_size \in Nat /\ wire[1].offset \in Nat
        /\ fcs = <<>> /\ DOMAIN wire = 1..Len(wire) /\ Len(wire) \in Nat
    <2>1. Ahead \in Nat /\ Ahead >= 1 /\ Granted \in Nat
      BY PartAtHead
    <2>2. receive_offset = wire[1].offset /\ Ahead + Granted <= 1
      BY <2>1, PartAtHead
    <2> QED
      BY <2>1, <2>2, PartAtHead
  <1>2. SameMessage
    BY <1>1, TransferConstants DEF IInv, LastInv, SameMessage
  <1>3. send_bs_remain = 0
    BY <1>1, <1>2 DEF Granted, IInv, TypeInv
  <1>4. OnlyParts
    <2>1. ~FirstWaits
      <3>1. \A k \in DOMAIN wire : wire[k].type # "CF" => wire[k].id > Current
        BY DEF IInv, CurrentInv, Receiving
      <3>2. Len(wire) \in DOMAIN wire /\ Current \in Nat
        BY <1>1 DEF IInv, CurrentInv, Receiving, TypeInv
      <3>3. wire[Len(wire)].type = "FF" => wire[Len(wire)].id > Current
        BY <3>1, <3>2
      <3> QED
        BY <1>2, <3>2, <3>3 DEF FirstWaits, SameMessage
    <2> QED
      BY <1>2, <2>1 DEF IInv, PhaseInv, SameMessage
  <1>5. Len(wire) = 1
    <2>1. Len(wire) \in DOMAIN wire
      BY <1>1
    <2>2. wire[Len(wire)].type = "CF"
      BY <1>4, <2>1 DEF OnlyParts
    <2>3. Len(wire) <= Ahead
      BY <2>1, <2>2 DEF IInv, WireInv, PartsFirst
    <2> QED
      BY <1>1, <2>1, <2>3
  <1>6. Tail(wire) = <<>>
    <2>1. wire \in Seq(Frames)
      BY DEF IInv, TypeInv
    <2> QED
      BY <1>5, <2>1
  <1> QED
    BY <1>1, <1>2, <1>3, <1>6

(* Its bytes in the receive buffer.                                        *)
LEMMA PartCopied ==
    ASSUME IInv, Receiving, wire # <<>>, wire[1].type = "CF",
           receive_buffer' = Rx!Copied(receive_buffer, receive_offset,
                                       Rx!Remaining, wire[1].id, wire[1].offset),
           receive_offset' = receive_offset + Rx!Remaining,
           UNCHANGED receive_size
    PROVE  /\ receive_buffer' \in [0..(RecvBufSize - 1) -> Nat \X Nat]
           /\ Current' = Current /\ receive_offset' \in Nat
           /\ Rx!FfData <= receive_offset' /\ receive_offset' <= receive_size
           /\ receive_offset' < receive_size =>
                 /\ receive_offset' = receive_offset + CfData
                 /\ receive_offset + CfData < receive_size
           /\ receive_offset = wire[1].offset /\ IsExact(receive_offset)
                 => IsExact(receive_offset)'
           /\ receive_offset # wire[1].offset => receive_offset' < receive_size
  <1> DEFINE n == Rx!Remaining
             from == wire[1].offset
  <1>1. /\ wire[1].id = Current /\ Current \in Nat
        /\ from \in Nat /\ from < receive_size
        /\ receive_offset \in Nat /\ receive_offset < receive_size
        /\ receive_size \in 1..RecvBufSize /\ Rx!FfData <= receive_offset
        /\ receive_offset = from \/ receive_offset + CfData <= from
    BY PartAtHead
  <1>2. Rx!FfData \in Nat \ {0} /\ CfData \in Nat \ {0} /\ RecvBufSize \in Nat
    BY TransferConstants DEF Rx!FfData
  <1>3. /\ n \in Nat \ {0} /\ n <= CfData /\ receive_offset + n <= receive_size
        /\ receive_offset + n < receive_size => n = CfData
        /\ receive_offset + CfData < receive_size => n = CfData
    BY <1>1, <1>2 DEF Rx!Remaining, Rx!Lesser
  <1> HIDE DEF n, from
  <1>4. /\ receive_buffer \in [0..(RecvBufSize - 1) -> Nat \X Nat]
        /\ receive_buffer' = Rx!Copied(receive_buffer, receive_offset, n, Current, from)
        /\ receive_offset' = receive_offset + n
    BY <1>1 DEF n, from, IInv, TypeInv
  <1> DEFINE copied == Rx!Copied(receive_buffer, receive_offset, n, Current, from)
  <1>5. copied \in [0..(RecvBufSize - 1) -> Nat \X Nat]
    <2>1. n \in Nat
      BY <1>3
    <2> QED
      BY <1>1, <1>4, <2>1, CopiedType
  <1>6. \A i \in 0..(RecvBufSize - 1) :
            copied[i] = IF receive_offset <= i /\ i < receive_offset + n
                        THEN <<Current, from + (i - receive_offset)>>
                        ELSE receive_buffer[i]
    BY <1>4 DEF Rx!Copied
  <1>7. receive_buffer' = copied
    BY <1>4
  <1> HIDE DEF copied
  <1>8. Current' = Current
    <2>1. 0 \in 0..(RecvBufSize - 1) /\ ~(receive_offset <= 0)
      BY <1>1, <1>2
    <2>2. copied[0] = receive_buffer[0]
      BY <1>6, <2>1
    <2> QED
      BY <1>7, <2>2 DEF Current, IdOf
  <1>9. ASSUME from = receive_offset, IsExact(receive_offset),
               NEW i \in 0..(receive_offset + n - 1)
        PROVE  copied[i] = <<Current, i>>
    <2>1. i \in 0..(RecvBufSize - 1) /\ i \in Int /\ receive_offset \in Int
      BY <1>1, <1>2, <1>3
    <2>2. CASE i < receive_offset
      <3>1. receive_buffer[i] = <<Current, i>>
        BY <1>1, <1>9, <2>1, <2>2 DEF IsExact
      <3>2. ~(receive_offset <= i)
        BY <2>1, <2>2
      <3>3. copied[i] = receive_buffer[i]
        BY <1>6, <2>1, <3>2
      <3> QED
        BY <3>1, <3>3
    <2>3. CASE receive_offset <= i
      <3>1. i < receive_offset + n /\ receive_offset + (i - receive_offset) = i
        BY <1>1, <1>3, <2>1
      <3>2. copied[i] = <<Current, from + (i - receive_offset)>>
        BY <1>6, <2>1, <2>3, <3>1
      <3> QED
        BY <1>9, <3>1, <3>2
    <2> QED
      BY <2>1, <2>2, <2>3
  <1>10. from = receive_offset /\ IsExact(receive_offset) => IsExact(receive_offset)'
    <2> SUFFICES ASSUME from = receive_offset, IsExact(receive_offset)
                 PROVE  IsExact(receive_offset)'
      OBVIOUS
    <2>1. \A i \in 0..(receive_offset + n - 1) : copied[i] = <<Current, i>>
      BY <1>9
    <2>2. /\ receive_offset' = receive_offset + n
          /\ receive_offset \in Nat /\ n \in Nat
      BY <1>1, <1>3, <1>4
    <2>3. \A i \in 0..(receive_offset' - 1) : receive_buffer'[i] = <<Current', i>>
      BY <1>7, <1>8, <2>1, <2>2
    <2> QED
      BY <2>3 DEF IsExact
  <1>11. from # receive_offset => receive_offset' < receive_size
    BY <1>1, <1>2, <1>3, <1>4
  <1>12. /\ receive_offset' \in Nat /\ Rx!FfData <= receive_offset'
         /\ receive_offset' <= receive_size
         /\ receive_offset' < receive_size =>
               /\ receive_offset' = receive_offset + CfData
               /\ receive_offset + CfData < receive_size
    <2>1. receive_offset + n \in Nat /\ Rx!FfData <= receive_offset + n
      BY <1>1, <1>2, <1>3
    <2> QED
      BY <1>3, <1>4, <2>1
  <1> QED
    BY <1>7, <1>5, <1>8, <1>10, <1>11, <1>12 DEF from

LEMMA ConsecutiveAccepted ==
    ASSUME IInv, Receiving, wire # <<>>, wire[1].type = "CF", wire' = Tail(wire),
           UNCHANGED <<sender, offered, delivered, receive_size>>,
           receive_buffer' = Rx!Copied(receive_buffer, receive_offset,
                                       Rx!Remaining, wire[1].id, wire[1].offset),
           receive_offset' = receive_offset + Rx!Remaining,
           IF receive_offset' >= receive_size
           THEN receive_status' = "FULL" /\ UNCHANGED <<receive_bs_count, fcs>>
           ELSE Rx!CountBlock /\ UNCHANGED receive_status
    PROVE  IInv'
  <1> DEFINE from == wire[1].offset
  <1>0. /\ UNCHANGED <<send_buffer, send_size, send_offset, send_sn, send_st_min,
                       send_bs_remain, send_timer_bs, send_status>>
        /\ UNCHANGED <<Sending, Newest>>
    BY DEF sender, Sending, Newest
  <1>1. /\ receive_buffer' \in [0..(RecvBufSize - 1) -> Nat \X Nat]
        /\ Current' = Current /\ receive_offset' \in Nat
        /\ Rx!FfData <= receive_offset' /\ receive_offset' <= receive_size
        /\ receive_offset' < receive_size =>
              /\ receive_offset' = receive_offset + CfData
              /\ receive_offset + CfData < receive_size
        /\ receive_offset = from /\ IsExact(receive_offset)
              => IsExact(receive_offset)'
        /\ receive_offset # from => receive_offset' < receive_size
    BY PartCopied
  <1>2. /\ Ahead \in Nat \ {0} /\ Granted \in Nat /\ receive_bs_count \in 1..BlockSize
        /\ fcs = <<>> /\ from \in Nat /\ receive_offset \in Nat
        /\ receive_size \in 1..RecvBufSize /\ receive_size = offered[Current]
        /\ \/ /\ receive_offset = from /\ IsExact(receive_offset)
              /\ Ahead + Granted <= receive_bs_count
           \/ /\ receive_offset + CfData <= from
              /\ Ahead + Granted < receive_bs_count
    BY PartAtHead
  <1>3. CfData \in Nat \ {0} /\ BlockSize \in Nat \ {0} /\ RecvBufSize \in Nat
    BY TransferConstants
  <1>4. /\ receive_status = "INPROGRESS"
        /\ Current \in DOMAIN offered /\ Current > Newest
    BY DEF IInv, CurrentInv, Receiving
  <1>5. UNCHANGED SameMessage
    BY <1>0, <1>1 DEF SameMessage
  (* The message is complete. *)
  <1>6. CASE receive_offset' >= receive_size
    <2>1. receive_status' = "FULL" /\ UNCHANGED <<receive_bs_count, fcs>>
          /\ receive_offset' = receive_size
      BY <1>1, <1>2, <1>6
    <2>2. /\ BusInv' /\ wire' \in Seq(Frames)
          /\ \A k \in DOMAIN wire' : wire'[k].type # "CF" => wire'[k].id > Current
          /\ \A k \in DOMAIN wire' : wire'[k].type # "CF" => wire'[k].id > Newest
      BY <1>1, <2>1, PartGone
    <2>3. IsExact(receive_offset)'
      <3>1. receive_offset = from
        BY <1>1, <1>2, <2>1
      <3> QED
        BY <1>1, <1>2, <1>3, <3>1
    <2>4. TypeInv'
      BY <1>0, <1>1, <1>2, <2>1, <2>2 DEF IInv, TypeInv
    <2>5. SenderInv'
      BY <1>0, <1>2, <2>1 DEF IInv, SenderInv
    <2>6. PhaseInv'
      BY <1>0, <1>2, <2>1, <2>2 DEF PhaseInv, BusInv
    <2>7. CurrentInv'
      <3>1. IsExact(receive_size)'
        BY <2>1, <2>3 DEF IsExact
      <3> QED
        BY <1>0, <1>1, <1>2, <1>4, <2>1, <2>2, <3>1 DEF CurrentInv
    <2>8. ProgressInv'
      BY <2>1 DEF ProgressInv, Receiving
    <2> QED
      BY <2>2, <2>4, <2>5, <2>6, <2>7, <2>8 DEF IInv, BusInv
  (* More is to come. *)
  <1>7. CASE receive_offset' < receive_size
    <2>1. /\ receive_status' = receive_status /\ Rx!CountBlock
          /\ receive_offset' = receive_offset + CfData
          /\ receive_offset + CfData < receive_size
      BY <1>1, <1>2, <1>7
    <2>2. CASE receive_bs_count = 1
      <3>1. /\ SameMessage /\ send_bs_remain = 0 /\ wire' = <<>>
            /\ receive_offset = from /\ Ahead = 1
        BY <1>4, <2>1, <2>2, BlockEnds
      <3>2. /\ receive_bs_count' = BlockSize
            /\ fcs' = Append(fcs, Rx!FlowControl("CONTINUE", BlockSize))
        BY <2>1, <2>2 DEF Rx!CountBlock
      <3>3. /\ fcs' \in Seq([fs : {"CONTINUE", "OVERFLOW"}, bs : {0, BlockSize}])
            /\ Len(fcs') = 1 /\ DOMAIN fcs' = {1} /\ fcs' # <<>>
            /\ fcs'[1].bs = BlockSize
        BY <1>2, <3>2, OneAnswer
      <3>4. /\ BusInv' /\ wire' \in Seq(Frames) /\ Ahead' = Ahead - 1
            /\ Live' => NextOffset' = from + CfData
        BY <1>1, <3>1, PartGone
      <3>5. Ahead' = 0 /\ Sending /\ Sending'
        BY <1>0, <3>1, <3>4 DEF SameMessage
      <3>6. TypeInv'
        <4>1. /\ receive_bs_count' \in 0..BlockSize
              /\ receive_status' \in {"IDLE", "INPROGRESS", "FULL"}
          BY <1>3, <1>4, <2>1, <3>2
        <4> QED
          BY <1>0, <1>1, <3>3, <3>4, <4>1 DEF IInv, TypeInv
      <3>7. SenderInv'
        <4>1. send_timer_bs >= 0
          BY <3>5 DEF IInv, SenderInv
        <4> QED
          BY <1>0, <3>1, <3>5, <4>1 DEF IInv, SenderInv
      <3>8. PhaseInv'
        BY <1>0, <3>1, <3>3, <3>4, <3>5 DEF PhaseInv, BusInv
      <3>9. CurrentInv'
        BY <1>0, <1>1, <1>2, <1>4, <2>1, <3>1 DEF CurrentInv
      <3>10. ProgressInv'
        <4>1. Granted' = BlockSize
          BY <1>0, <1>3, <1>5, <3>1, <3>3 DEF Granted
        <4>2. SameMessage' /\ Live' /\ NextOffset' = receive_offset'
          BY <1>5, <2>1, <3>1, <3>4 DEF Live
        <4>3. IsExact(receive_offset)'
          BY <1>1, <1>2, <1>3, <3>1
        <4>4. /\ Rx!FfData <= receive_offset' /\ receive_offset' < receive_size'
              /\ receive_bs_count' = BlockSize /\ BlockSize > 0
          BY <1>1, <1>3, <1>7, <3>2
        <4> QED
          BY <1>3, <3>5, <4>1, <4>2, <4>3, <4>4 DEF ProgressInv
      <3> QED
        BY <3>4, <3>6, <3>7, <3>8, <3>9, <3>10 DEF IInv, BusInv
    <2>3. CASE receive_bs_count # 1
      <3>1. receive_bs_count' = receive_bs_count - 1 /\ UNCHANGED fcs
        BY <1>2, <1>3, <2>1, <2>3 DEF Rx!CountBlock
      <3>2. /\ BusInv' /\ wire' \in Seq(Frames) /\ Ahead' = Ahead - 1
            /\ Ahead' > 0 => wire'[1].id = Current
            /\ Live' => NextOffset' = from + CfData
            /\ \A k \in DOMAIN wire' : wire'[k].type # "CF" => wire'[k].id > Current
            /\ \A k \in DOMAIN wire' : wire'[k].type # "CF" => wire'[k].id > Newest
        BY <1>1, <3>1, PartGone
      <3>3. receive_bs_count' \in 1..BlockSize
        BY <1>2, <1>3, <2>3, <3>1
      <3>4. TypeInv'
        <4>1. /\ receive_bs_count' \in 0..BlockSize
              /\ receive_status' \in {"IDLE", "INPROGRESS", "FULL"}
          BY <1>3, <1>4, <2>1, <3>3
        <4> QED
          BY <1>0, <1>1, <3>1, <3>2, <4>1 DEF IInv, TypeInv
      <3>5. SenderInv'
        BY <1>0, <1>2, <3>1 DEF IInv, SenderInv
      <3>6. PhaseInv'
        BY <1>0, <1>2, <3>1, <3>2 DEF PhaseInv, BusInv
      <3>7. CurrentInv'
        BY <1>0, <1>1, <1>2, <1>4, <2>1, <3>2 DEF CurrentInv
      <3>8. ProgressInv'
        <4>1. UNCHANGED Granted
          BY <1>0, <1>5, <3>1 DEF Granted
        <4>2. /\ Sending' /\ send_bs_remain' > 0 => SameMessage'
              /\ \A k \in DOMAIN fcs' : fcs'[k].fs = "CONTINUE" => SameMessage'
          BY <1>0, <1>2, <1>4, <1>5, <3>1 DEF IInv, ProgressInv, Receiving
        <4>3. CASE /\ receive_offset = from /\ IsExact(receive_offset)
                   /\ Ahead + Granted <= receive_bs_count
          <5>1. IsExact(receive_offset)' /\ receive_offset' = from + CfData
            BY <1>1, <2>1, <4>3
          <5>2. Ahead' + Granted' <= receive_bs_count'
            BY <1>2, <3>1, <3>2, <4>1, <4>3
          <5>3. receive_bs_count' > 0 /\ receive_offset' < receive_size'
            BY <1>3, <1>7, <3>3
          <5> QED
            BY <1>1, <3>2, <4>2, <5>1, <5>2, <5>3 DEF ProgressInv
        <4>4. CASE /\ receive_offset + CfData <= from
                   /\ Ahead + Granted < receive_bs_count
          <5>1. Live' => receive_offset' + CfData <= NextOffset'
            BY <1>2, <1>3, <2>1, <3>2, <4>4
          <5>2. Ahead' + Granted' < receive_bs_count'
                /\ Ahead' + Granted' <= receive_bs_count'
            BY <1>2, <3>1, <3>2, <4>1, <4>4
          <5>3. receive_bs_count' > 0 /\ receive_offset' < receive_size'
            BY <1>3, <1>7, <3>3
          <5> QED
            BY <1>1, <3>2, <4>2, <5>1, <5>2, <5>3 DEF ProgressInv
        <4> QED
          BY <1>2, <4>3, <4>4
      <3> QED
        BY <3>2, <3>4, <3>5, <3>6, <3>7, <3>8 DEF IInv, BusInv
    <2> QED
      BY <2>2, <2>3
  <1> QED
    BY <1>1, <1>2, <1>6, <1>7

LEMMA ReceiveFrameIInv == IInv /\ ReceiveFrame => IInv'
  <1> SUFFICES ASSUME IInv, ReceiveFrame PROVE IInv'
    OBVIOUS
  <1> DEFINE f == wire[1]
  <1>1. /\ wire # <<>> /\ wire' = Tail(wire) /\ Head(wire) = f /\ f \in Frames
        /\ UNCHANGED <<sender, offered, delivered>>
    <2>1. wire # <<>> /\ wire \in Seq(Frames)
      BY DEF ReceiveFrame, IInv, TypeInv
    <2>2. Head(wire) = f /\ f \in Frames
      BY <2>1
    <2> QED
      BY <2>1, <2>2 DEF ReceiveFrame
  <1>2. OnFrame(f)
    BY <1>1 DEF ReceiveFrame
  <1>3. CASE f.type = "SF" /\ Rx!OnSingle(f.id, f.dl, CfData)
    <2>1. UNCHANGED <<receive_offset, receive_bs_count, fcs>>
      BY <1>3 DEF Rx!OnSingle
    <2>2. CASE f.dl = 0 \/ f.dl > CfData
      <3>1. UNCHANGED <<receive_buffer, receive_size, receive_status>>
        BY <1>3, <2>2 DEF Rx!OnSingle
      <3> QED
        BY <1>1, <2>1, <3>1, FrameSkipped
    <2>3. CASE ~(f.dl = 0 \/ f.dl > CfData)
      <3>1. /\ receive_buffer' = Rx!Copied(receive_buffer, 0, f.dl, f.id, 0)
            /\ receive_size' = f.dl /\ receive_status' = "FULL" /\ f.dl # 0
        BY <1>3, <2>3 DEF Rx!OnSingle
      <3> QED
        BY <1>1, <1>3, <2>1, <3>1, SingleAccepted
    <2> QED
      BY <2>2, <2>3
  <1>4. CASE f.type = "FF" /\ Rx!OnFirst(f.id, f.dl, CfData)
    <2>1. CASE Rx!OnFirstIgnored(f.dl, CfData)
      <3>1. UNCHANGED <<receive_buffer, receive_size, receive_offset,
                        receive_bs_count, receive_status, fcs>>
        BY <2>1 DEF Rx!OnFirstIgnored
      <3> QED
        BY <1>1, <3>1, FrameSkipped
    <2>2. CASE Rx!OnFirstRefused(f.dl, CfData)
      <3>1. /\ UNCHANGED <<receive_buffer, receive_size, receive_offset,
                           receive_bs_count>>
            /\ fcs' = Append(fcs, Rx!FlowControl("OVERFLOW", 0))
            /\ receive_status' = "IDLE"
        BY <2>2 DEF Rx!OnFirstRefused
      <3> QED
        BY <1>1, <1>4, <3>1, FirstRefused
    <2>3. CASE Rx!OnFirstAccepted(f.id, f.dl, CfData)
      <3>1. /\ receive_buffer' = Rx!Copied(receive_buffer, 0, Rx!FfData, f.id, 0)
            /\ receive_size' = f.dl /\ receive_offset' = Rx!FfData
            /\ receive_status' = "INPROGRESS" /\ receive_bs_count' = BlockSize
            /\ fcs' = Append(fcs, Rx!FlowControl("CONTINUE", BlockSize))
        BY <2>3 DEF Rx!OnFirstAccepted, Rx!FirstOffset
      <3>2. f.dl \in Int
        BY <1>1, <1>4, FrameTypes
      <3>3. f.dl > CfData /\ f.dl <= RecvBufSize
        BY <2>3, <3>2, TransferConstants
        DEF Rx!OnFirstAccepted, Rx!Misplaced, Rx!TooLarge
      <3> QED
        BY <1>1, <1>4, <3>1, <3>3, FirstAccepted
    <2> QED
      BY <1>4, <2>1, <2>2, <2>3 DEF Rx!OnFirst
  <1>5. CASE f.type = "CF" /\ Rx!OnConsecutive(f.id, f.sn, f.offset, CfData)
    <2>1. CASE \/ Rx!OnConsecutiveUnexpected \/ Rx!OnConsecutiveWrongSn(f.sn)
               \/ Rx!OnConsecutiveShort(f.sn, CfData)
      <3>1. /\ UNCHANGED <<receive_buffer, receive_size, receive_offset,
                           receive_bs_count, fcs>>
            /\ receive_status' \in {receive_status, "IDLE"}
        BY <2>1 DEF Rx!OnConsecutiveUnexpected, Rx!OnConsecutiveWrongSn,
                    Rx!OnConsecutiveShort, Rx!receive_vars
      <3> QED
        BY <1>1, <3>1, FrameSkipped
    <2>2. CASE Rx!OnConsecutiveAccepted(f.id, f.sn, f.offset, CfData)
      <3>1. /\ Receiving /\ UNCHANGED receive_size
            /\ receive_buffer' = Rx!Copied(receive_buffer, receive_offset,
                                           Rx!Remaining, f.id, f.offset)
            /\ receive_offset' = receive_offset + Rx!Remaining
            /\ IF receive_offset' >= receive_size
               THEN receive_status' = "FULL" /\ UNCHANGED <<receive_bs_count, fcs>>
               ELSE Rx!CountBlock /\ UNCHANGED receive_status
        BY <2>2 DEF Rx!OnConsecutiveAccepted, Receiving
      <3> QED
        BY <1>1, <1>5, <3>1, ConsecutiveAccepted
    <2> QED
      BY <1>5, <2>1, <2>2 DEF Rx!OnConsecutive
  <1> QED
    BY <1>2, <1>3, <1>4, <1>5 DEF OnFrame

(* A flow-control frame is lost, or is answered to.  The bus is quiet.     *)
LEMMA AnswerGone ==
    ASSUME IInv, fcs # <<>>, fcs' = Tail(fcs)
    PROVE  /\ fcs' = <<>> /\ wire = <<>> /\ Ahead = 0
           /\ Sending /\ send_bs_remain = 0
           /\ Head(fcs) = fcs[1] /\ 1 \in DOMAIN fcs
           /\ fcs[1].fs \in {"CONTINUE", "OVERFLOW"}
           /\ fcs[1].fs = "CONTINUE" => fcs[1].bs = BlockSize
  <1>1. fcs \in Seq([fs : {"CONTINUE", "OVERFLOW"}, bs : {0, BlockSize}])
    BY DEF IInv, TypeInv
  <1>2. Len(fcs) = 1 /\ wire = <<>> /\ send_bs_remain = 0
    BY DEF IInv, PhaseInv
  <1>3. fcs' = <<>> /\ Head(fcs) = fcs[1] /\ 1 \in DOMAIN fcs
        /\ fcs[1].fs \in {"CONTINUE", "OVERFLOW"}
    <2> DEFINE S == [fs : {"CONTINUE", "OVERFLOW"}, bs : {0, BlockSize}]
    <2>1. fcs \in Seq(S)
      BY <1>1
    <2> HIDE DEF S
    <2>2. fcs' = <<>> /\ Head(fcs) = fcs[1] /\ 1 \in DOMAIN fcs /\ fcs[1] \in S
      BY <1>2, <2>1
    <2> QED
      BY <2>2 DEF S
  <1>4. Sending
    BY DEF IInv, SenderInv
  <1>5. Ahead = 0
    <2>1. wire \in Seq(Frames) /\ PartsFirst(wire, 0)
      BY <1>2 DEF PartsFirst
    <2> QED
      BY <2>1, AheadIs
  <1>6. fcs[1].fs = "CONTINUE" => fcs[1].bs = BlockSize
    BY <1>3 DEF IInv, PhaseInv
  <1> QED
    BY <1>2, <1>3, <1>4, <1>5, <1>6

LEMMA LoseFrameIInv == IInv /\ LoseFrame => IInv'
  <1> SUFFICES ASSUME IInv, LoseFrame PROVE IInv'
    OBVIOUS
  <1>1. /\ UNCHANGED <<sender, receiver, offered, delivered>>
        /\ UNCHANGED <<receive_buffer, receive_size, receive_offset,
                       receive_bs_count, receive_status>>
        /\ UNCHANGED <<send_buffer, send_size, send_offset, send_sn, send_st_min,
                       send_bs_remain, send_timer_bs, send_status>>
        /\ UNCHANGED <<Sending, Receiving, Newest, Current, SameMessage>>
    BY DEF LoseFrame, receiver, sender, Sending, Receiving, Newest, Current,
           SameMessage
  <1>2. CASE wire # <<>> /\ wire' = Tail(wire) /\ UNCHANGED fcs
    <2>1. receive_status' \in {receive_status, "IDLE"}
      BY <1>1
    <2> QED
      BY <1>1, <1>2, <2>1, FrameSkipped
  <1>3. CASE fcs # <<>> /\ fcs' = Tail(fcs) /\ UNCHANGED wire
    <2>1. /\ fcs' = <<>> /\ wire = <<>> /\ Ahead = 0 /\ wire' = <<>>
          /\ Sending /\ send_bs_remain = 0
      BY <1>3, AnswerGone
    <2>2. UNCHANGED Ahead
      BY <1>3 DEF Ahead, UnderWay
    <2>3. TypeInv'
      BY <1>1, <1>3, <2>1 DEF IInv, TypeInv
    <2>4. SenderInv'
      BY <1>1, <2>1 DEF IInv, SenderInv
    <2>5. WireInv' /\ LastInv'
      <3>1. PartsFirst(wire, Ahead)'
        BY <1>3, <2>2 DEF IInv, WireInv, PartsFirst
      <3> QED
        BY <2>1, <2>2, <3>1 DEF WireInv, LastInv
    <2>6. PhaseInv'
      BY <2>1 DEF PhaseInv, OnlyParts
    <2>7. CurrentInv'
      <3>1. IsExact(receive_size)' <=> IsExact(receive_size)
        BY <1>1 DEF IsExact
      <3> QED
        BY <1>1, <1>3, <2>1, <3>1 DEF IInv, CurrentInv
    <2>8. ProgressInv'
      <3> SUFFICES ASSUME Receiving PROVE ProgressInv'
        BY <1>1 DEF ProgressInv
      <3>1. IsExact(receive_offset)' <=> IsExact(receive_offset)
        BY <1>1 DEF IsExact
      <3>2. Granted' = 0 /\ Granted \in {0, BlockSize} /\ BlockSize \in Nat
        BY <1>1, <1>3, <2>1, TransferConstants DEF Granted
      <3>3. Live' = Live /\ NextOffset' = NextOffset
        BY <1>1, <1>3, <2>2 DEF Live, NextOffset
      <3>4. receive_bs_count \in Nat
        BY DEF IInv, TypeInv
      <3>5. /\ Rx!FfData <= receive_offset /\ receive_offset < receive_size
            /\ receive_bs_count > 0
            /\ Live => Ahead + Granted <= receive_bs_count
            /\ Live => \/ receive_offset = NextOffset /\ IsExact(receive_offset)
                       \/ /\ receive_offset + CfData <= NextOffset
                          /\ Ahead + Granted < receive_bs_count
        BY DEF IInv, ProgressInv
      <3>6. /\ Ahead + Granted <= receive_bs_count
                  => Ahead' + Granted' <= receive_bs_count'
            /\ Ahead + Granted < receive_bs_count
                  => Ahead' + Granted' < receive_bs_count'
        <4>1. Ahead = 0 /\ Ahead' = 0 /\ receive_bs_count' = receive_bs_count
          BY <1>1, <2>1, <2>2
        <4> QED
          BY <3>2, <3>4, <4>1
      <3>7. /\ Live' => Ahead' + Granted' <= receive_bs_count'
            /\ Live' => \/ receive_offset' = NextOffset' /\ IsExact(receive_offset)'
                        \/ /\ receive_offset' + CfData <= NextOffset'
                           /\ Ahead' + Granted' < receive_bs_count'
        BY <1>1, <3>1, <3>3, <3>5, <3>6
      <3>8. send_bs_remain' = 0 /\ ~(Ahead' > 0) /\ DOMAIN fcs' = {}
        BY <1>1, <2>1, <2>2
      <3> QED
        BY <1>1, <3>5, <3>7, <3>8 DEF ProgressInv
    <2> QED
      BY <2>3, <2>4, <2>5, <2>6, <2>7, <2>8 DEF IInv
  <1> QED
    BY <1>2, <1>3 DEF LoseFrame

-----------------------------------------------------------------------------
(* isotp_send puts a single or a first frame behind what is on the bus.    *)
LEMMA FrameOffered ==
    ASSUME IInv, ~Sending, NEW size \in Sizes, NEW f \in Frames,
           Len(offered) < MaxMessages, offered' = Append(offered, size),
           f.id = Len(offered) + 1, wire' = Append(wire, f),
           \/ f.type = "SF" /\ f.dl = size /\ size <= CfData
           \/ f.type = "FF" /\ f.dl = size % FfDlMod,
           UNCHANGED <<receiver, fcs, delivered>>,
           send_buffer' = Len(offered) + 1, Sending' => send_bs_remain' = 0
    PROVE  /\ WireInv' /\ LastInv' /\ CurrentInv' /\ ProgressInv'
           /\ wire' \in Seq(Frames) /\ Len(wire') = Len(wire) + 1 /\ Len(wire) \in Nat
           /\ wire'[Len(wire) + 1] = f
           /\ \A k \in 1..Len(wire) : wire'[k] = wire[k] /\ wire[k].type # "FF"
           /\ offered' \in Seq(Sizes) /\ Len(offered') = Len(offered) + 1
           /\ Len(offered) \in Nat /\ offered'[Len(offered) + 1] = size
           /\ fcs = <<>> /\ fcs' = <<>> /\ Newest' = Newest
  <1>0. /\ UNCHANGED <<receive_buffer, receive_size, receive_offset,
                       receive_bs_count, receive_status>>
        /\ UNCHANGED <<Receiving, Newest, Current>>
    BY DEF receiver, Receiving, Newest, Current
  <1>1. /\ wire' \in Seq(Frames) /\ Len(wire') = Len(wire) + 1 /\ Len(wire) \in Nat
        /\ wire'[Len(wire) + 1] = f /\ \A k \in 1..Len(wire) : wire'[k] = wire[k]
        /\ DOMAIN wire = 1..Len(wire) /\ DOMAIN wire' = 1..(Len(wire) + 1)
    <2>1. wire \in Seq(Frames)
      BY DEF IInv, TypeInv
    <2>2. /\ wire' \in Seq(Frames) /\ Len(wire') = Len(wire) + 1 /\ Len(wire) \in Nat
          /\ wire'[Len(wire) + 1] = f /\ \A k \in 1..Len(wire) : wire'[k] = wire[k]
      BY <2>1, AppendOf
    <2> QED
      BY <2>1, <2>2
  <1>2. /\ offered' \in Seq(Sizes) /\ Len(offered') = Len(offered) + 1
        /\ Len(offered) \in Nat /\ offered'[Len(offered) + 1] = size
        /\ \A k \in 1..Len(offered) : offered'[k] = offered[k]
        /\ DOMAIN offered = 1..Len(offered)
        /\ DOMAIN offered' = 1..(Len(offered) + 1)
    <2>1. offered \in Seq(Sizes)
      BY DEF IInv, TypeInv
    <2>2. /\ offered' \in Seq(Sizes) /\ Len(offered') = Len(offered) + 1
          /\ Len(offered) \in Nat /\ offered'[Len(offered) + 1] = size
          /\ \A k \in 1..Len(offered) : offered'[k] = offered[k]
      BY <2>1, AppendOf
    <2> QED
      BY <2>1, <2>2
  <1>3. Ahead \in 0..Len(wire) /\ Ahead' = Ahead /\ PartsFirst(wire', Ahead)
    <2>1. wire \in Seq(Frames) /\ PartsFirst(wire, Ahead)
      BY DEF IInv, TypeInv, WireInv
    <2>2. PartsFirst(wire', Ahead)
      BY <2>1, PartsOfAppend
    <2>3. Ahead' = Ahead
      BY <1>1, <2>2, PartsCount DEF Ahead, UnderWay
    <2> QED
      BY <2>1, <2>2, <2>3 DEF PartsFirst
  <1>4. fcs = <<>> /\ \A k \in DOMAIN wire : wire[k].type # "FF"
    BY DEF IInv, SenderInv, PhaseInv
  <1>5. \A k \in 1..Len(wire) : /\ wire[k].id \in 1..Len(offered)
                                /\ Carries(wire[k])
    BY <1>1, <1>2 DEF IInv, WireInv, Carries
  <1>6. WireInv'
    <2>1. (\A k \in DOMAIN wire : Carries(wire[k]))'
      <3> SUFFICES ASSUME NEW k \in 1..(Len(wire) + 1)
                   PROVE  /\ wire'[k].id \in DOMAIN offered'
                          /\ wire'[k].type = "SF" =>
                                /\ wire'[k].dl = offered'[wire'[k].id]
                                /\ wire'[k].dl <= CfData
                          /\ wire'[k].type = "FF" =>
                                wire'[k].dl = offered'[wire'[k].id] % FfDlMod
                          /\ wire'[k].type = "CF" =>
                                wire'[k].offset < offered'[wire'[k].id]
        BY <1>1 DEF Carries
      <3>1. CASE k \in 1..Len(wire)
        BY <1>1, <1>2, <1>5, <3>1 DEF Carries
      <3>2. CASE k = Len(wire) + 1
        BY <1>1, <1>2, <3>2
      <3> QED
        BY <1>1, <3>1, <3>2
    <2>2. ASSUME NEW j \in DOMAIN wire', NEW k \in DOMAIN wire', j < k
          PROVE  InOrder(wire'[j], wire'[k])
      <3>1. j \in 1..Len(wire)
        BY <1>1, <2>2
      <3>2. CASE k \in 1..Len(wire)
        BY <1>1, <2>2, <3>1, <3>2 DEF IInv, WireInv
      <3>3. CASE k = Len(wire) + 1
        <4>1. wire'[k] = f /\ wire'[j] = wire[j] /\ wire[j].id \in 1..Len(offered)
          BY <1>1, <1>5, <3>1, <3>3
        <4> QED
          BY <1>2, <4>1 DEF InOrder
      <3> QED
        BY <1>1, <3>2, <3>3
    <2>3. \A k \in 1..(Ahead' - 1) : wire'[k + 1].offset = wire'[k].offset + CfData
      BY <1>1, <1>3 DEF IInv, WireInv
    <2> QED
      BY <1>3, <2>1, <2>2, <2>3 DEF WireInv
  <1>7. LastInv'
    <2> SUFFICES ASSUME Ahead > 0
                 PROVE  /\ send_buffer' # wire'[Ahead].id
                        /\ wire'[Ahead].offset + CfData >= offered'[wire'[Ahead].id]
      BY <1>3 DEF LastInv
    <2>1. Ahead \in 1..Len(wire)
      BY <1>1, <1>3
    <2>2. wire'[Ahead] = wire[Ahead] /\ wire[Ahead].id \in 1..Len(offered)
      BY <1>1, <1>5, <2>1
    <2>3. wire[Ahead].offset + CfData >= offered[wire[Ahead].id]
      BY DEF IInv, LastInv
    <2> QED
      BY <1>2, <2>2, <2>3
  <1>8. Newest <= Len(offered) /\ Newest \in Nat
    BY DEF IInv, TypeInv
  <1>9. ASSUME NEW k \in DOMAIN wire', wire'[k].type # "CF"
        PROVE  /\ receive_status # "IDLE" => wire'[k].id > Current
               /\ wire'[k].id > Newest
    <2>1. receive_status # "IDLE" => Current \in 1..Len(offered)
      BY <1>2 DEF IInv, CurrentInv
    <2>2. CASE k \in 1..Len(wire)
      BY <1>1, <1>9, <2>2 DEF IInv, CurrentInv
    <2>3. CASE k = Len(wire) + 1
      BY <1>1, <1>2, <1>8, <2>1, <2>3
    <2> QED
      BY <1>1, <2>2, <2>3
  <1>10. receive_status # "IDLE" =>
            /\ Current \in 1..Len(offered) /\ Current > Newest
            /\ receive_size = offered[Current] /\ receive_size \in 1..RecvBufSize
    BY <1>2 DEF IInv, CurrentInv
  <1>11. CurrentInv'
    <2>1. receive_status = "FULL" => IsExact(receive_size)'
      BY <1>0 DEF IInv, CurrentInv, IsExact
    <2>2. receive_status # "IDLE" =>
              Current \in DOMAIN offered' /\ receive_size = offered'[Current]
      BY <1>2, <1>10
    <2> QED
      BY <1>0, <1>9, <1>10, <2>1, <2>2 DEF CurrentInv
  <1>12. ProgressInv'
    <2> SUFFICES ASSUME Receiving PROVE ProgressInv'
      BY <1>0 DEF ProgressInv
    <2>1. Current \in 1..Len(offered)
      BY <1>10 DEF Receiving
    <2>2. ~SameMessage /\ ~SameMessage'
      BY <1>0, <1>2, <2>1 DEF SameMessage
    <2>3. Granted = 0 /\ Granted' = 0
      BY <2>2 DEF Granted
    <2>4. Ahead > 0 => wire'[1] = wire[1]
      BY <1>1, <1>3
    <2>5. Live' = Live /\ (Live => NextOffset' = NextOffset)
      BY <1>3, <2>2, <2>4 DEF Live, NextOffset
    <2>6. IsExact(receive_offset)' = IsExact(receive_offset)
      BY <1>0 DEF IsExact
    <2>7. Ahead' + Granted' = Ahead + Granted
      BY <1>3, <2>3
    <2> QED
      BY <1>0, <1>3, <1>4, <2>4, <2>5, <2>6, <2>7 DEF IInv, ProgressInv
  <1> QED
    BY <1>0, <1>1, <1>2, <1>4, <1>6, <1>7, <1>11, <1>12

LEMMA OfferIInv ==
    ASSUME IInv, NEW size \in Sizes, Offer(size)
    PROVE  IInv'
  <1> DEFINE id == Len(offered) + 1
  <1>1. /\ Len(offered) < MaxMessages /\ offered' = Append(offered, size)
        /\ UNCHANGED <<receiver, fcs, delivered>>
        /\ UNCHANGED <<receive_buffer, receive_size, receive_offset,
                       receive_bs_count, receive_status>>
        /\ size \in Nat /\ MaxMessages \in Nat /\ CfData \in Nat
        /\ Tx!IsotpSend(id, size)
    BY TransferConstants DEF Offer, receiver
  <1>2. ~Sending /\ Len(offered) \in Nat /\ id \in Nat
    <2>1. ~Sending
      BY <1>1 DEF Tx!IsotpSend, Tx!IsotpSendSingle, Tx!IsotpSendMulti, Tx!Accepts,
                  Sending
    <2>2. Len(offered) \in Nat
      BY DEF IInv, TypeInv
    <2> QED
      BY <2>1, <2>2
  <1>3. CASE Tx!IsotpSendSingle(id, size)
    <2> DEFINE f == Tx!SingleFrame(id, size)
    <2>1. /\ f \in Frames /\ f.id = id /\ f.type = "SF" /\ f.dl = size
      BY <1>1, <1>2 DEF Tx!SingleFrame, Frames
    <2>2. /\ wire' = Append(wire, f) /\ size <= CfData
          /\ send_buffer' = id /\ send_size' = size /\ send_offset' = 0
          /\ UNCHANGED <<send_sn, send_bs_remain, send_st_min, send_timer_bs,
                         send_status>>
      BY <1>3 DEF Tx!IsotpSendSingle
    <2> HIDE DEF f
    <2>3. ~Sending'
      BY <1>2, <2>2 DEF Sending
    <2>4. /\ WireInv' /\ LastInv' /\ CurrentInv' /\ ProgressInv'
          /\ wire' \in Seq(Frames) /\ Len(wire') = Len(wire) + 1 /\ Len(wire) \in Nat
          /\ wire'[Len(wire) + 1] = f
          /\ \A k \in 1..Len(wire) : wire'[k] = wire[k] /\ wire[k].type # "FF"
          /\ offered' \in Seq(Sizes) /\ Len(offered') = Len(offered) + 1
          /\ Len(offered) \in Nat
          /\ fcs = <<>> /\ fcs' = <<>> /\ Newest' = Newest
      BY <1>1, <1>2, <2>1, <2>2, <2>3, FrameOffered
    <2>5. TypeInv'
      BY <1>1, <1>2, <2>2, <2>4 DEF IInv, TypeInv
    <2>6. SenderInv'
      BY <2>3, <2>4 DEF SenderInv
    <2>7. PhaseInv'
      <3>1. \A k \in DOMAIN wire' : wire'[k].type # "FF"
        BY <2>1, <2>4
      <3> QED
        BY <2>3, <2>4, <3>1 DEF PhaseInv
    <2> QED
      BY <2>4, <2>5, <2>6, <2>7 DEF IInv
  <1>4. CASE Tx!IsotpSendMulti(id, size)
    <2> DEFINE f == Tx!FirstFrame(id, size)
    <2>1. f \in Frames /\ f.id = id /\ f.type = "FF" /\ f.dl = size % FfDlMod
      <3>1. size % FfDlMod \in Nat
        BY <1>1, TransferConstants
      <3> QED
        BY <1>2, <3>1 DEF Tx!FirstFrame, Frames
    <2>2. /\ wire' = Append(wire, f) /\ size > CfData
          /\ send_buffer' = id /\ send_size' = size /\ send_offset' = Tx!FfData
          /\ send_sn' = 1 /\ send_bs_remain' = 0 /\ send_st_min' = 0
          /\ send_timer_bs' = Timeout /\ send_status' = "INPROGRESS"
      BY <1>4 DEF Tx!IsotpSendMulti, Tx!StartBlock
    <2> HIDE DEF f
    <2>3. Sending'
      BY <2>2 DEF Sending
    <2>4. /\ WireInv' /\ LastInv' /\ CurrentInv' /\ ProgressInv'
          /\ wire' \in Seq(Frames) /\ Len(wire') = Len(wire) + 1 /\ Len(wire) \in Nat
          /\ wire'[Len(wire) + 1] = f
          /\ \A k \in 1..Len(wire) : wire'[k] = wire[k] /\ wire[k].type # "FF"
          /\ offered' \in Seq(Sizes) /\ Len(offered') = Len(offered) + 1
          /\ Len(offered) \in Nat /\ offered'[Len(offered) + 1] = size
          /\ fcs = <<>> /\ fcs' = <<>> /\ Newest' = Newest
      BY <1>1, <1>2, <2>1, <2>2, FrameOffered
    <2>5. Tx!FfData \in Nat /\ Tx!FfData < size /\ Timeout \in Nat /\ Timeout >= 0
      BY <1>1, <2>2, TransferConstants DEF Tx!FfData
    <2>6. TypeInv'
      <3>1. send_bs_remain' \in 0..BlockSize
        BY <2>2, TransferConstants
      <3> QED
        BY <1>1, <1>2, <2>2, <2>4, <2>5, <3>1 DEF IInv, TypeInv
    <2>7. SenderInv'
      BY <1>2, <2>2, <2>3, <2>4, <2>5 DEF SenderInv
    <2>8. PhaseInv'
      <3>1. FirstWaits'
        <4>1. wire' # <<>> /\ wire'[Len(wire')] = f
          BY <2>4
        <4> QED
          BY <2>1, <2>2, <2>4, <4>1 DEF FirstWaits
      <3>2. \A k \in DOMAIN wire' : wire'[k].type = "FF" => k = Len(wire')
        BY <2>4
      <3> QED
        BY <2>3, <2>4, <3>1, <3>2 DEF PhaseInv
    <2> QED
      BY <2>4, <2>6, <2>7, <2>8 DEF IInv
  <1> QED
    BY <1>1, <1>3, <1>4 DEF Tx!IsotpSend

(* The sender goes on with a block it was granted: only frames of its      *)
(* message are on the bus, each at the place after the one before.         *)
LEMMA PartsOnly ==
    ASSUME IInv, Sending, send_bs_remain > 0
    PROVE  /\ OnlyParts /\ fcs = <<>> /\ Ahead = Len(wire) /\ Len(wire) \in Nat
           /\ Len(wire) > 0 => send_offset = wire[Len(wire)].offset + CfData
  <1>1. OnlyParts /\ fcs = <<>>
    BY DEF IInv, PhaseInv, FirstWaits, TypeInv
  <1>2. /\ Ahead \in 0..Len(wire) /\ Len(wire) \in Nat /\ DOMAIN wire = 1..Len(wire)
        /\ \A k \in DOMAIN wire : wire[k].type = "CF" <=> k <= Ahead
    BY DEF IInv, TypeInv, WireInv, PartsFirst
  <1>3. Ahead = Len(wire)
    <2>1. CASE Len(wire) = 0
      BY <1>2, <2>1
    <2>2. CASE Len(wire) # 0
      <3>1. Len(wire) \in DOMAIN wire
        BY <1>2, <2>2
      <3>2. wire[Len(wire)].type = "CF"
        BY <1>1, <3>1 DEF OnlyParts
      <3>3. Len(wire) <= Ahead
        BY <1>2, <3>1, <3>2
      <3>4. Ahead \in Int /\ Ahead <= Len(wire) /\ Len(wire) \in Int
        BY <1>2
      <3> QED
        BY <3>3, <3>4
    <2> QED
      BY <2>1, <2>2
  <1>4. Len(wire) > 0 => send_offset = wire[Len(wire)].offset + CfData
    <2>1. Len(wire) > 0 => wire[Len(wire)].id = send_buffer
      BY <1>1, <1>2 DEF OnlyParts
    <2> QED
      BY <1>3, <2>1 DEF IInv, LastInv
  <1> QED
    BY <1>1, <1>2, <1>3, <1>4

LEMMA PollConsecutiveIInv ==
    ASSUME IInv, Tx!PollConsecutive, UNCHANGED <<receiver, fcs, offered, delivered>>
    PROVE  IInv'
  <1> DEFINE f == Tx!ConsecutiveFrame(send_buffer, send_sn, send_offset)
             next == send_offset + Tx!Lesser(CfData, send_size - send_offset)
  <1>0. /\ UNCHANGED <<receive_buffer, receive_size, receive_offset,
                       receive_bs_count, receive_status>>
        /\ UNCHANGED <<Receiving, Newest, Current>>
    BY DEF receiver, Receiving, Newest, Current
  <1>1. /\ Sending /\ send_bs_remain \in 1..BlockSize /\ send_offset \in Nat
        /\ send_size \in Nat /\ send_size = offered[send_buffer]
        /\ send_buffer = Len(offered) /\ send_buffer \in DOMAIN offered
        /\ Tx!FfData <= send_offset /\ send_offset < send_size
        /\ send_size > CfData /\ send_st_min = 0
        /\ send_buffer \in Nat /\ send_sn \in Nat
    <2>1. Sending /\ (send_bs_remain = Tx!InvalidBs \/ send_bs_remain > 0)
      BY DEF Tx!PollConsecutive, Tx!MaySendCf, Sending
    <2>2. send_bs_remain \in 0..BlockSize /\ BlockSize \in 1..255
          /\ Tx!InvalidBs = 65535
      BY TransferConstants DEF IInv, TypeInv, Tx!InvalidBs
    <2>3. send_bs_remain \in 1..BlockSize
      BY <2>1, <2>2
    <2>4. send_buffer = Len(offered) /\ send_buffer \in DOMAIN offered
      BY <2>1 DEF IInv, SenderInv, TypeInv
    <2> QED
      BY <2>1, <2>3, <2>4 DEF IInv, SenderInv, TypeInv
  <1>2. CfData \in Nat \ {0} /\ Tx!FfData \in Nat /\ BlockSize \in 1..255
        /\ Timeout \in Nat
    BY TransferConstants DEF Tx!FfData
  <1>3. /\ f \in Frames /\ f.type = "CF" /\ f.id = send_buffer
        /\ f.offset = send_offset
    BY <1>1 DEF Tx!ConsecutiveFrame, Frames
  <1>4. /\ next \in Nat /\ send_offset <= next /\ next <= send_size
        /\ next < send_size => next = send_offset + CfData
        /\ next >= send_size => send_offset + CfData >= send_size
    BY <1>1, <1>2 DEF Tx!Lesser
  <1>5. /\ wire' = Append(wire, f) /\ send_offset' = next
        /\ send_sn' \in Nat /\ send_timer_bs' = Timeout
        /\ send_bs_remain' = send_bs_remain - 1
        /\ send_status' = IF next >= send_size THEN "IDLE" ELSE "INPROGRESS"
        /\ UNCHANGED <<send_buffer, send_size, send_st_min>>
    <2>1. send_bs_remain # Tx!InvalidBs
      BY <1>1, <1>2 DEF Tx!InvalidBs
    <2>2. Tx!NextSn(send_sn) \in Nat
      BY <1>1 DEF Tx!NextSn
    <2> QED
      BY <1>1, <2>1, <2>2
      DEF Tx!PollConsecutive, Tx!UseBlock, Tx!AfterCf, Sending
  <1> HIDE DEF f, next
  <1>6. /\ OnlyParts /\ fcs = <<>> /\ Ahead = Len(wire) /\ Len(wire) \in Nat
        /\ Len(wire) > 0 => send_offset = wire[Len(wire)].offset + CfData
    BY <1>1, PartsOnly
  <1>7. /\ wire' \in Seq(Frames) /\ Len(wire') = Len(wire) + 1
        /\ wire'[Len(wire) + 1] = f /\ \A k \in 1..Len(wire) : wire'[k] = wire[k]
        /\ DOMAIN wire = 1..Len(wire) /\ DOMAIN wire' = 1..(Len(wire) + 1)
    <2>1. wire \in Seq(Frames)
      BY DEF IInv, TypeInv
    <2>2. /\ wire' \in Seq(Frames) /\ Len(wire') = Len(wire) + 1
          /\ wire'[Len(wire) + 1] = f /\ \A k \in 1..Len(wire) : wire'[k] = wire[k]
      BY <1>3, <1>5, <2>1, AppendOf
    <2> QED
      BY <2>1, <2>2
  <1>8. PartsFirst(wire', Ahead + 1) /\ Ahead' = Ahead + 1
    <2>1. wire \in Seq(Frames) /\ PartsFirst(wire, Ahead)
      BY DEF IInv, TypeInv, WireInv
    <2>2. PartsFirst(wire', Ahead + 1)
      BY <1>3, <1>5, <1>6, <2>1, PartsOfAppend
    <2>3. Ahead' = Ahead + 1
      BY <1>7, <2>2, PartsCount DEF Ahead, UnderWay
    <2> QED
      BY <2>2, <2>3
  <1>9. \A k \in DOMAIN wire' : wire'[k].type = "CF" /\ wire'[k].id = send_buffer
    <2>1. \A k \in 1..Len(wire) :
              wire'[k].type = "CF" /\ wire'[k].id = send_buffer
      BY <1>6, <1>7 DEF OnlyParts
    <2>2. \A k \in DOMAIN wire' : k \in 1..Len(wire) \/ k = Len(wire) + 1
      BY <1>6, <1>7
    <2> QED
      BY <1>3, <1>7, <2>1, <2>2
  <1>10. WireInv'
    <2>1. (\A k \in DOMAIN wire : Carries(wire[k]))'
      <3> SUFFICES ASSUME NEW k \in 1..(Len(wire) + 1)
                   PROVE  wire'[k].offset < offered[send_buffer]
        BY <1>1, <1>7, <1>9 DEF Carries
      <3>1. CASE k \in 1..Len(wire)
        BY <1>6, <1>7, <3>1 DEF IInv, WireInv, Carries, OnlyParts
      <3>2. CASE k = Len(wire) + 1
        BY <1>1, <1>3, <1>7, <3>2
      <3> QED
        BY <1>6, <3>1, <3>2
    <2>2. \A j, k \in DOMAIN wire' : j < k => InOrder(wire'[j], wire'[k])
      BY <1>9 DEF InOrder
    <2>3. ASSUME NEW k \in 1..Len(wire)
          PROVE  wire'[k + 1].offset = wire'[k].offset + CfData
      <3>1. CASE k = Len(wire)
        BY <1>3, <1>6, <1>7, <3>1
      <3>2. CASE k # Len(wire)
        <4>1. k \in 1..(Ahead - 1) /\ k + 1 \in 1..Len(wire)
          BY <1>6, <3>2
        <4>2. wire[k + 1].offset = wire[k].offset + CfData
          BY <4>1 DEF IInv, WireInv
        <4> QED
          BY <1>7, <4>1, <4>2
      <3> QED
        BY <3>1, <3>2
    <2>4. 1..(Ahead' - 1) = 1..Len(wire)
      BY <1>6, <1>8
    <2> QED
      BY <1>8, <2>1, <2>2, <2>3, <2>4 DEF WireInv
  <1>11. LastInv'
    <2>1. wire'[Ahead'] = f
      BY <1>6, <1>7, <1>8
    <2> QED
      BY <1>1, <1>3, <1>4, <1>5, <2>1 DEF LastInv, Sending
  <1>12. TypeInv'
    <2>1. send_bs_remain' \in 0..BlockSize
      BY <1>1, <1>2, <1>5
    <2> QED
      BY <1>0, <1>2, <1>4, <1>5, <1>7, <2>1 DEF IInv, TypeInv
  <1>13. SenderInv'
    <2>1. Sending' => next < send_size
      BY <1>1, <1>4, <1>5 DEF Sending
    <2>2. Tx!FfData <= next
      BY <1>1, <1>2, <1>4
    <2>3. Timeout >= 0
      BY <1>2
    <2> QED
      BY <1>1, <1>5, <1>6, <2>1, <2>2, <2>3 DEF IInv, SenderInv
  <1>14. PhaseInv'
    <2>1. OnlyParts'
      BY <1>5, <1>9 DEF OnlyParts
    <2> QED
      BY <1>6, <1>9, <2>1 DEF PhaseInv
  <1>15. CurrentInv'
    <2>1. IsExact(receive_size)' <=> IsExact(receive_size)
      BY <1>0 DEF IsExact
    <2> QED
      BY <1>0, <1>9, <2>1 DEF IInv, CurrentInv
  <1>16. ProgressInv'
    <2> SUFFICES ASSUME Receiving PROVE ProgressInv'
      BY <1>0 DEF ProgressInv
    <2>1. SameMessage /\ Live
      BY <1>1 DEF IInv, ProgressInv, Live
    <2>2. Granted = send_bs_remain
      BY <1>1, <1>6, <2>1 DEF Granted
    <2>3. Granted' \in {0, send_bs_remain - 1}
      BY <1>1, <1>5, <1>6 DEF Granted
    <2>4. wire'[1].id = Current
      <3>1. 1 \in DOMAIN wire'
        BY <1>6, <1>7
      <3> QED
        BY <1>9, <2>1, <3>1 DEF SameMessage
    <2>5. NextOffset' = NextOffset
      <3>1. NextOffset' = wire'[1].offset
        BY <1>6, <1>8 DEF NextOffset
      <3>2. CASE Ahead > 0
        BY <1>6, <1>7, <3>1, <3>2 DEF NextOffset
      <3>3. CASE Ahead = 0
        BY <1>3, <1>6, <1>7, <3>1, <3>3 DEF NextOffset
      <3> QED
        BY <1>6, <3>2, <3>3
    <2>6. IsExact(receive_offset)' = IsExact(receive_offset)
      BY <1>0 DEF IsExact
    <2>7. receive_bs_count \in Nat /\ receive_bs_count > 0
          /\ Rx!FfData <= receive_offset /\ receive_offset < receive_size
          /\ Ahead + send_bs_remain <= receive_bs_count
          /\ \/ receive_offset = NextOffset /\ IsExact(receive_offset)
             \/ /\ receive_offset + CfData <= NextOffset
                /\ Ahead + send_bs_remain < receive_bs_count
      BY <2>1, <2>2 DEF IInv, ProgressInv, TypeInv
    <2>8. Ahead' + Granted' <= Ahead + send_bs_remain
      BY <1>1, <1>6, <1>8, <2>3
    <2>9. Ahead' + Granted' \in Int /\ Ahead + send_bs_remain \in Int
      BY <1>1, <1>6, <1>8, <2>3
    <2>10. /\ Ahead' + Granted' <= receive_bs_count
           /\ Ahead + send_bs_remain < receive_bs_count
                 => Ahead' + Granted' < receive_bs_count
      BY <2>7, <2>8, <2>9
    <2>11. Sending' => SameMessage'
      BY <1>0, <1>5, <2>1 DEF SameMessage
    <2> QED
      BY <1>0, <1>6, <2>4, <2>5, <2>6, <2>7, <2>10, <2>11 DEF ProgressInv
  <1> QED
    BY <1>10, <1>11, <1>12, <1>13, <1>14, <1>15, <1>16 DEF IInv

(* The sender gives up.  What its message lacks will not come any more.    *)
LEMMA SenderStops ==
    ASSUME IInv, wire = <<>>, wire' = <<>>, fcs' = <<>>, send_status' = "ERROR",
           send_timer_bs' \in Int,
           UNCHANGED <<send_buffer, send_size, send_offset, send_sn,
                       send_bs_remain, send_st_min, receiver, offered, delivered>>
    PROVE  IInv'
  <1>0. /\ UNCHANGED <<receive_buffer, receive_size, receive_offset,
                       receive_bs_count, receive_status>>
        /\ UNCHANGED <<Receiving, Newest, Current>>
    BY DEF receiver, Receiving, Newest, Current
  <1>1. ~Sending' /\ ~SameMessage'
    BY DEF Sending, SameMessage
  <1>2. PartsFirst(wire', 0) /\ wire' \in Seq(Frames) /\ DOMAIN wire' = {}
    BY DEF PartsFirst
  <1>3. Ahead' = 0
    BY <1>2, PartsCount DEF Ahead, UnderWay
  <1>4. TypeInv'
    BY <1>0, <1>2 DEF IInv, TypeInv
  <1>5. SenderInv' /\ PhaseInv' /\ WireInv' /\ LastInv'
    BY <1>1, <1>2, <1>3 DEF SenderInv, PhaseInv, WireInv, LastInv
  <1>6. CurrentInv'
    <2>1. IsExact(receive_size)' <=> IsExact(receive_size)
      BY <1>0 DEF IsExact
    <2> QED
      BY <1>0, <1>2, <2>1 DEF IInv, CurrentInv
  <1>7. ProgressInv'
    <2>1. ~Live'
      BY <1>1, <1>3 DEF Live
    <2> QED
      BY <1>0, <1>1, <1>3, <2>1 DEF IInv, ProgressInv
  <1> QED
    BY <1>4, <1>5, <1>6, <1>7 DEF IInv

LEMMA SenderPollIInv == IInv /\ SenderPoll => IInv'
  <1> SUFFICES ASSUME IInv, SenderPoll PROVE IInv'
    OBVIOUS
  <1>1. UNCHANGED <<receiver, fcs, offered, delivered>>
    BY DEF SenderPoll
  <1>2. CASE Tx!PollConsecutive
    BY <1>1, <1>2, PollConsecutiveIInv
  <1>3. CASE Tx!PollTimeoutBs
    <2>1. /\ Sending /\ send_timer_bs < 0 /\ send_status' = "ERROR"
          /\ UNCHANGED <<send_buffer, send_size, send_offset, send_sn,
                         send_bs_remain, send_st_min, send_timer_bs, wire>>
      BY <1>3 DEF Tx!PollTimeoutBs, Tx!Expired, Sending
    <2>2. send_timer_bs \in Int
      BY DEF IInv, TypeInv
    <2>3. wire = <<>> /\ fcs = <<>>
      BY <2>1, <2>2 DEF IInv, SenderInv
    <2> QED
      BY <1>1, <2>1, <2>2, <2>3, SenderStops
  <1> QED
    BY <1>2, <1>3 DEF SenderPoll, Tx!PollSend

LEMMA ReceiveFlowControlIInv == IInv /\ ReceiveFlowControl => IInv'
  <1> SUFFICES ASSUME IInv, ReceiveFlowControl PROVE IInv'
    OBVIOUS
  <1>1. /\ UNCHANGED <<receiver, offered, delivered>>
        /\ UNCHANGED <<receive_buffer, receive_size, receive_offset,
                       receive_bs_count, receive_status>>
        /\ UNCHANGED <<Receiving, Newest, Current>>
        /\ fcs # <<>> /\ fcs' = Tail(fcs)
    BY DEF ReceiveFlowControl, receiver, Receiving, Newest, Current
  <1>2. /\ fcs' = <<>> /\ wire = <<>> /\ Ahead = 0 /\ Sending /\ send_bs_remain = 0
        /\ Head(fcs) = fcs[1] /\ 1 \in DOMAIN fcs
        /\ fcs[1].fs \in {"CONTINUE", "OVERFLOW"}
        /\ fcs[1].fs = "CONTINUE" => fcs[1].bs = BlockSize
    BY <1>1, AnswerGone
  <1>3. /\ wire' = <<>> /\ send_timer_bs' = Timeout
        /\ UNCHANGED <<send_buffer, send_size, send_offset, send_sn>>
        /\ \/ fcs[1].fs = "OVERFLOW" /\ Tx!OnFlowOverflow
           \/ fcs[1].fs = "CONTINUE" /\ Tx!OnFlowContinue(BlockSize, 0)
    BY <1>2 DEF ReceiveFlowControl, Tx!OnFlowControl, Sending
  <1>4. Timeout \in Nat /\ BlockSize \in 1..255
    BY TransferConstants
  <1>5. CASE Tx!OnFlowOverflow
    <2>1. send_status' = "ERROR" /\ UNCHANGED <<send_bs_remain, send_st_min>>
      BY <1>5 DEF Tx!OnFlowOverflow
    <2> QED
      BY <1>1, <1>2, <1>3, <1>4, <2>1, SenderStops
  <1>6. CASE fcs[1].fs = "CONTINUE" /\ Tx!OnFlowContinue(BlockSize, 0)
    <2>1. send_bs_remain' = BlockSize /\ send_st_min' = 0 /\ UNCHANGED send_status
      BY <1>4, <1>6 DEF Tx!OnFlowContinue, Tx!BlockGranted
    <2>2. /\ PartsFirst(wire', 0) /\ wire' \in Seq(Frames) /\ DOMAIN wire' = {}
          /\ DOMAIN fcs' = {}
      BY <1>2, <1>3 DEF PartsFirst
    <2>3. Ahead' = 0
      BY <2>2, PartsCount DEF Ahead, UnderWay
    <2>4. UNCHANGED <<Sending, SameMessage>>
      BY <1>1, <1>3, <2>1 DEF Sending, SameMessage
    <2>5. TypeInv'
      <3>1. BlockSize \in 0..BlockSize
        BY <1>4
      <3>2. fcs' \in Seq([fs : {"CONTINUE", "OVERFLOW"}, bs : {0, BlockSize}])
        BY <1>2
      <3> QED
        BY <1>1, <1>3, <1>4, <2>1, <2>2, <3>1, <3>2 DEF IInv, TypeInv
    <2>6. SenderInv'
      BY <1>1, <1>2, <1>3, <2>1, <2>4 DEF IInv, SenderInv
    <2>7. PhaseInv' /\ WireInv' /\ LastInv'
      BY <1>2, <2>2, <2>3 DEF PhaseInv, WireInv, LastInv, OnlyParts
    <2>8. CurrentInv'
      <3>1. IsExact(receive_size)' <=> IsExact(receive_size)
        BY <1>1 DEF IsExact
      <3> QED
        BY <1>1, <2>2, <3>1 DEF IInv, CurrentInv
    <2>9. ProgressInv'
      <3> SUFFICES ASSUME Receiving PROVE ProgressInv'
        BY <1>1 DEF ProgressInv
      <3>1. SameMessage
        BY <1>2, <1>6 DEF IInv, ProgressInv
      <3>2. Granted = BlockSize /\ Granted' = BlockSize
        <4>1. Granted = 0 + BlockSize
          BY <1>1, <1>2, <3>1 DEF Granted
        <4>2. SameMessage' /\ fcs' = <<>> /\ send_bs_remain' = BlockSize
          BY <1>2, <2>1, <2>4, <3>1
        <4>3. Granted' = BlockSize + 0
          BY <4>2 DEF Granted
        <4> QED
          BY <1>4, <4>1, <4>3
      <3>3. Live /\ Live' /\ NextOffset' = NextOffset
        BY <1>2, <1>3, <2>3, <2>4, <3>1 DEF Live, NextOffset
      <3>4. IsExact(receive_offset)' = IsExact(receive_offset)
        BY <1>1 DEF IsExact
      <3>5. Ahead' + Granted' = Ahead + Granted
        BY <1>2, <2>3, <3>2
      <3>6. ~(Ahead' > 0)
        BY <2>3
      <3> QED
        BY <1>1, <2>2, <2>4, <3>1, <3>3, <3>4, <3>5, <3>6 DEF IInv, ProgressInv
    <2> QED
      BY <2>5, <2>6, <2>7, <2>8, <2>9 DEF IInv
  <1> QED
    BY <1>3, <1>5, <1>6

LEMMA TickIInv == IInv /\ Tick => IInv'
  <1> SUFFICES ASSUME IInv, Tick PROVE IInv'
    OBVIOUS
  <1>1. /\ wire = <<>> /\ fcs = <<>> /\ UNCHANGED <<wire, fcs, offered, delivered>>
        /\ UNCHANGED <<send_buffer, send_size, send_offset, send_sn,
                       send_bs_remain, send_st_min, send_status>>
        /\ UNCHANGED <<receive_buffer, receive_size, receive_offset,
                       receive_bs_count, receive_status>>
        /\ send_timer_bs' = Tx!Elapse(send_timer_bs)
    BY DEF Tick, Tx!SendElapse, Rx!ReceiveElapse
  <1>2. UNCHANGED <<Sending, Receiving, Newest, Current, SameMessage, Ahead, Granted>>
    BY <1>1 DEF Sending, Receiving, Newest, Current, SameMessage, Ahead, UnderWay,
                Granted
  <1>3. UNCHANGED <<Live, NextOffset>>
    BY <1>1, <1>2 DEF Live, NextOffset
  <1>4. send_timer_bs' \in Int
    BY <1>1 DEF IInv, TypeInv, Tx!Elapse
  <1>5. TypeInv'
    BY <1>1, <1>2, <1>4 DEF IInv, TypeInv
  <1>6. SenderInv'
    BY <1>1, <1>2 DEF IInv, SenderInv
  <1>7. WireInv' /\ LastInv'
    BY <1>1, <1>2 DEF IInv, WireInv, LastInv, PartsFirst, Carries
  <1>8. PhaseInv'
    BY <1>1 DEF PhaseInv, OnlyParts
  <1>9. CurrentInv'
    BY <1>1, <1>2 DEF IInv, CurrentInv, IsExact
  <1>10. ProgressInv'
    BY <1>1, <1>2, <1>3 DEF IInv, ProgressInv, IsExact
  <1> QED
    BY <1>5, <1>6, <1>7, <1>8, <1>9, <1>10 DEF IInv

(* isotp_receive hands over the message in the buffer, byte for byte.      *)
LEMMA HandedOver ==
    ASSUME IInv, Rx!IsotpReceive, delivered' = Append(delivered, Rx!Received)
    PROVE  /\ Current \in DOMAIN offered /\ Current > Newest
           /\ Rx!Received = Promise!Payload(Current, offered[Current])
           /\ Rx!Received \in Messages /\ delivered' \in Seq(Messages)
           /\ Newest' = Current
  <1>1. /\ Current \in DOMAIN offered /\ Current > Newest
        /\ receive_size = offered[Current] /\ receive_size \in 1..RecvBufSize
        /\ IsExact(receive_size)
    BY DEF Rx!IsotpReceive, IInv, CurrentInv
  <1>2. Rx!Received = Promise!Payload(Current, offered[Current])
    BY <1>1 DEF Rx!Received, Promise!Payload, IsExact
  <1>3. Current \in 1..MaxMessages /\ offered[Current] \in Sizes
    <2>1. offered \in Seq(Sizes) /\ Len(offered) <= MaxMessages /\ Len(offered) \in Nat
      BY DEF IInv, TypeInv
    <2> QED
      BY <1>1, <2>1, TransferConstants
  <1>4. Rx!Received \in Messages
    BY <1>2, <1>3 DEF Messages
  <1>5. delivered \in Seq(Messages)
    BY DEF IInv, TypeInv
  <1>6. /\ delivered' \in Seq(Messages) /\ Len(delivered) \in Nat
        /\ Len(delivered') = Len(delivered) + 1
        /\ delivered'[Len(delivered) + 1] = Rx!Received
    BY <1>4, <1>5, AppendOf
  <1>7. delivered' # <<>> /\ Last(delivered') = Rx!Received
    BY <1>6 DEF Last
  <1>8. IdOf(Rx!Received) = Current
    <2>1. 0 \in 0..(receive_size - 1) /\ RecvBufSize \in Nat
      BY <1>1, TransferConstants
    <2>2. Rx!Received[0] = <<Current, 0>>
      BY <1>1, <2>1 DEF Rx!Received, IsExact
    <2> QED
      BY <2>2 DEF IdOf
  <1>9. Newest' = Current
    BY <1>7, <1>8 DEF Newest
  <1> QED
    BY <1>1, <1>2, <1>4, <1>6, <1>9

LEMMA ReceiverPollIInv == IInv /\ ReceiverPoll => IInv'
  <1> SUFFICES ASSUME IInv, ReceiverPoll PROVE IInv'
    OBVIOUS
  <1>1. /\ UNCHANGED <<wire, offered, fcs, receive_buffer, receive_size,
                       receive_offset, receive_bs_count>>
        /\ UNCHANGED <<send_buffer, send_size, send_offset, send_sn, send_st_min,
                       send_bs_remain, send_timer_bs, send_status>>
        /\ receive_status' = "IDLE"
        /\ \/ UNCHANGED delivered
           \/ Rx!IsotpReceive /\ delivered' = Append(delivered, Rx!Received)
    BY DEF ReceiverPoll, Rx!PollTimeoutCr, Rx!IsotpReceive, sender
  <1>2. /\ Newest' \in Nat /\ Newest' <= Len(offered) /\ delivered' \in Seq(Messages)
        /\ \A k \in DOMAIN wire : wire[k].type # "CF" => wire[k].id > Newest'
    <2>1. CASE UNCHANGED delivered
      <3>1. Newest' = Newest
        BY <2>1 DEF Newest
      <3> QED
        BY <2>1, <3>1 DEF IInv, TypeInv, CurrentInv
    <2>2. CASE Rx!IsotpReceive /\ delivered' = Append(delivered, Rx!Received)
      <3>1. Current \in DOMAIN offered /\ Newest' = Current
            /\ delivered' \in Seq(Messages)
        BY <2>2, HandedOver
      <3>2. Current \in Nat /\ Current <= Len(offered)
        BY <3>1 DEF IInv, TypeInv
      <3>3. \A k \in DOMAIN wire : wire[k].type # "CF" => wire[k].id > Current
        BY <2>2 DEF Rx!IsotpReceive, IInv, CurrentInv
      <3> QED
        BY <3>1, <3>2, <3>3
    <2> QED
      BY <1>1, <2>1, <2>2
  <1>3. UNCHANGED <<Sending, Ahead>>
    BY <1>1 DEF Sending, Ahead, UnderWay
  <1>4. TypeInv'
    BY <1>1, <1>2 DEF IInv, TypeInv
  <1>5. SenderInv'
    BY <1>1, <1>3 DEF IInv, SenderInv
  <1>6. WireInv' /\ LastInv'
    BY <1>1, <1>3 DEF IInv, WireInv, LastInv, PartsFirst, Carries
  <1>7. PhaseInv'
    BY <1>1, <1>3 DEF IInv, PhaseInv, OnlyParts, FirstWaits
  <1>8. CurrentInv'
    BY <1>1, <1>2 DEF CurrentInv
  <1>9. ProgressInv'
    BY <1>1 DEF ProgressInv, Receiving
  <1> QED
    BY <1>4, <1>5, <1>6, <1>7, <1>8, <1>9 DEF IInv

LEMMA StutterIInv == IInv /\ UNCHANGED vars => IInv'
  <1> SUFFICES ASSUME IInv, UNCHANGED vars PROVE IInv'
    OBVIOUS
  <1>1. UNCHANGED <<wire, fcs, offered, delivered,
                    send_buffer, send_size, send_offset, send_sn, send_st_min,
                    send_bs_remain, send_timer_bs, send_status,
                    receive_buffer, receive_size, receive_offset,
                    receive_bs_count, receive_status>>
    BY DEF vars, sender, receiver
  <1>2. UNCHANGED <<Sending, Receiving, Newest, Current, SameMessage, Ahead, Granted>>
    BY <1>1 DEF Sending, Receiving, Newest, Current, SameMessage, Ahead, UnderWay,
                Granted
  <1>3. UNCHANGED <<Live, NextOffset>>
    BY <1>1, <1>2 DEF Live, NextOffset
  <1>4. TypeInv' /\ SenderInv'
    BY <1>1, <1>2 DEF IInv, TypeInv, SenderInv
  <1>5. WireInv' /\ LastInv'
    BY <1>1, <1>2 DEF IInv, WireInv, LastInv, PartsFirst, Carries
  <1>6. PhaseInv'
    BY <1>1, <1>2 DEF IInv, PhaseInv, OnlyParts, FirstWaits
  <1>7. CurrentInv' /\ ProgressInv'
    BY <1>1, <1>2, <1>3 DEF IInv, CurrentInv, ProgressInv, IsExact
  <1> QED
    BY <1>4, <1>5, <1>6, <1>7 DEF IInv

LEMMA NextIInv == IInv /\ [Next]_vars => IInv'
  <1> SUFFICES ASSUME IInv, [Next]_vars PROVE IInv'
    OBVIOUS
  <1>1. ASSUME NEW size \in Sizes, Offer(size) PROVE IInv'
    BY <1>1, OfferIInv
  <1>2. CASE SenderPoll
    BY <1>2, SenderPollIInv
  <1>3. CASE ReceiveFrame
    BY <1>3, ReceiveFrameIInv
  <1>4. CASE ReceiveFlowControl
    BY <1>4, ReceiveFlowControlIInv
  <1>5. CASE ReceiverPoll
    BY <1>5, ReceiverPollIInv
  <1>6. CASE LoseFrame
    BY <1>6, LoseFrameIInv
  <1>7. CASE Tick
    BY <1>7, TickIInv
  <1>8. CASE UNCHANGED vars
    BY <1>8, StutterIInv
  <1> QED
    BY <1>1, <1>2, <1>3, <1>4, <1>5, <1>6, <1>7, <1>8 DEF Next

LEMMA InductiveIInv == Spec => []IInv
  BY InitIInv, NextIInv, PTL DEF Spec

-----------------------------------------------------------------------------
(* What the invariant says of the block: where frames of the message being *)
(* received may still come they are counted by ProgressInv, and where none *)
(* may there is none.                                                      *)
LEMMA IInvBlock == IInv => BlockHonoured
  <1> SUFFICES ASSUME IInv, Receiving PROVE Ahead <= receive_bs_count
    BY DEF BlockHonoured, Receiving, Ahead
  <1>1. Ahead \in Nat /\ receive_bs_count \in Nat
    BY DEF IInv, TypeInv, WireInv, PartsFirst
  <1>2. CASE Ahead = 0
    BY <1>1, <1>2
  <1>3. CASE Ahead > 0
    <2>1. Granted \in Nat
      BY TransferConstants DEF Granted, IInv, TypeInv
    <2>2. Ahead + Granted <= receive_bs_count
      BY <1>3 DEF IInv, ProgressInv, Live
    <2> QED
      BY <1>1, <2>1, <2>2
  <1> QED
    BY <1>1, <1>2, <1>3

(* However many frames are lost, the consecutive frames on the bus are     *)
(* never more than the receiving link still counts of its block: the bus   *)
(* and the receive queue behind it never have to hold more than a block.   *)
THEOREM TransferHonoursBlocks == Spec => []BlockHonoured
  BY InductiveIInv, IInvBlock, PTL

(* A step of the two links is a step of MessageTransfer or changes nothing *)
(* of what it speaks of: only isotp_send adds a message and only           *)
(* isotp_receive hands one over.                                           *)
LEMMA StepRefines ==
    ASSUME IInv, [Next]_vars
    PROVE  [Promise!Next]_<<offered, delivered, Newest>>
  <1>1. ASSUME NEW size \in Sizes, Offer(size) PROVE Promise!Next
    <2>1. offered' = Append(offered, size) /\ UNCHANGED <<delivered, Newest>>
      BY <1>1 DEF Offer, Newest
    <2> QED
      BY <2>1 DEF Promise!Next, Promise!Offer
  <1>2. CASE ReceiverPoll /\ Rx!IsotpReceive /\ delivered' = Append(delivered, Rx!Received)
    <2>1. /\ Current \in DOMAIN offered /\ Current > Newest
          /\ Rx!Received = Promise!Payload(Current, offered[Current])
          /\ Newest' = Current
      BY <1>2, HandedOver
    <2>2. UNCHANGED offered
      BY <1>2 DEF ReceiverPoll
    <2>3. Promise!Deliver(Current)
      BY <1>2, <2>1, <2>2 DEF Promise!Deliver
    <2> QED
      BY <2>1, <2>3 DEF Promise!Next
  <1>3. CASE UNCHANGED <<offered, delivered>>
    BY <1>3 DEF Newest
  <1>4. SenderPoll \/ ReceiveFrame \/ ReceiveFlowControl \/ LoseFrame \/ Tick
        \/ UNCHANGED vars => UNCHANGED <<offered, delivered>>
    BY DEF SenderPoll, ReceiveFrame, ReceiveFlowControl, LoseFrame, Tick, vars
  <1>5. ReceiverPoll =>
            \/ UNCHANGED <<offered, delivered>>
            \/ Rx!IsotpReceive /\ delivered' = Append(delivered, Rx!Received)
    BY DEF ReceiverPoll
  <1> QED
    BY <1>1, <1>2, <1>3, <1>4, <1>5 DEF Next

LEMMA InitRefines == Init => Promise!Init
  BY DEF Init, Promise!Init, Newest

(* Whatever frames are lost and whatever times out, two links keep the     *)
(* promise of MessageTransfer: what isotp_receive returns is a message     *)
(* isotp_send accepted, with all its bytes and no other's, later than any  *)
(* returned before.                                                        *)
THEOREM TransferKeepsPromise == Spec => ImplementsTransfer
  <1>1. Init => Promise!Init
    BY InitRefines
  <1>2. IInv /\ [Next]_vars => [Promise!Next]_<<offered, delivered, Newest>>
    BY StepRefines
  <1> QED
    BY <1>1, <1>2, InductiveIInv, PTL DEF Spec, ImplementsTransfer, Promise!Spec
=============================================================================
