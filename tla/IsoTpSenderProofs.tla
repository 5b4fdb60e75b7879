-------------------------- MODULE IsoTpSenderProofs --------------------------
(***************************************************************************)
(* Proofs about IsoTpSender for every frame size, block size, sequence     *)
(* number modulus, buffer size and timeout.                                *)
(***************************************************************************)
EXTENDS IsoTpSender, TLAPS

(* What makes TypeOK inductive: a message in progress has bytes left, so a *)
(* consecutive frame never carries the offset past the end of the message, *)
(* and has not yet been told to wait too often.                            *)
BytesLeft ==
    send_status = "INPROGRESS" =>
        /\ send_size > CfData
        /\ send_offset < send_size
        /\ send_wtf_count <= MaxWft

TypeInv == TypeOK /\ BytesLeft

LEMMA FrameTypes ==
    /\ \A id, size \in Nat : SingleFrame(id, size) \in Frame
    /\ \A id, size \in Nat : FirstFrame(id, size) \in Frame
    /\ \A id, sn, offset \in Nat : ConsecutiveFrame(id, sn, offset) \in Frame
  <1>1. \A size \in Nat : size % FfDlMod \in Nat
    BY SendConstants
  <1> QED
    BY <1>1 DEF SingleFrame, FirstFrame, ConsecutiveFrame, Frame

LEMMA NextSnRange == \A sn \in 0..(SnMod - 1) : NextSn(sn) \in 0..(SnMod - 1)
  BY SendConstants DEF NextSn

LEMMA ElapseRange ==
    /\ \A t \in {-1} \cup Nat : Elapse(t) \in {-1} \cup Nat
    /\ \A t \in -1..Timeout : Elapse(t) \in -1..Timeout
  BY SendConstants DEF Elapse, Expired

LEMMA InitTypeInv == Init => TypeInv
  <1> SUFFICES ASSUME Init PROVE TypeInv
    OBVIOUS
  <1> QED
    BY SendConstants, SenderConstants
    DEF Init, SendInit, TypeInv, TypeOK, BytesLeft, SendStatus, SendResult,
        MaxBs, InvalidBs

LEMMA NextTypeInv == TypeInv /\ [Next]_vars => TypeInv'
  <1> SUFFICES ASSUME TypeInv, [Next]_vars PROVE TypeInv'
    OBVIOUS
  <1> USE SendConstants, SenderConstants
  <1> USE DEF TypeInv, TypeOK, BytesLeft
  <1>1. ASSUME NEW size \in MsgSizes, Send(size) PROVE TypeInv'
    <2>1. size \in Nat /\ size <= SendBufSize /\ send_buffer + 1 \in Nat
      BY <1>1 DEF Send, IsotpSend, IsotpSendSingle, IsotpSendMulti, Accepts
    <2>2. CASE IsotpSendSingle(send_buffer + 1, size)
      <3>1. wire' \in Seq(Frame)
        BY <2>1, <2>2, FrameTypes DEF IsotpSendSingle
      <3> QED
        BY <1>1, <2>1, <2>2, <3>1 DEF Send, IsotpSendSingle, Accepts
    <2>3. CASE IsotpSendMulti(send_buffer + 1, size)
      <3>1. wire' \in Seq(Frame)
        BY <2>1, <2>3, FrameTypes DEF IsotpSendMulti
      <3> QED
        BY <1>1, <2>1, <2>3, <3>1
        DEF Send, IsotpSendMulti, StartBlock, FfData, SendStatus, SendResult,
            MaxBs
    <2> QED
      BY <1>1, <2>2, <2>3 DEF Send, IsotpSend
  <1>2. ASSUME NEW bs \in BlockSizes, NEW stmin \in StMins, Continue(bs, stmin)
        PROVE TypeInv'
    <2>1. CASE send_status # "INPROGRESS"
      BY <1>2, <2>1 DEF Continue, OnFlowControl, send_vars
    <2>2. CASE send_status = "INPROGRESS"
      <3>1. OnFlowContinue(bs, stmin)
        BY <1>2, <2>2 DEF Continue, OnFlowControl
      <3>2. Grant(bs, stmin) \in Grants
        BY DEF Grant, Grants
      <3>3. send_bs_remain' \in 0..MaxBs \cup {InvalidBs}
        BY <3>1 DEF OnFlowContinue, BlockGranted
      <3>4. stmin \in Nat
        OBVIOUS
      <3>5. grants' \in Seq(Grants)
        BY <1>2, <2>2, <3>2, SMTT(30) DEF Continue
      <3>6. /\ UNCHANGED <<send_status, send_protocol_result, send_buffer,
                           send_size, send_offset, send_sn, wire>>
            /\ send_st_min' = stmin /\ send_timer_st' = stmin
            /\ send_wtf_count' = 0 /\ send_timer_bs' = Timeout /\ idle' = 0
        BY <1>2, <2>2, <3>1 DEF Continue, OnFlowControl, OnFlowContinue
      <3> HIDE DEF BlockGranted
      <3> QED
        BY <3>3, <3>4, <3>5, <3>6
    <2> QED
      BY <2>1, <2>2
  <1>3. ASSUME NEW fs \in FlowStatus \ {"CONTINUE"}, Refuse(fs) PROVE TypeInv'
    <2>1. CASE send_status # "INPROGRESS"
      BY <1>3, <2>1 DEF Refuse, OnFlowControl, send_vars
    <2>2. CASE send_status = "INPROGRESS" /\ OnFlowOverflow
      BY <1>3, <2>2 DEF Refuse, OnFlowControl, OnFlowOverflow, SendStatus, SendResult
    <2>3. CASE send_status = "INPROGRESS" /\ OnFlowWait
      <3>1. /\ UNCHANGED <<send_buffer, send_size, send_offset, send_sn, wire,
                           send_bs_remain, send_st_min, send_timer_st,
                           grants, idle>>
            /\ send_timer_bs' = Timeout
        BY <1>3, <2>3 DEF Refuse, OnFlowControl, OnFlowWait
      <3>2. send_wtf_count' = send_wtf_count + 1
        BY <2>3 DEF OnFlowWait
      <3>3. CASE send_wtf_count' > MaxWft
        BY <2>3, <3>1, <3>2, <3>3
        DEF OnFlowWait, TooManyWaits, SendStatus, SendResult
      <3>4. CASE ~(send_wtf_count' > MaxWft)
        BY <2>3, <3>1, <3>2, <3>4 DEF OnFlowWait, TooManyWaits
      <3> QED
        BY <3>3, <3>4
    <2>4. CASE send_status = "INPROGRESS" /\ OnFlowReserved
      BY <1>3, <2>4 DEF Refuse, OnFlowControl, OnFlowReserved
    <2> QED
      BY <1>3, <2>1, <2>2, <2>3, <2>4 DEF Refuse, OnFlowControl
  <1>4. ASSUME PollConsecutive, idle' = 0, UNCHANGED grants PROVE TypeInv'
    <2>1. wire' \in Seq(Frame)
      BY <1>4, FrameTypes DEF PollConsecutive
    <2>2. send_offset' \in 0..send_size
      BY <1>4 DEF PollConsecutive, Lesser
    <2>3. send_bs_remain' \in 0..MaxBs \cup {InvalidBs}
      BY <1>4 DEF PollConsecutive, UseBlock, MaySendCf, MaxBs, InvalidBs
    <2>4. send_sn' \in 0..(SnMod - 1)
      BY <1>4, NextSnRange DEF PollConsecutive
    <2>5. send_st_min \in Nat
      OBVIOUS
    <2>6. send_status' \in SendStatus /\ (send_status' = "INPROGRESS" => send_offset' < send_size)
      BY <1>4, <2>2 DEF PollConsecutive, AfterCf, SendStatus
    <2> QED
      BY <1>4, <2>1, <2>2, <2>3, <2>4, <2>5, <2>6 DEF PollConsecutive
  <1>5. ASSUME PollTimeoutBs, UNCHANGED <<grants, idle>> PROVE TypeInv'
    BY <1>5 DEF PollTimeoutBs, SendStatus, SendResult
  <1>6. ASSUME Tick PROVE TypeInv'
    <2>1. idle' \in 0..IdleCap
      BY <1>6 DEF Tick, Lesser
    <2>2. send_timer_st' \in {-1} \cup Nat /\ send_timer_bs' \in -1..Timeout
      BY <1>6, ElapseRange DEF Tick, SendElapse
    <2> QED
      BY <1>6, <2>1, <2>2 DEF Tick, SendElapse
  <1>7. CASE UNCHANGED vars
    BY <1>7 DEF vars, send_vars
  <1> QED
    BY <1>1, <1>2, <1>3, <1>4, <1>5, <1>6, <1>7 DEF Next, Poll

(* Every field of the sending link keeps its range, whatever the peer      *)
(* answers and whenever isotp_poll runs: the offset never passes the end   *)
(* of the buffer, nor the sequence number its four bits.                   *)
THEOREM SenderTypeCorrect == Spec => []TypeOK
  <1>1. TypeInv => TypeOK
    BY DEF TypeInv
  <1> QED
    BY InitTypeInv, NextTypeInv, <1>1, PTL DEF Spec

-----------------------------------------------------------------------------
(* The order on the bus.  The frame the link would send next follows the   *)
(* last one it sent.                                                       *)
NextFollows ==
    send_status = "INPROGRESS" =>
        /\ wire # <<>>
        /\ Follows(wire[Len(wire)],
                   ConsecutiveFrame(send_buffer, send_sn, send_offset))

OrderInv == WireInOrder /\ NextFollows

LEMMA SeqElement ==
    ASSUME NEW S, NEW s \in Seq(S)
    PROVE  /\ \A j \in DOMAIN s : s[j] \in S
           /\ s # <<>> => Len(s) \in DOMAIN s /\ s[Len(s)] \in S
  OBVIOUS

LEMMA AppendedFrame ==
    ASSUME NEW S, NEW s \in Seq(S), NEW f \in S
    PROVE  /\ Len(Append(s, f)) = Len(s) + 1
           /\ Append(s, f) # <<>>
           /\ Append(s, f)[Len(s) + 1] = f
           /\ \A k \in DOMAIN s : Append(s, f)[k] = s[k]
           /\ DOMAIN Append(s, f) = DOMAIN s \cup {Len(s) + 1}
           /\ DOMAIN s = 1..Len(s)
  OBVIOUS

(* A frame that is no consecutive frame, or follows the last one, keeps    *)
(* the order.                                                              *)
LEMMA OrderAppend ==
    ASSUME TypeOK, WireInOrder, NEW f \in Frame, wire' = Append(wire, f),
           f.type = "CF" => wire # <<>> /\ Follows(wire[Len(wire)], f)
    PROVE  WireInOrder'
  <1>1. SUFFICES ASSUME NEW k \in DOMAIN wire', wire'[k].type = "CF"
                 PROVE  k > 1 /\ Follows(wire'[k - 1], wire'[k])
    BY DEF WireInOrder, Follows
  <1>2. wire \in Seq(Frame)
    BY DEF TypeOK
  <1>3. CASE k \in DOMAIN wire
    <2>1. wire'[k] = wire[k] /\ k > 1 /\ Follows(wire[k - 1], wire[k])
      BY <1>1, <1>2, <1>3, AppendedFrame DEF WireInOrder
    <2>2. k - 1 \in DOMAIN wire
      BY <1>2, <1>3, <2>1
    <2> QED
      BY <1>2, <2>1, <2>2, AppendedFrame
  <1>4. CASE k = Len(wire) + 1
    <2>1. wire'[k] = f /\ wire # <<>> /\ Follows(wire[Len(wire)], f)
      BY <1>1, <1>2, <1>4, AppendedFrame
    <2>2. Len(wire) \in DOMAIN wire /\ k - 1 = Len(wire) /\ k > 1
      BY <1>2, <1>4, <2>1
    <2> QED
      BY <1>2, <2>1, <2>2, AppendedFrame
  <1> QED
    BY <1>2, <1>3, <1>4, AppendedFrame

LEMMA NextOrderInv == TypeInv /\ OrderInv /\ [Next]_vars => OrderInv'
  <1> SUFFICES ASSUME TypeInv, OrderInv, [Next]_vars PROVE OrderInv'
    OBVIOUS
  <1>0. TypeOK /\ wire \in Seq(Frame) /\ WireInOrder /\ NextFollows
    BY DEF TypeInv, TypeOK, OrderInv
  <1>1. ASSUME NEW size \in MsgSizes, IsotpSendSingle(send_buffer + 1, size)
        PROVE  OrderInv'
    <2>1. SingleFrame(send_buffer + 1, size) \in Frame
      BY <1>0, FrameTypes, SenderConstants DEF TypeOK
    <2>2. WireInOrder'
      BY <1>0, <1>1, <2>1, OrderAppend DEF IsotpSendSingle, SingleFrame
    <2>3. NextFollows'
      BY <1>1 DEF IsotpSendSingle, Accepts, NextFollows
    <2> QED
      BY <2>2, <2>3 DEF OrderInv
  <1>2. ASSUME NEW size \in MsgSizes, IsotpSendMulti(send_buffer + 1, size)
        PROVE  OrderInv'
    <2> DEFINE f == FirstFrame(send_buffer + 1, size)
    <2>1. f \in Frame /\ wire' = Append(wire, f)
      BY <1>0, <1>2, FrameTypes, SenderConstants DEF TypeOK, IsotpSendMulti
    <2>2. f.type = "FF" /\ f.id = send_buffer + 1
      BY DEF FirstFrame
    <2>3. WireInOrder'
      BY <1>0, <2>1, <2>2, OrderAppend
    <2>4. wire' # <<>> /\ wire'[Len(wire')] = f
      BY <1>0, <2>1, AppendedFrame
    <2>5. send_buffer' = send_buffer + 1 /\ send_sn' = 1 /\ send_offset' = FfData
      BY <1>2 DEF IsotpSendMulti
    <2>6. NextFollows'
      BY <2>2, <2>4, <2>5 DEF NextFollows, Follows, ConsecutiveFrame
    <2> QED
      BY <2>3, <2>6 DEF OrderInv
  <1>3. ASSUME NEW fs, NEW bs, NEW stmin, OnFlowControl(fs, bs, stmin)
        PROVE  OrderInv'
    <2>1. UNCHANGED <<wire, send_buffer, send_sn, send_offset>>
      BY <1>3 DEF OnFlowControl, send_vars
    <2>2. send_status' = "INPROGRESS" => send_status = "INPROGRESS"
      BY <1>3
      DEF OnFlowControl, send_vars, OnFlowOverflow, OnFlowWait, OnFlowContinue,
          OnFlowReserved
    <2> QED
      BY <1>0, <2>1, <2>2 DEF OrderInv, WireInOrder, NextFollows, Follows
  <1>4. ASSUME PollConsecutive PROVE OrderInv'
    <2> DEFINE f == ConsecutiveFrame(send_buffer, send_sn, send_offset)
    <2>1. f \in Frame /\ wire' = Append(wire, f)
      BY <1>0, <1>4, FrameTypes, SendConstants DEF TypeOK, PollConsecutive
    <2>2. wire # <<>> /\ Follows(wire[Len(wire)], f)
      BY <1>0, <1>4 DEF PollConsecutive, NextFollows
    <2>3. WireInOrder'
      BY <1>0, <2>1, <2>2, OrderAppend
    <2>4. wire' # <<>> /\ wire'[Len(wire')] = f
      BY <1>0, <2>1, AppendedFrame
    <2>5. send_status' = "INPROGRESS" => send_offset' = send_offset + CfData
      BY <1>0, <1>4, SendConstants DEF PollConsecutive, AfterCf, Lesser, TypeOK
    <2>6. /\ f.type = "CF" /\ f.id = send_buffer /\ f.sn = send_sn
          /\ f.offset = send_offset
      BY DEF ConsecutiveFrame
    <2>7. send_buffer' = send_buffer /\ send_sn' = NextSn(send_sn)
      BY <1>4 DEF PollConsecutive
    <2> HIDE DEF f
    <2>8. NextFollows'
      BY <2>4, <2>5, <2>6, <2>7
      DEF NextFollows, Follows, ConsecutiveFrame, NextSn
    <2> QED
      BY <2>3, <2>8 DEF OrderInv
  <1>5. CASE PollTimeoutBs
    BY <1>0, <1>5 DEF PollTimeoutBs, OrderInv, WireInOrder, NextFollows
  <1>6. CASE Tick
    BY <1>0, <1>6
    DEF Tick, SendElapse, OrderInv, WireInOrder, NextFollows, Follows
  <1>7. CASE UNCHANGED vars
    BY <1>0, <1>7 DEF vars, send_vars, OrderInv, WireInOrder, NextFollows, Follows
  <1> QED
    BY <1>1, <1>2, <1>3, <1>4, <1>5, <1>6, <1>7
    DEF Next, Send, IsotpSend, Continue, Refuse, Poll

(* The frames of a message follow each other on the bus without a gap, a   *)
(* repeat or an intruder: an abandoned message never continues after the   *)
(* next one began (isotp_send_with_id, isotp_poll).                        *)
THEOREM SenderKeepsOrder == Spec => []WireInOrder
  <1>1. Init => OrderInv
    BY DEF Init, SendInit, OrderInv, WireInOrder, NextFollows
  <1>2. OrderInv => WireInOrder
    BY DEF OrderInv
  <1> QED
    BY InitTypeInv, NextTypeInv, NextOrderInv, <1>1, <1>2, PTL DEF Spec

-----------------------------------------------------------------------------
(* The block.  While the link may send consecutive frames of a message,    *)
(* the last CONTINUE was for that message, and what is left of the block   *)
(* is what it granted less what was sent since.                            *)
GrantsInPast == \A j \in DOMAIN grants : grants[j].at <= Len(wire)

Budget(g) ==
    /\ g.id = send_buffer
    /\ IF send_bs_remain = InvalidBs
       THEN g.bs = 0
       ELSE (Len(wire) - g.at) + send_bs_remain = g.bs

BlockInv ==
    /\ BlockRespected
    /\ GrantsInPast
    /\ send_status = "INPROGRESS" /\ send_bs_remain # 0 =>
           grants # <<>> /\ Budget(grants[Len(grants)])

LEMMA GrantTypes ==
    \A g \in Grants : g.at \in Nat /\ g.bs \in Nat /\ g.bs <= 255
  BY DEF Grants, MaxBs

LEMMA LastGrant ==
    ASSUME NEW gs \in Seq(Grants), gs # <<>>
    PROVE  LET g == gs[Len(gs)] IN g.at \in Nat /\ g.bs \in Nat /\ g.bs <= 255
  <1>1. gs[Len(gs)] \in Grants
    BY SeqElement
  <1> QED
    BY <1>1, GrantTypes

(* More frames on the bus leave the earlier ones covered.                  *)
LEMMA BlockAppend ==
    ASSUME TypeOK, BlockRespected, GrantsInPast, NEW f \in Frame,
           wire' = Append(wire, f), UNCHANGED grants,
           f.type = "CF" =>
               /\ grants # <<>>
               /\ grants[Len(grants)].id = f.id
               /\ \/ grants[Len(grants)].bs = 0
                  \/ (Len(wire) + 1) - grants[Len(grants)].at
                         <= grants[Len(grants)].bs
    PROVE  BlockRespected' /\ GrantsInPast'
  <1>1. wire \in Seq(Frame) /\ grants \in Seq(Grants)
    BY DEF TypeOK
  <1>2. Len(wire') = Len(wire) + 1 /\ wire'[Len(wire) + 1] = f
    BY <1>1, AppendedFrame
  <1>3. \A j \in DOMAIN grants : grants[j].at \in Nat
    <2>1. \A j \in DOMAIN grants : grants[j] \in Grants
      BY <1>1, SeqElement
    <2> QED
      BY <2>1, GrantTypes
  <1>4. GrantsInPast'
    BY <1>1, <1>2, <1>3 DEF GrantsInPast
  <1>5. ASSUME NEW k \in DOMAIN wire', wire'[k].type = "CF"
        PROVE  \E j \in DOMAIN grants' :
                   /\ Covers(grants[j], k)'
                   /\ \A later \in DOMAIN grants' :
                          later > j => grants'[later].at >= k
    <2>1. CASE k \in DOMAIN wire
      <3>1. wire'[k] = wire[k]
        BY <1>1, <2>1, AppendedFrame
      <3>2. PICK j \in DOMAIN grants :
                 /\ Covers(grants[j], k)
                 /\ \A later \in DOMAIN grants : later > j => grants[later].at >= k
        BY <1>5, <2>1, <3>1 DEF BlockRespected
      <3>3. Covers(grants[j], k)'
        BY <3>1, <3>2 DEF Covers
      <3> QED
        BY <3>2, <3>3
    <2>2. CASE k = Len(wire) + 1
      <3>1. Len(grants) \in DOMAIN grants
        BY <1>1, <1>2, <1>5, <2>2
      <3>2. grants[Len(grants)].at <= Len(wire)
        BY <3>1 DEF GrantsInPast
      <3>3. Covers(grants[Len(grants)], k)'
        BY <1>1, <1>2, <1>3, <1>5, <2>2, <3>1, <3>2 DEF Covers
      <3>4. \A later \in DOMAIN grants' : ~(later > Len(grants))
        BY <1>1
      <3> QED
        BY <3>1, <3>3, <3>4
    <2> QED
      BY <1>1, <2>1, <2>2, AppendedFrame
  <1>6. BlockRespected'
    BY <1>5 DEF BlockRespected
  <1> QED
    BY <1>4, <1>6

LEMMA OneLess ==
    \A n, at, bs \in Nat, r \in 1..255 :
        (n - at) + r = bs => (n + 1) - at <= bs
  OBVIOUS

LEMMA NextBlockInv == TypeInv /\ BlockInv /\ [Next]_vars => BlockInv'
  <1> SUFFICES ASSUME TypeInv, BlockInv, [Next]_vars PROVE BlockInv'
    OBVIOUS
  <1> DEFINE last == grants[Len(grants)]
  <1>0. /\ TypeOK /\ wire \in Seq(Frame) /\ grants \in Seq(Grants)
        /\ BlockRespected /\ GrantsInPast
        /\ send_bs_remain \in 0..MaxBs \cup {InvalidBs}
        /\ Len(wire) \in Nat
    BY DEF TypeInv, TypeOK, BlockInv
  <1>1. ASSUME NEW size \in MsgSizes, Send(size) PROVE BlockInv'
    <2> DEFINE f == IF size <= CfData THEN SingleFrame(send_buffer + 1, size)
                                      ELSE FirstFrame(send_buffer + 1, size)
    <2>1. f \in Frame /\ f.type # "CF"
      BY <1>0, FrameTypes, SenderConstants
      DEF TypeOK, SingleFrame, FirstFrame
    <2>2. wire' = Append(wire, f) /\ UNCHANGED grants
      BY <1>1, SendConstants, SenderConstants
      DEF Send, IsotpSend, IsotpSendSingle, IsotpSendMulti
    <2>3. BlockRespected' /\ GrantsInPast'
      BY <1>0, <2>1, <2>2, BlockAppend
    <2>4. send_status' # "INPROGRESS" \/ send_bs_remain' = 0
      BY <1>1
      DEF Send, IsotpSend, IsotpSendSingle, IsotpSendMulti, Accepts, StartBlock
    <2> QED
      BY <2>3, <2>4 DEF BlockInv
  <1>2. ASSUME NEW bs \in BlockSizes, NEW stmin \in StMins, Continue(bs, stmin)
        PROVE  BlockInv'
    <2>1. CASE send_status # "INPROGRESS"
      BY <1>0, <1>2, <2>1
      DEF Continue, OnFlowControl, send_vars, BlockInv, BlockRespected, Covers,
          GrantsInPast
    <2>2. CASE send_status = "INPROGRESS"
      <3> DEFINE g == Grant(bs, stmin)
      <3>1. /\ grants' = Append(grants, g)
            /\ UNCHANGED <<wire, send_buffer>>
            /\ send_bs_remain' = BlockGranted(bs)
        BY <1>2, <2>2 DEF Continue, OnFlowControl, OnFlowContinue
      <3>2. /\ g \in Grants /\ g.at = Len(wire) /\ g.id = send_buffer /\ g.bs = bs
            /\ bs \in 0..MaxBs
        BY <1>0, SenderConstants DEF Grant, Grants, TypeOK
      <3> HIDE DEF g
      <3>3. /\ Len(grants') = Len(grants) + 1
            /\ grants'[Len(grants) + 1] = g
            /\ DOMAIN grants' = DOMAIN grants \cup {Len(grants) + 1}
            /\ \A j \in DOMAIN grants : grants'[j] = grants[j]
            /\ grants' # <<>>
        BY <1>0, <3>1, <3>2
      <3>4. GrantsInPast'
        BY <1>0, <3>1, <3>2, <3>3 DEF GrantsInPast
      <3>5. BlockRespected'
        <4>1. SUFFICES ASSUME NEW k \in DOMAIN wire, wire[k].type = "CF"
                       PROVE  \E j \in DOMAIN grants' :
                                  /\ Covers(grants'[j], k)
                                  /\ \A later \in DOMAIN grants' :
                                         later > j => grants'[later].at >= k
          BY <3>1 DEF BlockRespected, Covers
        <4>2. PICK j \in DOMAIN grants :
                   /\ Covers(grants[j], k)
                   /\ \A later \in DOMAIN grants :
                          later > j => grants[later].at >= k
          BY <1>0, <4>1 DEF BlockRespected
        <4>3. k <= Len(wire)
          BY <1>0
        <4> QED
          BY <3>2, <3>3, <4>2, <4>3
      <3>6. Budget(grants[Len(grants)])'
        <4>1. grants'[Len(grants')] = g
          BY <1>0, <3>3
        <4>2. Len(wire') - g.at = 0 /\ g.id = send_buffer'
          BY <1>0, <3>1, <3>2
        <4>3. CASE bs = 0
          <5>1. send_bs_remain' = InvalidBs /\ g.bs = 0
            BY <3>1, <3>2, <4>3 DEF BlockGranted
          <5> QED
            BY <4>1, <4>2, <5>1 DEF Budget
        <4>4. CASE bs # 0
          <5>1. /\ send_bs_remain' = g.bs /\ g.bs \in Nat
                /\ send_bs_remain' # InvalidBs
            BY <3>1, <3>2, <4>4 DEF BlockGranted, MaxBs, InvalidBs
          <5>2. (Len(wire') - g.at) + send_bs_remain' = g.bs
            BY <4>2, <5>1
          <5> QED
            BY <4>1, <4>2, <5>1, <5>2 DEF Budget
        <4> QED
          BY <4>3, <4>4
      <3> QED
        BY <3>3, <3>4, <3>5, <3>6 DEF BlockInv
    <2> QED
      BY <2>1, <2>2
  <1>3. ASSUME NEW fs \in FlowStatus \ {"CONTINUE"}, Refuse(fs) PROVE BlockInv'
    <2>1. UNCHANGED <<wire, grants, send_buffer, send_bs_remain>>
      BY <1>3
      DEF Refuse, OnFlowControl, send_vars, OnFlowOverflow, OnFlowWait,
          OnFlowReserved
    <2>2. send_status' = "INPROGRESS" => send_status = "INPROGRESS"
      BY <1>3
      DEF Refuse, OnFlowControl, send_vars, OnFlowOverflow, OnFlowWait,
          OnFlowReserved
    <2> QED
      BY <1>0, <2>1, <2>2 DEF BlockInv, BlockRespected, Covers, GrantsInPast, Budget
  <1>4. ASSUME PollConsecutive, UNCHANGED grants PROVE BlockInv'
    <2> DEFINE f == ConsecutiveFrame(send_buffer, send_sn, send_offset)
    <2>1. f \in Frame /\ wire' = Append(wire, f) /\ f.id = send_buffer
      BY <1>0, <1>4, FrameTypes, SendConstants
      DEF TypeOK, PollConsecutive, ConsecutiveFrame
    <2>2. send_status = "INPROGRESS" /\ send_bs_remain # 0
      BY <1>4 DEF PollConsecutive, MaySendCf, InvalidBs
    <2>3. grants # <<>> /\ Budget(last)
      BY <2>2 DEF BlockInv
    <2>4. last.at \in Nat /\ last.bs \in Nat /\ last.bs <= 255
      BY <1>0, <2>3, LastGrant
    <2>5. last.bs = 0 \/ (Len(wire) + 1) - last.at <= last.bs
      <3>1. Len(wire) \in Nat /\ (send_bs_remain = InvalidBs \/ send_bs_remain \in 1..255)
        BY <1>0, <2>2 DEF MaxBs
      <3>2. \/ last.bs = 0
            \/ (Len(wire) - last.at) + send_bs_remain = last.bs /\ send_bs_remain \in 1..255
        BY <2>3, <3>1 DEF Budget
      <3> QED
        BY <2>4, <3>1, <3>2, OneLess
    <2>6. BlockRespected' /\ GrantsInPast'
      BY <1>0, <1>4, <2>1, <2>3, <2>5, BlockAppend DEF Budget
    <2>7. /\ Len(wire') = Len(wire) + 1
          /\ send_buffer' = send_buffer
          /\ send_bs_remain' = UseBlock(send_bs_remain)
      BY <1>0, <1>4, <2>1, AppendedFrame DEF PollConsecutive
    <2>8. CASE send_bs_remain = InvalidBs
      <3>1. send_bs_remain' = InvalidBs /\ last.bs = 0 /\ last.id = send_buffer
        BY <2>3, <2>7, <2>8 DEF Budget, UseBlock
      <3>2. Budget(last)'
        BY <1>4, <2>7, <3>1 DEF Budget
      <3> QED
        BY <1>4, <2>3, <2>6, <3>2 DEF BlockInv
    <2>9. CASE send_bs_remain # InvalidBs
      <3>1. send_bs_remain \in 1..255 /\ send_bs_remain' = send_bs_remain - 1
        BY <1>0, <2>2, <2>7, <2>9 DEF UseBlock, MaxBs
      <3>2. (Len(wire') - last.at) + send_bs_remain' = last.bs
        BY <1>0, <2>3, <2>4, <2>7, <2>9, <3>1 DEF Budget
      <3>3. Budget(last)'
        BY <1>4, <2>3, <2>7, <3>1, <3>2 DEF Budget, InvalidBs
      <3> QED
        BY <1>4, <2>3, <2>6, <3>3 DEF BlockInv
    <2> QED
      BY <2>8, <2>9
  <1>5. ASSUME PollTimeoutBs, UNCHANGED <<grants, idle>> PROVE BlockInv'
    BY <1>0, <1>5
    DEF PollTimeoutBs, BlockInv, BlockRespected, Covers, GrantsInPast, Budget
  <1>6. CASE Tick
    BY <1>0, <1>6
    DEF Tick, SendElapse, BlockInv, BlockRespected, Covers, GrantsInPast, Budget
  <1>7. CASE UNCHANGED vars
    BY <1>0, <1>7
    DEF vars, send_vars, BlockInv, BlockRespected, Covers, GrantsInPast, Budget
  <1> QED
    BY <1>1, <1>2, <1>3, <1>4, <1>5, <1>6, <1>7 DEF Next, Poll

(* No consecutive frame is ever sent without a CONTINUE for its message,   *)
(* or past the block that CONTINUE granted (isotp_poll,                    *)
(* isotp_send_with_id): a block left over from an abandoned message does   *)
(* not leak into the next.                                                 *)
THEOREM SenderRespectsBlocks == Spec => []BlockRespected
  <1>1. Init => BlockInv
    BY DEF Init, SendInit, BlockInv, BlockRespected, GrantsInPast
  <1>2. BlockInv => BlockRespected
    BY DEF BlockInv
  <1> QED
    BY InitTypeInv, NextTypeInv, NextBlockInv, <1>1, <1>2, PTL DEF Spec

-----------------------------------------------------------------------------
(* The separation time.  While it runs, send_timer_st has left what `idle' *)
(* has not yet used up of it.                                              *)
GapInv ==
    send_status = "INPROGRESS" /\ send_st_min # 0 =>
        IF Expired(send_timer_st)
        THEN idle > send_st_min
        ELSE idle = send_st_min - send_timer_st

LEMMA NextGapInv == TypeInv /\ GapInv /\ [Next]_vars => GapInv'
  <1> SUFFICES ASSUME TypeInv, GapInv, [Next]_vars PROVE GapInv'
    OBVIOUS
  <1>0. /\ send_timer_st \in {-1} \cup Nat /\ idle \in 0..IdleCap
        /\ send_st_min \in StMins \cup {0}
        /\ \A st \in StMins : st \in Nat /\ st < IdleCap
        /\ IdleCap \in Nat
    BY SendConstants, SenderConstants DEF TypeInv, TypeOK
  <1>1. ASSUME NEW size \in MsgSizes, Send(size) PROVE GapInv'
    BY <1>1
    DEF Send, IsotpSend, IsotpSendSingle, IsotpSendMulti, Accepts, StartBlock,
        GapInv
  <1>2. ASSUME NEW bs \in BlockSizes, NEW stmin \in StMins, Continue(bs, stmin)
        PROVE  GapInv'
    <2>1. CASE send_status # "INPROGRESS"
      BY <1>2, <2>1 DEF Continue, OnFlowControl, send_vars, GapInv
    <2>2. CASE send_status = "INPROGRESS"
      BY <1>0, <1>2, <2>2
      DEF Continue, OnFlowControl, OnFlowContinue, GapInv, Expired
    <2> QED
      BY <2>1, <2>2
  <1>3. ASSUME NEW fs \in FlowStatus \ {"CONTINUE"}, Refuse(fs) PROVE GapInv'
    BY <1>3
    DEF Refuse, OnFlowControl, send_vars, OnFlowOverflow, OnFlowWait,
        OnFlowReserved, GapInv
  <1>4. ASSUME PollConsecutive, idle' = 0 PROVE GapInv'
    BY <1>0, <1>4 DEF PollConsecutive, GapInv, Expired
  <1>5. ASSUME PollTimeoutBs PROVE GapInv'
    BY <1>5 DEF PollTimeoutBs, GapInv
  <1>6. ASSUME Tick PROVE GapInv'
    <2>1. /\ UNCHANGED <<send_status, send_st_min>>
          /\ send_timer_st' = Elapse(send_timer_st)
          /\ idle' = Lesser(idle + 1, IdleCap)
      BY <1>6 DEF Tick, SendElapse
    <2>2. SUFFICES ASSUME send_status = "INPROGRESS", send_st_min # 0
                   PROVE  IF Expired(send_timer_st')
                          THEN idle' > send_st_min
                          ELSE idle' = send_st_min - send_timer_st'
      BY <2>1 DEF GapInv
    <2>3. send_st_min \in Nat /\ send_st_min < IdleCap
      BY <1>0, <2>2
    <2>4. IF Expired(send_timer_st) THEN idle > send_st_min
                                    ELSE idle = send_st_min - send_timer_st
      BY <2>2 DEF GapInv
    <2> QED
      BY <1>0, <2>1, <2>3, <2>4 DEF Expired, Elapse, Lesser
  <1>7. CASE UNCHANGED vars
    BY <1>7 DEF vars, send_vars, GapInv
  <1> QED
    BY <1>1, <1>2, <1>3, <1>4, <1>5, <1>6, <1>7 DEF Next, Poll

LEMMA NextKeepsGap ==
    TypeInv /\ GapInv /\ [Next]_vars
        => [SentCf => send_st_min = 0 \/ idle > send_st_min]_vars
  <1> SUFFICES ASSUME TypeInv, GapInv, Next, SentCf
               PROVE  send_st_min = 0 \/ idle > send_st_min
    OBVIOUS
  <1>0. wire \in Seq(Frame)
    BY DEF TypeInv, TypeOK
  <1>1. CASE PollConsecutive
    BY <1>1 DEF PollConsecutive, MaySendCf, GapInv
  <1>2. ASSUME NEW size \in MsgSizes, Send(size) PROVE FALSE
    <2>1. PICK f \in Frame : wire' = Append(wire, f) /\ f.type # "CF"
      BY <1>2, FrameTypes, SenderConstants
      DEF Send, IsotpSend, IsotpSendSingle, IsotpSendMulti, SingleFrame,
          FirstFrame, TypeInv, TypeOK
    <2> QED
      BY <1>0, <2>1, AppendedFrame DEF SentCf, Last
  <1>3. CASE UNCHANGED wire
    BY <1>0, <1>3 DEF SentCf
  <1> QED
    BY <1>1, <1>2, <1>3
    DEF Next, Poll, Continue, Refuse, OnFlowControl, PollTimeoutBs, Tick,
        SendElapse

(* The link leaves the separation time in force, the peer's or the         *)
(* override, between consecutive frames and after a CONTINUE (isotp_poll). *)
THEOREM SenderRespectsStMin == Spec => StMinRespected
  <1>1. Init => GapInv
    BY DEF Init, SendInit, GapInv
  <1> QED
    BY InitTypeInv, NextTypeInv, NextGapInv, NextKeepsGap, <1>1, PTL
    DEF Spec, StMinRespected
=============================================================================
