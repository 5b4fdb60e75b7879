---------------------------- MODULE BridgeProofs ----------------------------
(***************************************************************************)
(* Proofs about what isotp_bridge.c does with tasks and with packets:      *)
(* LinkTasks, then PacketReceive.                                          *)
(*                                                                         *)
(* For any number of messages, frames and arrivals and any length of the   *)
(* queue, the tasks around a link keep its work, its bus and their types:  *)
(* work that came up behind the back of the task that polls has an alarm,  *)
(* which it keeps until it polls.                                          *)
(*                                                                         *)
(* For any packets, in parts of any size, packet_received hands each to    *)
(* parse_packet whole and once.  The invariant says of the bytes in every  *)
(* place they can be in (with the client, stored, gathered, before the     *)
(* loop) whose they are: those of one write are packets one behind the     *)
(* other, each whole and none twice, and what is stored or gathered so far *)
(* is, joined to what its client has left to write, one packet; or packets *)
(* and the head of one in parts, which the parts to come make whole.  A    *)
(* step that moves bytes takes them from the front of one place to the end *)
(* of another; the lemmas about sequences say that nothing else changes.   *)
(* On top of it stands the invariant of the settings: what is about to be  *)
(* parsed and names a setting has the last one to name it behind it.       *)
(***************************************************************************)
EXTENDS LinkTasks, PacketReceive, SequenceTheorems, FiniteSetTheorems, TLAPS

(* While the tasks run nothing but messages with frames is queued, taken   *)
(* or handed to the link: isotp_stop_task queues its sentinel later.       *)
MessageInv ==
    /\ isotp_run_tasks = (main = "running")
    /\ isotp_run_tasks => \A k \in 1..Len(queue) : queue[k].frames > 0
    /\ isotp_run_tasks /\ sending = "check" => taken.frames > 0
    /\ sending = "send" => taken.frames > 0

(* The processing task looks at one status after the other: work that came *)
(* up behind its back has an alarm, which it keeps until it polls.         *)
AwakeInv ==
    /\ receive_status = "FULL" /\ processing # "poll" => Alarm
    /\ processing \in {"look_receive", "sleep"} /\ send_status = "INPROGRESS" => Alarm
    /\ processing = "sleep" /\ receive_status = "INPROGRESS" => Alarm

(* The link's bus is that of the message in progress, unless another       *)
(* message was refused meanwhile.                                          *)
RouteInv ==
    /\ send_status = "INPROGRESS" =>
           use_conv_can = current.conv \/ current.id \in disturbed
    /\ misrouted \subseteq disturbed

-----------------------------------------------------------------------------
LEMMA SentinelType == Sentinel \in Messages /\ Nothing \in Messages
  BY DEF Sentinel, Nothing, Messages

LEMMA MessageType ==
    ASSUME NEW id \in Nat, NEW conv \in BOOLEAN, NEW frames \in Nat
    PROVE  /\ Message(id, conv, frames) \in Messages
           /\ Message(id, conv, frames).frames = frames
  BY DEF Message, Messages

LEMMA MessageFields ==
    ASSUME NEW m \in Messages
    PROVE  m.id \in Nat /\ m.conv \in BOOLEAN /\ m.frames \in Nat
  BY DEF Messages

(* A message more in the queue, or one less.                               *)
LEMMA QueueAppend ==
    ASSUME NEW q \in Seq(Messages), NEW m \in Messages
    PROVE  /\ Append(q, m) \in Seq(Messages)
           /\ Len(Append(q, m)) = Len(q) + 1
           /\ \A k \in 1..Len(q) : Append(q, m)[k] = q[k]
           /\ Append(q, m)[Len(q) + 1] = m
  OBVIOUS

LEMMA QueueTail ==
    ASSUME NEW q \in Seq(Messages), q # <<>>
    PROVE  /\ Head(q) \in Messages /\ Head(q) = q[1]
           /\ Tail(q) \in Seq(Messages)
           /\ Len(q) \in Nat \ {0} /\ Len(Tail(q)) = Len(q) - 1
           /\ \A k \in 1..Len(Tail(q)) : Tail(q)[k] = q[k + 1]
  OBVIOUS

LEMMA ReceivingType ==
    ASSUME NEW f \in [Receivers -> {"wait", "give"}], NEW t \in Receivers,
           NEW s \in {"wait", "give"}
    PROVE  /\ [f EXCEPT ![t] = s] \in [Receivers -> {"wait", "give"}]
           /\ [f EXCEPT ![t] = s][t] = s
  OBVIOUS

(* What isotp_send does to the link.                                       *)
LEMMA SendEffect ==
    ASSUME TypeOK, NEW m \in Messages, m.frames > 0, IsotpSend(m)
    PROVE  /\ send_status' \in {"IDLE", "INPROGRESS"}
           /\ current' \in Messages /\ granted' \in BOOLEAN
           /\ left' \in Nat /\ (send_status' = "INPROGRESS" => left' > 0)
           /\ misrouted' \subseteq Nat /\ disturbed' \subseteq Nat
  <1>1. CASE send_status = "INPROGRESS"
    <2>1. current.id \in Nat
      BY MessageFields DEF TypeOK
    <2>2. QED BY <1>1, <2>1 DEF IsotpSend, TypeOK
  <1>2. CASE send_status # "INPROGRESS"
    <2>1. m.id \in Nat /\ m.frames \in Nat
      BY MessageFields
    <2>2. send_status' \in {"IDLE", "INPROGRESS"} /\ current' \in Messages
      BY <1>2 DEF IsotpSend, TypeOK
    <2>3. granted' \in BOOLEAN
      BY <1>2 DEF IsotpSend
    <2>4. left' \in Nat /\ (send_status' = "INPROGRESS" => left' > 0)
      BY <1>2, <2>1 DEF IsotpSend
    <2>5. misrouted' \subseteq Nat /\ disturbed' \subseteq Nat
      BY <1>2, <2>1 DEF IsotpSend, Route, TypeOK
    <2>6. QED BY <2>2, <2>3, <2>4, <2>5
  <1>3. QED BY <1>1, <1>2

(* What isotp_poll does to the sending half.                               *)
LEMMA PollEffect ==
    ASSUME TypeOK, PollSend, UNCHANGED current
    PROVE  /\ send_status' \in {"IDLE", "INPROGRESS"}
           /\ send_status' = "INPROGRESS" => send_status = "INPROGRESS"
           /\ granted' \in BOOLEAN
           /\ left' \in Nat /\ (send_status' = "INPROGRESS" => left' > 0)
           /\ misrouted' \subseteq Nat
  <1>1. current.id \in Nat
    BY MessageFields DEF TypeOK
  <1>2. send_status' \in {"IDLE", "INPROGRESS"} /\ (send_status' = "INPROGRESS" => send_status = "INPROGRESS")
    BY DEF PollSend, PollSendsFrame, TypeOK
  <1>3. granted' \in BOOLEAN
    BY DEF PollSend, PollSendsFrame, TypeOK
  <1>4. left' \in Nat /\ (send_status' = "INPROGRESS" => left' > 0)
    BY DEF PollSend, PollSendsFrame, TypeOK
  <1>5. misrouted' \subseteq Nat
    BY <1>1 DEF PollSend, PollSendsFrame, Route, TypeOK
  <1>6. QED BY <1>2, <1>3, <1>4, <1>5

-----------------------------------------------------------------------------
LEMMA TasksInitHolds == TasksInit => TypeOK /\ MessageInv /\ AwakeInv /\ RouteInv
  <1> SUFFICES ASSUME TasksInit PROVE TypeOK /\ MessageInv /\ AwakeInv /\ RouteInv
    OBVIOUS
  <1> USE TaskConstants, SentinelType DEF TasksInit
  <1>1. queue \in Seq(Messages) /\ Len(queue) <= QueueSize
    OBVIOUS
  <1>2. TypeOK
    BY <1>1 DEF TypeOK
  <1>3. isotp_run_tasks = (main = "running")
    BY Zenon
  <1>4. MessageInv
    BY <1>3 DEF MessageInv
  <1>5. AwakeInv /\ RouteInv
    BY DEF AwakeInv, RouteInv
  <1>6. QED BY <1>2, <1>4, <1>5

LEMMA TypeStep == TypeOK /\ MessageInv /\ [TasksNext]_tasks_vars => TypeOK'
  <1> SUFFICES ASSUME TypeOK, MessageInv, [TasksNext]_tasks_vars PROVE TypeOK'
    OBVIOUS
  <1>1. ASSUME NEW conv \in BOOLEAN, NEW frames \in 1..MaxFrames, Enqueue(conv, frames) PROVE TypeOK'
    <2>1. Message(messages', conv, frames) \in Messages
      BY <1>1, MessageType, TaskConstants DEF Enqueue, TypeOK
    <2>2. queue' \in Seq(Messages) /\ Len(queue') <= QueueSize
      BY <1>1, <2>1, QueueAppend, TaskConstants DEF Enqueue, TypeOK
    <2>3. QED BY <1>1, <2>2 DEF Enqueue, TypeOK, link_vars, route_vars
  <1>2. CASE SendLoop
    BY <1>2 DEF SendLoop, TypeOK, link_vars, route_vars
  <1>3. CASE SendReceive
    <2>1. queue' \in Seq(Messages) /\ Len(queue') <= QueueSize /\ taken' \in Messages
      BY <1>3, QueueTail, TaskConstants DEF SendReceive, TypeOK
    <2>2. QED BY <1>3, <2>1 DEF SendReceive, TypeOK, link_vars, route_vars
  <1>4. CASE SendCheck
    BY <1>4, SentinelType DEF SendCheck, TypeOK, link_vars, route_vars
  <1>5. CASE SendLocked
    <2>1. taken \in Messages /\ taken.frames > 0 /\ IsotpSend(taken)
      BY <1>5 DEF SendLocked, TypeOK, MessageInv
    <2>2. /\ send_status' \in {"IDLE", "INPROGRESS"}
          /\ current' \in Messages /\ granted' \in BOOLEAN
          /\ left' \in Nat /\ (send_status' = "INPROGRESS" => left' > 0)
          /\ misrouted' \subseteq Nat /\ disturbed' \subseteq Nat
      BY <2>1, SendEffect
    <2>3. use_conv_can' \in BOOLEAN
      BY <1>5, <2>1, MessageFields DEF SendLocked
    <2>4. QED BY <1>5, <2>2, <2>3 DEF SendLocked, TypeOK
  <1>6. CASE SendGives
    BY <1>6, SentinelType DEF SendGives, TypeOK, link_vars, route_vars
  <1>7. CASE SendTimesOut
    BY <1>7 DEF SendTimesOut, TypeOK, link_vars, route_vars
  <1>8. ASSUME NEW t \in Receivers, FlowControlArrives(t) PROVE TypeOK'
    <2>1. receiving' \in [Receivers -> {"wait", "give"}]
      BY <1>8, ReceivingType DEF FlowControlArrives, TypeOK
    <2>2. /\ send_status' \in {"IDLE", "INPROGRESS"} /\ granted' \in BOOLEAN
          /\ send_status' = "INPROGRESS" => left' > 0
      BY <1>8 DEF FlowControlArrives, TypeOK
    <2>3. QED BY <1>8, <2>1, <2>2 DEF FlowControlArrives, TypeOK, route_vars
  <1>9. ASSUME NEW t \in Receivers, DataArrives(t) PROVE TypeOK'
    <2>1. receiving' \in [Receivers -> {"wait", "give"}]
      BY <1>9, ReceivingType DEF DataArrives, TypeOK
    <2>2. QED BY <1>9, <2>1 DEF DataArrives, TypeOK, route_vars
  <1>10. ASSUME NEW t \in Receivers, ReceiveGives(t) PROVE TypeOK'
    <2>1. receiving' \in [Receivers -> {"wait", "give"}]
      BY <1>10, ReceivingType DEF ReceiveGives, TypeOK
    <2>2. QED BY <1>10, <2>1 DEF ReceiveGives, TypeOK, link_vars, route_vars
  <1>11. CASE ProcessLoop
    BY <1>11 DEF ProcessLoop, Goes, TypeOK, link_vars, route_vars
  <1>12. CASE LookSend
    BY <1>12 DEF LookSend, Goes, TypeOK, link_vars, route_vars
  <1>13. CASE LookReceive
    BY <1>13 DEF LookReceive, Goes, TypeOK, link_vars, route_vars
  <1>14. CASE Wakes
    BY <1>14, ZenonT(30) DEF Wakes, Goes, TypeOK, link_vars, route_vars
  <1>15. CASE SleepTimesOut
    BY <1>15 DEF SleepTimesOut, Goes, TypeOK, link_vars, route_vars
  <1>16. CASE Polls
    <2>1. /\ send_status' \in {"IDLE", "INPROGRESS"} /\ granted' \in BOOLEAN
          /\ left' \in Nat /\ (send_status' = "INPROGRESS" => left' > 0)
          /\ misrouted' \subseteq Nat
      BY <1>16, PollEffect DEF Polls
    <2>2. receive_status' \in {"IDLE", "INPROGRESS", "FULL"}
      BY <1>16 DEF Polls, PollReceive
    <2>3. QED BY <1>16, <2>1, <2>2 DEF Polls, Goes, TypeOK
  <1>17. CASE Forwards
    BY <1>17 DEF Forwards, Goes, TypeOK, link_vars, route_vars
  <1>18. CASE StopBegins
    BY <1>18, ZenonT(30) DEF StopBegins, Stops, TypeOK, link_vars, route_vars
  <1>19. CASE StopGives
    BY <1>19 DEF StopGives, Stops, TypeOK, link_vars, route_vars
  <1>20. CASE StopJoins
    BY <1>20 DEF StopJoins, Stops, TypeOK, link_vars, route_vars
  <1>21. CASE StopQueues
    <2>1. queue' \in Seq(Messages) /\ Len(queue') <= QueueSize
      BY <1>21, SentinelType, QueueAppend, TaskConstants DEF StopQueues, TypeOK
    <2>2. QED BY <1>21, <2>1 DEF StopQueues, Stops, TypeOK, link_vars, route_vars
  <1>22. CASE StopEndsHere
    BY <1>22 DEF StopEndsHere, Stops, TypeOK, link_vars, route_vars
  <1>23. CASE UNCHANGED tasks_vars
    BY <1>23 DEF tasks_vars, TypeOK, link_vars, route_vars
  <1>24. QED BY <1>1, <1>2, <1>3, <1>4, <1>5, <1>6, <1>7, <1>8, <1>9,
       <1>10, <1>11, <1>12, <1>13, <1>14, <1>15, <1>16, <1>17, <1>18, <1>19,
       <1>20, <1>21, <1>22, <1>23 DEF TasksNext, SendTask, ProcessingTask,
       StopTask

LEMMA MessageStep == TypeOK /\ MessageInv /\ [TasksNext]_tasks_vars => MessageInv'
  <1> SUFFICES ASSUME TypeOK, MessageInv, [TasksNext]_tasks_vars PROVE MessageInv'
    OBVIOUS
  <1>1. ASSUME NEW conv \in BOOLEAN, NEW frames \in 1..MaxFrames, Enqueue(conv, frames) PROVE MessageInv'
    <2>1. Message(messages', conv, frames) \in Messages /\ Message(messages', conv, frames).frames > 0
      BY <1>1, MessageType, TaskConstants DEF Enqueue, TypeOK
    <2>2. ASSUME isotp_run_tasks', NEW k \in 1..Len(queue') PROVE queue'[k].frames > 0
      <3>1. k \in 1..Len(queue) \/ k = Len(queue) + 1
        BY <1>1, <2>1, QueueAppend DEF Enqueue, TypeOK
      <3>2. QED BY <1>1, <2>1, <2>2, <3>1, QueueAppend DEF Enqueue, TypeOK, MessageInv
    <2>3. QED BY <1>1, <2>2 DEF Enqueue, MessageInv
  <1>2. CASE SendLoop
    BY <1>2 DEF SendLoop, MessageInv
  <1>3. CASE SendReceive
    <2>1. isotp_run_tasks => taken'.frames > 0
      BY <1>3, QueueTail DEF SendReceive, TypeOK, MessageInv
    <2>2. ASSUME isotp_run_tasks', NEW k \in 1..Len(queue') PROVE queue'[k].frames > 0
      <3>1. k + 1 \in 1..Len(queue) /\ queue'[k] = queue[k + 1]
        BY <1>3, QueueTail DEF SendReceive, TypeOK
      <3>2. QED BY <1>3, <2>2, <3>1 DEF SendReceive, MessageInv
    <2>3. QED BY <1>3, <2>1, <2>2 DEF SendReceive, MessageInv
  <1>4. CASE SendCheck
    BY <1>4 DEF SendCheck, MessageInv
  <1>5. CASE SendLocked
    BY <1>5 DEF SendLocked, MessageInv
  <1>6. CASE SendGives
    BY <1>6 DEF SendGives, MessageInv
  <1>7. CASE SendTimesOut
    BY <1>7 DEF SendTimesOut, MessageInv
  <1>8. ASSUME NEW t \in Receivers, FlowControlArrives(t) PROVE MessageInv'
    BY <1>8 DEF FlowControlArrives, MessageInv
  <1>9. ASSUME NEW t \in Receivers, DataArrives(t) PROVE MessageInv'
    BY <1>9 DEF DataArrives, MessageInv
  <1>10. ASSUME NEW t \in Receivers, ReceiveGives(t) PROVE MessageInv'
    BY <1>10 DEF ReceiveGives, MessageInv
  <1>11. CASE ProcessLoop
    BY <1>11 DEF ProcessLoop, Goes, MessageInv
  <1>12. CASE LookSend
    BY <1>12 DEF LookSend, Goes, MessageInv
  <1>13. CASE LookReceive
    BY <1>13 DEF LookReceive, Goes, MessageInv
  <1>14. CASE Wakes
    BY <1>14 DEF Wakes, Goes, MessageInv
  <1>15. CASE SleepTimesOut
    BY <1>15 DEF SleepTimesOut, Goes, MessageInv
  <1>16. CASE Polls
    BY <1>16 DEF Polls, Goes, MessageInv
  <1>17. CASE Forwards
    BY <1>17 DEF Forwards, Goes, MessageInv
  <1>18. CASE StopBegins
    BY <1>18 DEF StopBegins, Stops, MessageInv
  <1>19. CASE StopGives
    BY <1>19 DEF StopGives, Stops, MessageInv
  <1>20. CASE StopJoins
    BY <1>20 DEF StopJoins, Stops, MessageInv
  <1>21. CASE StopQueues
    BY <1>21 DEF StopQueues, Stops, MessageInv
  <1>22. CASE StopEndsHere
    BY <1>22 DEF StopEndsHere, Stops, MessageInv
  <1>23. CASE UNCHANGED tasks_vars
    BY <1>23 DEF tasks_vars, MessageInv
  <1>24. QED BY <1>1, <1>2, <1>3, <1>4, <1>5, <1>6, <1>7, <1>8, <1>9,
       <1>10, <1>11, <1>12, <1>13, <1>14, <1>15, <1>16, <1>17, <1>18, <1>19,
       <1>20, <1>21, <1>22, <1>23 DEF TasksNext, SendTask, ProcessingTask,
       StopTask

LEMMA AwakeStep == TypeOK /\ AwakeInv /\ [TasksNext]_tasks_vars => AwakeInv'
  <1> SUFFICES ASSUME TypeOK, AwakeInv, [TasksNext]_tasks_vars PROVE AwakeInv'
    OBVIOUS
  <1>1. ASSUME NEW conv \in BOOLEAN, NEW frames \in 1..MaxFrames, Enqueue(conv, frames) PROVE AwakeInv'
    BY <1>1 DEF Enqueue, TypeOK, AwakeInv, Alarm, link_vars
  <1>2. CASE SendLoop
    BY <1>2 DEF SendLoop, TypeOK, AwakeInv, Alarm, link_vars
  <1>3. CASE SendReceive
    BY <1>3 DEF SendReceive, TypeOK, AwakeInv, Alarm, link_vars
  <1>4. CASE SendCheck
    BY <1>4 DEF SendCheck, TypeOK, AwakeInv, Alarm, link_vars
  <1>5. CASE SendLocked
    BY <1>5 DEF SendLocked, TypeOK, AwakeInv, Alarm, link_vars
  <1>6. CASE SendGives
    BY <1>6 DEF SendGives, TypeOK, AwakeInv, Alarm, link_vars
  <1>7. CASE SendTimesOut
    BY <1>7 DEF SendTimesOut, TypeOK, AwakeInv, Alarm, link_vars
  <1>8. ASSUME NEW t \in Receivers, FlowControlArrives(t) PROVE AwakeInv'
    <2>1. receiving'[t] = "give"
      BY <1>8, ReceivingType DEF FlowControlArrives, TypeOK
    <2>2. QED BY <2>1 DEF AwakeInv, Alarm
  <1>9. ASSUME NEW t \in Receivers, DataArrives(t) PROVE AwakeInv'
    <2>1. receiving'[t] = "give"
      BY <1>9, ReceivingType DEF DataArrives, TypeOK
    <2>2. QED BY <2>1 DEF AwakeInv, Alarm
  <1>10. ASSUME NEW t \in Receivers, ReceiveGives(t) PROVE AwakeInv'
    BY <1>10 DEF ReceiveGives, TypeOK, AwakeInv, Alarm, link_vars
  <1>11. CASE ProcessLoop
    BY <1>11 DEF ProcessLoop, Goes, TypeOK, AwakeInv, Alarm, link_vars
  <1>12. CASE LookSend
    BY <1>12 DEF LookSend, Goes, TypeOK, AwakeInv, Alarm, link_vars
  <1>13. CASE LookReceive
    BY <1>13 DEF LookReceive, Goes, TypeOK, AwakeInv, Alarm, link_vars
  <1>14. CASE Wakes
    BY <1>14 DEF Wakes, Goes, TypeOK, AwakeInv, Alarm, link_vars
  <1>15. CASE SleepTimesOut
    BY <1>15 DEF SleepTimesOut, Goes, TypeOK, AwakeInv, Alarm, link_vars
  <1>16. CASE Polls
    <2>1. receive_status' # "FULL" /\ processing' \notin {"look_receive", "sleep"}
      BY <1>16 DEF Polls, PollReceive, Goes
    <2>2. QED BY <2>1 DEF AwakeInv
  <1>17. CASE Forwards
    BY <1>17 DEF Forwards, Goes, TypeOK, AwakeInv, Alarm, link_vars
  <1>18. CASE StopBegins
    BY <1>18 DEF StopBegins, Stops, TypeOK, AwakeInv, Alarm, link_vars
  <1>19. CASE StopGives
    BY <1>19 DEF StopGives, Stops, TypeOK, AwakeInv, Alarm, link_vars
  <1>20. CASE StopJoins
    BY <1>20 DEF StopJoins, Stops, TypeOK, AwakeInv, Alarm, link_vars
  <1>21. CASE StopQueues
    BY <1>21 DEF StopQueues, Stops, TypeOK, AwakeInv, Alarm, link_vars
  <1>22. CASE StopEndsHere
    BY <1>22 DEF StopEndsHere, Stops, TypeOK, AwakeInv, Alarm, link_vars
  <1>23. CASE UNCHANGED tasks_vars
    BY <1>23 DEF tasks_vars, TypeOK, AwakeInv, Alarm, link_vars
  <1>24. QED BY <1>1, <1>2, <1>3, <1>4, <1>5, <1>6, <1>7, <1>8, <1>9,
       <1>10, <1>11, <1>12, <1>13, <1>14, <1>15, <1>16, <1>17, <1>18, <1>19,
       <1>20, <1>21, <1>22, <1>23 DEF TasksNext, SendTask, ProcessingTask,
       StopTask

LEMMA RouteStep == TypeOK /\ RouteInv /\ [TasksNext]_tasks_vars => RouteInv'
  <1> SUFFICES ASSUME TypeOK, RouteInv, [TasksNext]_tasks_vars PROVE RouteInv'
    OBVIOUS
  <1>1. ASSUME NEW conv \in BOOLEAN, NEW frames \in 1..MaxFrames, Enqueue(conv, frames) PROVE RouteInv'
    BY <1>1 DEF Enqueue, RouteInv, link_vars, route_vars
  <1>2. CASE SendLoop
    BY <1>2 DEF SendLoop, RouteInv, link_vars, route_vars
  <1>3. CASE SendReceive
    BY <1>3 DEF SendReceive, RouteInv, link_vars, route_vars
  <1>4. CASE SendCheck
    BY <1>4 DEF SendCheck, RouteInv, link_vars, route_vars
  <1>5. CASE SendLocked
    BY <1>5 DEF SendLocked, IsotpSend, Route, TypeOK, RouteInv
  <1>6. CASE SendGives
    BY <1>6 DEF SendGives, RouteInv, link_vars, route_vars
  <1>7. CASE SendTimesOut
    BY <1>7 DEF SendTimesOut, RouteInv, link_vars, route_vars
  <1>8. ASSUME NEW t \in Receivers, FlowControlArrives(t) PROVE RouteInv'
    BY <1>8 DEF FlowControlArrives, route_vars, RouteInv, TypeOK
  <1>9. ASSUME NEW t \in Receivers, DataArrives(t) PROVE RouteInv'
    BY <1>9 DEF DataArrives, RouteInv, link_vars, route_vars
  <1>10. ASSUME NEW t \in Receivers, ReceiveGives(t) PROVE RouteInv'
    BY <1>10 DEF ReceiveGives, RouteInv, link_vars, route_vars
  <1>11. CASE ProcessLoop
    BY <1>11 DEF ProcessLoop, Goes, RouteInv, link_vars, route_vars
  <1>12. CASE LookSend
    BY <1>12 DEF LookSend, Goes, RouteInv, link_vars, route_vars
  <1>13. CASE LookReceive
    BY <1>13 DEF LookReceive, Goes, RouteInv, link_vars, route_vars
  <1>14. CASE Wakes
    BY <1>14 DEF Wakes, Goes, RouteInv, link_vars, route_vars
  <1>15. CASE SleepTimesOut
    BY <1>15 DEF SleepTimesOut, Goes, RouteInv, link_vars, route_vars
  <1>16. CASE Polls
    BY <1>16 DEF Polls, PollSend, PollSendsFrame, Route, Goes, TypeOK, RouteInv
  <1>17. CASE Forwards
    BY <1>17 DEF Forwards, Goes, RouteInv, link_vars, route_vars
  <1>18. CASE StopBegins
    BY <1>18 DEF StopBegins, Stops, RouteInv, link_vars, route_vars
  <1>19. CASE StopGives
    BY <1>19 DEF StopGives, Stops, RouteInv, link_vars, route_vars
  <1>20. CASE StopJoins
    BY <1>20 DEF StopJoins, Stops, RouteInv, link_vars, route_vars
  <1>21. CASE StopQueues
    BY <1>21 DEF StopQueues, Stops, RouteInv, link_vars, route_vars
  <1>22. CASE StopEndsHere
    BY <1>22 DEF StopEndsHere, Stops, RouteInv, link_vars, route_vars
  <1>23. CASE UNCHANGED tasks_vars
    BY <1>23 DEF tasks_vars, RouteInv, link_vars, route_vars
  <1>24. QED BY <1>1, <1>2, <1>3, <1>4, <1>5, <1>6, <1>7, <1>8, <1>9,
       <1>10, <1>11, <1>12, <1>13, <1>14, <1>15, <1>16, <1>17, <1>18, <1>19,
       <1>20, <1>21, <1>22, <1>23 DEF TasksNext, SendTask, ProcessingTask,
       StopTask

-----------------------------------------------------------------------------
(* TypeOK: no frame count of isotp_send_queue_task and isotp_poll falls     *)
(* below zero, so nothing but messages with frames reaches the link.       *)
THEOREM TasksTypeCorrect == TasksSpec => []TypeOK
  <1>1. TasksInit => (TypeOK /\ MessageInv)
    BY TasksInitHolds
  <1>2. (TypeOK /\ MessageInv) /\ [TasksNext]_tasks_vars => ((TypeOK /\ MessageInv))'
    BY TypeStep, MessageStep
  <1>3. (TypeOK /\ MessageInv) => TypeOK
    OBVIOUS
  <1>4. QED BY <1>1, <1>2, <1>3, PTL DEF TasksSpec

(* AwakeForWork: isotp_processing_task reads the statuses without the lock  *)
(* and one after the other, and still never sleeps on work unwoken.        *)
THEOREM ProcessingStaysAwake == TasksSpec => []AwakeForWork
  <1>1. TasksInit => (TypeOK /\ MessageInv /\ AwakeInv)
    BY TasksInitHolds
  <1>2. (TypeOK /\ MessageInv /\ AwakeInv) /\ [TasksNext]_tasks_vars => ((TypeOK /\ MessageInv /\ AwakeInv))'
    BY TypeStep, MessageStep, AwakeStep
  <1>3. (TypeOK /\ MessageInv /\ AwakeInv) => AwakeForWork
    BY DEF AwakeForWork, HasWork, AwakeInv, TypeOK
  <1>4. QED BY <1>1, <1>2, <1>3, PTL DEF TasksSpec

(* RoutedUnlessDisturbed: use_conv_can changes under a message in progress  *)
(* only by a message the link refuses.                                     *)
THEOREM RouteKept == TasksSpec => []RoutedUnlessDisturbed
  <1>1. TasksInit => (TypeOK /\ MessageInv /\ RouteInv)
    BY TasksInitHolds
  <1>2. (TypeOK /\ MessageInv /\ RouteInv) /\ [TasksNext]_tasks_vars => ((TypeOK /\ MessageInv /\ RouteInv))'
    BY TypeStep, MessageStep, RouteStep
  <1>3. (TypeOK /\ MessageInv /\ RouteInv) => RoutedUnlessDisturbed
    BY DEF RoutedUnlessDisturbed, RouteInv
  <1>4. QED BY <1>1, <1>2, <1>3, PTL DEF TasksSpec

-----------------------------------------------------------------------------
(* Packets (PacketReceive): their bytes, and what is where.                *)

Ways == {"none", "write", "parts", "long", "uart"}

(* Packets clients write, those written up to now, and their bytes.        *)
PacketSet == [id : Nat, kind : {"message", "persist", "set", "get"}, number : Nat, size : Nat,
              way : Ways]

Known == {p \in PacketSet : p.id <= packets}

BytesOf(K) == [packet : K, place : Nat]

ByteSet == BytesOf(Known)

Content == [header : Known, data : Seq(ByteSet)]

TypeInv ==
    /\ split_enabled \in BOOLEAN /\ split_header \in Known
    /\ split_data \in Seq(ByteSet) /\ split_count \in Nat
    /\ held \in [by : {"none", "write", "long", "uart"}, bytes : Seq(ByteSet)]
    /\ persist_mode \in BOOLEAN
    /\ settings \in [DOMAIN SettingSizes -> Known] /\ asked \in [DOMAIN SettingSizes -> Known]
    /\ SppRecvDataBuff \in [bytes : Seq(ByteSet), fits : Nat]
    /\ SppRecvDataBuff.fits <= Len(SppRecvDataBuff.bytes)
    /\ is_connected \in BOOLEAN
    /\ client \in [way : {"none", "write", "parts", "long"}, packet : Known,
                   bytes : Seq(ByteSet), number : Nat]
    /\ uart \in Seq(ByteSet)
    /\ packets \in Nat /\ links \in Nat /\ faults \in Nat
    /\ parsed \in Seq(Content)
    /\ complete \subseteq Known /\ lost \subseteq Known
    /\ spoiled \in BOOLEAN /\ headLost \in BOOLEAN

Start(s, i) == i - s[i].place

(* Whole packets, one behind the other, none of them twice.                *)
WholeAt(s, i) ==
    /\ Start(s, i) >= 0 /\ s[i].place \in 1..Length(s[i].packet)
    /\ Start(s, i) + Length(s[i].packet) <= Len(s)
    /\ \A k \in 1..Length(s[i].packet) : s[Start(s, i) + k] = Byte(s[i].packet, k)
    /\ \A j \in DOMAIN s : s[j].packet = s[i].packet => Start(s, j) = Start(s, i)

Whole(s) == \A i \in DOMAIN s : WholeAt(s, i)

Of(s, way) == \A k \in DOMAIN s : s[k].packet.way = way

(* The beginning of one packet.                                            *)
FrontOf(s) == \A k \in DOMAIN s : s[k] = Byte(s[1].packet, k) /\ k <= Length(s[1].packet)

(* Bytes of a packet behind its header, without the first.                 *)
RestOf(t, p) == \A k \in DOMAIN t : t[k].packet = p /\ t[k].place > HeaderSize + 1

(* What is left of the packets before the head of one in parts, and the    *)
(* head: with what the client has left to write they are whole.            *)
HeadHeld ==
    /\ client.way = "parts" /\ client.number = 1
    /\ Whole(Arrived \o client.bytes)
    /\ \A p \in PacketsIn(Arrived) : p.way = "write" \/ p = client.packet
    /\ RestOf(client.bytes, client.packet)

ArrivedInv ==
    /\ held.by = "none" => Arrived = <<>>
    /\ held.by # "none" => ~split_enabled
    /\ held.by = "uart" => uart = <<>> /\ Whole(Arrived) /\ Of(Arrived, "uart")
    /\ held.by = "write" =>
          HeadHeld \/ (client.way = "none" /\ Whole(Arrived) /\ Of(Arrived, "write"))
    /\ held.by = "long" =>
          client.way = "none" /\ Of(Arrived, "long") /\ (~spoiled => FrontOf(Arrived))

SenderInv ==
    /\ client.way = "none" => client = Idle
    /\ client.way = "write" => Whole(client.bytes) /\ Of(client.bytes, "write")
    /\ client.way = "parts" => client.packet.way = "parts" /\ client.bytes # <<>>
    /\ client.way = "long" => client.packet.way = "long" /\ Of(client.bytes, "long")
    /\ Whole(uart) /\ Of(uart, "uart")

StoredInv ==
    /\ Of(SppRecvDataBuff.bytes, "long")
    /\ client.way = "long" /\ ~spoiled =>
          SppRecvDataBuff.bytes \o client.bytes = Bytes(client.packet)
    /\ client.way # "long" /\ held.by # "long" /\ ~spoiled => SppRecvDataBuff.bytes = <<>>

SplitInv ==
    /\ split_enabled => split_header.way \in {"parts", "long"}
    /\ client.way = "parts" /\ ~headLost /\ split_enabled =>
          /\ split_header = client.packet
          /\ Len(split_data) + Len(client.bytes) <= client.packet.size
          /\ Len(split_data) + Len(client.bytes) = client.packet.size =>
                split_data \o client.bytes = Payload(client.packet)

FreshInv ==
    /\ PacketsIn(uart) \cap Parsed = {}
    /\ client.way = "write" => PacketsIn(client.bytes) \cap Parsed = {}
    /\ client.way = "parts" /\ ~headLost => client.packet \notin Parsed
    /\ client.way = "long" /\ ~spoiled => client.packet \notin Parsed
    /\ ~(held.by = "long" /\ spoiled) => PacketsIn(Arrived) \cap Parsed = {}

InOrder ==
    /\ split_enabled /\ split_header = client.packet
    /\ split_data # <<>> /\ split_count = client.number
    /\ split_data \o client.bytes = Payload(client.packet)

CompleteInv ==
    /\ \A p \in complete :
          \/ p \in Parsed \cup lost
          \/ p \in PacketsIn(Arrived) /\ (Whole(Arrived) \/ (HeadHeld /\ p # client.packet))
    /\ client.way = "parts" => client.packet \in lost \/ held.by = "write" \/ InOrder

IInv ==
    TypeInv /\ ArrivedInv /\ SenderInv /\ StoredInv /\ SplitInv /\ FreshInv /\ CompleteInv

(* Each setting was set by a packet parsed, and is asked for by one handed *)
(* in that names it.                                                       *)
SourceInv ==
    \A s \in DOMAIN SettingSizes :
        /\ settings[s] = NoPacket \/ settings[s] \in Parsed
        /\ asked[s] = NoPacket \/ (asked[s] \in complete /\ Names(asked[s], s))

(* What is about to be parsed and names a setting is the last to name it,  *)
(* or the last is behind it, unless something happened to that.            *)
LatestInv ==
    \A s \in DOMAIN SettingSizes, k \in 1..Len(Arrived) :
        Arrived[k].packet \in complete \ lost /\ Names(Arrived[k].packet, s) =>
            \/ asked[s] = Arrived[k].packet \/ asked[s] \in lost
            \/ \E j \in (k + 1)..Len(Arrived) : Arrived[j].packet = asked[s]

(* Mixed fragments are of packets not handed in, or of one that counts as  *)
(* lost.                                                                   *)
MixedInv ==
    /\ spoiled => PacketsIn(SppRecvDataBuff.bytes) \cap complete \subseteq lost
    /\ spoiled /\ held.by = "long" => PacketsIn(Arrived) \cap complete \subseteq lost
    /\ client.way = "long" =>
          client.packet \notin complete /\ PacketsIn(client.bytes) \subseteq {client.packet}

(* What parts are gathered for has not been handed in, or counts as lost.  *)
GatheredInv ==
    /\ split_enabled /\ split_header \in complete => split_header \in lost
    /\ headLost /\ client.way = "parts" => client.packet \in lost

SInv == SourceInv /\ SettingsAsAsked /\ LatestInv /\ MixedInv /\ GatheredInv

-----------------------------------------------------------------------------
(* Sequences: the first n elements, and the rest.                          *)
LEMMA FromIs ==
  ASSUME NEW S, NEW s \in Seq(S), NEW n \in 0..Len(s)
  PROVE  /\ From(s, n) \in Seq(S) /\ Len(From(s, n)) = Len(s) - n
         /\ \A i \in 1..(Len(s) - n) : From(s, n)[i] = s[i + n]
  <1>1. Len(s) \in Nat /\ n \in Nat /\ \A i \in 1..Len(s) : s[i] \in S
    BY LenProperties, ElementOfSeq
  <1>2. \A i \in (n + 1)..Len(s) : s[i] \in S
    BY <1>1
  <1>3. n + 1 \in Int /\ Len(s) \in Int
    BY <1>1
  <1>. DEFINE t == SubSeq(s, n + 1, Len(s))
  <1>4. /\ t \in Seq(S)
        /\ Len(t) = IF n + 1 <= Len(s) THEN Len(s) - (n + 1) + 1 ELSE 0
        /\ \A i \in 1..(Len(s) - (n + 1) + 1) : t[i] = s[(n + 1) + i - 1]
    BY <1>2, <1>3, SubSeqProperties
  <1>. HIDE DEF t
  <1>5. Len(t) = Len(s) - n
    BY <1>1, <1>4
  <1>6. \A i \in 1..(Len(s) - n) : t[i] = s[i + n]
    <2> SUFFICES ASSUME NEW i \in 1..(Len(s) - n) PROVE t[i] = s[i + n]
      OBVIOUS
    <2>1. i \in 1..(Len(s) - (n + 1) + 1) /\ (n + 1) + i - 1 = i + n
      BY <1>1
    <2> QED
      BY <2>1, <1>4
  <1> QED
    BY <1>4, <1>5, <1>6 DEF t, From

LEMMA UpToIs ==
  ASSUME NEW S, NEW s \in Seq(S), NEW n \in 0..Len(s)
  PROVE  /\ SubSeq(s, 1, n) \in Seq(S) /\ Len(SubSeq(s, 1, n)) = n
         /\ \A i \in 1..n : SubSeq(s, 1, n)[i] = s[i]
         /\ SubSeq(s, 1, n) \o From(s, n) = s
  <1>1. Len(s) \in Nat /\ n \in Nat /\ n \in Int /\ n <= Len(s)
    BY LenProperties
  <1>2. \A i \in 1..n : s[i] \in S
    BY <1>1, ElementOfSeq
  <1>. DEFINE t == SubSeq(s, 1, n)
  <1>3. /\ t \in Seq(S) /\ Len(t) = IF 1 <= n THEN n - 1 + 1 ELSE 0
        /\ \A i \in 1..(n - 1 + 1) : t[i] = s[1 + i - 1]
    BY <1>1, <1>2, SubSeqProperties
  <1>4. t \o From(s, n) = s
    <2>1. 1 \in 1..(Len(s) + 1) /\ n \in (1 - 1)..Len(s) /\ Len(s) \in n..Len(s)
      BY <1>1
    <2>2. SubSeq(s, 1, n) \o SubSeq(s, n + 1, Len(s)) = SubSeq(s, 1, Len(s))
      BY <2>1, ConcatAdjacentSubSeq
    <2>3. SubSeq(s, 1, Len(s)) = s
      BY SubSeqFull
    <2> QED
      BY <2>2, <2>3 DEF From, t
  <1>. HIDE DEF t
  <1>5. Len(t) = n
    BY <1>1, <1>3
  <1>6. \A i \in 1..n : t[i] = s[i]
    BY <1>1, <1>3
  <1> QED
    BY <1>3, <1>4, <1>5, <1>6 DEF t

LEMMA JoinIs ==
  ASSUME NEW S, NEW s \in Seq(S), NEW t \in Seq(S)
  PROVE  /\ s \o t \in Seq(S) /\ Len(s \o t) = Len(s) + Len(t)
         /\ \A i \in 1..Len(s) : (s \o t)[i] = s[i]
         /\ \A i \in (Len(s) + 1)..(Len(s) + Len(t)) : (s \o t)[i] = t[i - Len(s)]
         /\ \A i \in 1..Len(t) : (s \o t)[Len(s) + i] = t[i]
  <1>1. Len(s) \in Nat /\ Len(t) \in Nat
    BY LenProperties
  <1>. DEFINE u == s \o t
  <1>2. /\ u \in Seq(S) /\ Len(u) = Len(s) + Len(t)
        /\ \A i \in 1..(Len(s) + Len(t)) : u[i] = IF i <= Len(s) THEN s[i] ELSE t[i - Len(s)]
    BY ConcatProperties
  <1>. HIDE DEF u
  <1>3. \A i \in 1..Len(s) : u[i] = s[i]
    BY <1>1, <1>2
  <1>4. \A i \in (Len(s) + 1)..(Len(s) + Len(t)) : u[i] = t[i - Len(s)]
    BY <1>1, <1>2
  <1>5. \A i \in 1..Len(t) : u[Len(s) + i] = t[i]
    <2> SUFFICES ASSUME NEW i \in 1..Len(t) PROVE u[Len(s) + i] = t[i]
      OBVIOUS
    <2>1. Len(s) + i \in (Len(s) + 1)..(Len(s) + Len(t)) /\ (Len(s) + i) - Len(s) = i
      BY <1>1
    <2> QED
      BY <2>1, <1>4
  <1> QED
    BY <1>2, <1>3, <1>4, <1>5 DEF u

(* What is put together from a part and the rest of another.               *)
LEMMA PartMoves ==
  ASSUME NEW S, NEW s \in Seq(S), NEW t \in Seq(S), NEW n \in 0..Len(t)
  PROVE  (s \o SubSeq(t, 1, n)) \o From(t, n) = s \o t
  <1>1. SubSeq(t, 1, n) \in Seq(S) /\ From(t, n) \in Seq(S) /\ SubSeq(t, 1, n) \o From(t, n) = t
    BY UpToIs, FromIs
  <1>. DEFINE a == SubSeq(t, 1, n) b == From(t, n)
  <1>. HIDE DEF a, b
  <1>2. a \in Seq(S) /\ b \in Seq(S) /\ a \o b = t
    BY <1>1 DEF a, b
  <1>3. (s \o a) \o b = s \o (a \o b)
    <2>1. s \in Seq(S) /\ a \in Seq(S) /\ b \in Seq(S)
      BY <1>2
    <2> QED
      BY <2>1, ConcatAssociative
  <1> QED
    BY <1>2, <1>3 DEF a, b

LEMMA FromJoin ==
  ASSUME NEW S, NEW s \in Seq(S), NEW t \in Seq(S), NEW n \in 0..Len(s)
  PROVE  From(s \o t, n) = From(s, n) \o t
  <1>1. Len(s) \in Nat /\ Len(t) \in Nat /\ n \in Nat /\ n <= Len(s)
    BY LenProperties
  <1>. DEFINE a == SubSeq(s, 1, n) b == From(s, n)
  <1>2. a \in Seq(S) /\ b \in Seq(S) /\ a \o b = s /\ Len(a) = n
    BY UpToIs, FromIs
  <1>. HIDE DEF a, b
  <1>3. s \o t = a \o (b \o t)
    <2>1. a \in Seq(S) /\ b \in Seq(S) /\ t \in Seq(S)
      BY <1>2
    <2>2. (a \o b) \o t = a \o (b \o t)
      BY <2>1, ConcatAssociative
    <2> QED
      BY <1>2, <2>2
  <1>. DEFINE c == b \o t
  <1>4. c \in Seq(S)
    BY <1>2, JoinIs
  <1>. HIDE DEF c
  <1>5. /\ Len(a \o c) = n + Len(c) /\ a \o c \in Seq(S) /\ Len(c) \in Nat
        /\ \A i \in 1..Len(c) : (a \o c)[n + i] = c[i]
    <2>1. a \in Seq(S) /\ c \in Seq(S)
      BY <1>2, <1>4
    <2>2. /\ a \o c \in Seq(S) /\ Len(a \o c) = Len(a) + Len(c) /\ Len(c) \in Nat
          /\ \A i \in 1..Len(c) : (a \o c)[Len(a) + i] = c[i]
      BY <2>1, JoinIs, LenProperties
    <2> QED
      BY <1>2, <2>2
  <1>. DEFINE d == a \o c
  <1>. HIDE DEF d
  <1>6. /\ Len(d) = n + Len(c) /\ d \in Seq(S) /\ Len(c) \in Nat
        /\ \A i \in 1..Len(c) : d[n + i] = c[i]
    BY <1>5 DEF d
  <1>7. n \in 0..Len(d) /\ Len(d) - n = Len(c)
    BY <1>1, <1>6
  <1>8. /\ From(d, n) \in Seq(S) /\ Len(From(d, n)) = Len(c)
        /\ \A i \in 1..Len(c) : From(d, n)[i] = d[i + n]
    BY <1>6, <1>7, FromIs, ZenonT(30)
  <1>9. \A i \in 1..Len(c) : From(d, n)[i] = c[i]
    <2> SUFFICES ASSUME NEW i \in 1..Len(c) PROVE From(d, n)[i] = c[i]
      OBVIOUS
    <2>1. i + n = n + i
      BY <1>1, <1>6
    <2> QED
      BY <2>1, <1>6, <1>8
  <1>10. From(d, n) = c
    BY <1>4, <1>8, <1>9, SeqEqual
  <1> QED
    BY <1>3, <1>10 DEF d, c, b

-----------------------------------------------------------------------------
(* Packets and their bytes.                                                *)
LEMMA LengthIs ==
  ASSUME NEW p \in PacketSet
  PROVE  /\ p.size \in Nat /\ p.id \in Nat /\ p.number \in Nat /\ p.way \in Ways
         /\ p.kind \in {"message", "persist", "set", "get"}
         /\ HeaderSize \in Nat /\ HeaderSize >= 1
         /\ Length(p) \in Nat /\ Length(p) = HeaderSize + p.size /\ Length(p) >= 1
  BY PacketReceiveConstants DEF PacketSet, Length

LEMMA ByteIs ==
  ASSUME NEW K, NEW b \in BytesOf(K)
  PROVE  b.packet \in K /\ b.place \in Nat
  BY DEF BytesOf

LEMMA BytesIs ==
  ASSUME NEW K, NEW p \in K, p \in PacketSet
  PROVE  /\ Bytes(p) \in Seq(BytesOf(K)) /\ Len(Bytes(p)) = Length(p)
         /\ \A k \in 1..Length(p) : Bytes(p)[k] = Byte(p, k)
         /\ PacketsIn(Bytes(p)) = {p} /\ Of(Bytes(p), p.way)
  <1>1. Length(p) \in Nat /\ Length(p) >= 1
    BY LengthIs
  <1>. DEFINE n == Length(p)
  <1>. HIDE DEF n
  <1>2. n \in Nat /\ n >= 1
    BY <1>1 DEF n
  <1>. DEFINE s == [k \in 1..n |-> Byte(p, k)]
  <1>3. \A k \in 1..n : Byte(p, k) \in BytesOf(K)
    BY <1>2 DEF Byte, BytesOf
  <1>4. s \in Seq(BytesOf(K)) /\ Len(s) = n /\ DOMAIN s = 1..n
    BY <1>2, <1>3
  <1>5. \A k \in 1..n : s[k] = Byte(p, k)
    OBVIOUS
  <1>. HIDE DEF s
  <1>6. PacketsIn(s) = {p}
    <2>1. \A k \in DOMAIN s : s[k].packet = p
      BY <1>4, <1>5 DEF Byte
    <2>2. 1 \in DOMAIN s
      BY <1>2, <1>4
    <2> QED
      BY <2>1, <2>2 DEF PacketsIn
  <1>7. Of(s, p.way)
    BY <1>4, <1>5 DEF Of, Byte
  <1>8. Bytes(p) = s
    BY DEF Bytes, s, n
  <1> QED
    BY <1>4, <1>5, <1>6, <1>7, <1>8 DEF n

LEMMA PacketsInIs ==
  ASSUME NEW S, NEW s \in Seq(S), NEW x
  PROVE  x \in PacketsIn(s) <=> \E k \in 1..Len(s) : s[k].packet = x
  <1>1. DOMAIN s = 1..Len(s)
    BY LenProperties
  <1> QED
    BY <1>1 DEF PacketsIn

LEMMA OfIs ==
  ASSUME NEW S, NEW s \in Seq(S), NEW way
  PROVE  Of(s, way) <=> \A k \in 1..Len(s) : s[k].packet.way = way
  <1>1. DOMAIN s = 1..Len(s)
    BY LenProperties
  <1> QED
    BY <1>1 DEF Of

(* What a part of a sequence holds is in the sequence.                     *)
LEMMA InParts ==
  ASSUME NEW S, NEW s \in Seq(S), NEW n \in 0..Len(s)
  PROVE  /\ PacketsIn(From(s, n)) \subseteq PacketsIn(s)
         /\ PacketsIn(SubSeq(s, 1, n)) \subseteq PacketsIn(s)
         /\ \A way : Of(s, way) => Of(From(s, n), way) /\ Of(SubSeq(s, 1, n), way)
  <1>1. Len(s) \in Nat /\ n \in Nat /\ n <= Len(s)
    BY LenProperties
  <1>. DEFINE a == SubSeq(s, 1, n) b == From(s, n)
  <1>2. a \in Seq(S) /\ Len(a) = n /\ \A k \in 1..n : a[k] = s[k]
    BY UpToIs
  <1>3. b \in Seq(S) /\ Len(b) = Len(s) - n /\ \A k \in 1..(Len(s) - n) : b[k] = s[k + n]
    BY FromIs
  <1>. HIDE DEF a, b
  <1>4. \A k \in 1..Len(a) : k \in 1..Len(s) /\ a[k] = s[k]
    BY <1>1, <1>2
  <1>5. \A k \in 1..Len(b) : k + n \in 1..Len(s) /\ b[k] = s[k + n]
    BY <1>1, <1>3
  <1>6. PacketsIn(a) \subseteq PacketsIn(s)
    <2> SUFFICES ASSUME NEW x \in PacketsIn(a) PROVE x \in PacketsIn(s)
      OBVIOUS
    <2>1. PICK k \in 1..Len(a) : a[k].packet = x
      BY <1>2, PacketsInIs
    <2>2. k \in 1..Len(s) /\ s[k].packet = x
      BY <1>4, <2>1
    <2> QED
      BY <2>2, PacketsInIs
  <1>7. PacketsIn(b) \subseteq PacketsIn(s)
    <2> SUFFICES ASSUME NEW x \in PacketsIn(b) PROVE x \in PacketsIn(s)
      OBVIOUS
    <2>1. PICK k \in 1..Len(b) : b[k].packet = x
      BY <1>3, PacketsInIs
    <2>2. k + n \in 1..Len(s) /\ s[k + n].packet = x
      BY <1>5, <2>1
    <2> QED
      BY <2>2, PacketsInIs
  <1>8. ASSUME NEW way, Of(s, way) PROVE Of(b, way) /\ Of(a, way)
    <2>1. \A k \in 1..Len(s) : s[k].packet.way = way
      BY <1>8, OfIs
    <2>2. \A k \in 1..Len(a) : a[k].packet.way = way
      BY <1>4, <2>1
    <2>3. \A k \in 1..Len(b) : b[k].packet.way = way
      BY <1>5, <2>1
    <2> QED
      BY <1>2, <1>3, <2>2, <2>3, OfIs
  <1> QED
    BY <1>6, <1>7, <1>8 DEF a, b

LEMMA InJoin ==
  ASSUME NEW S, NEW s \in Seq(S), NEW t \in Seq(S)
  PROVE  /\ PacketsIn(s \o t) = PacketsIn(s) \cup PacketsIn(t)
         /\ \A way : Of(s, way) /\ Of(t, way) => Of(s \o t, way)
  <1>1. Len(s) \in Nat /\ Len(t) \in Nat
    BY LenProperties
  <1>. DEFINE u == s \o t
  <1>2. /\ u \in Seq(S) /\ Len(u) = Len(s) + Len(t)
        /\ \A i \in 1..Len(s) : u[i] = s[i]
        /\ \A i \in (Len(s) + 1)..(Len(s) + Len(t)) : u[i] = t[i - Len(s)]
        /\ \A i \in 1..Len(t) : u[Len(s) + i] = t[i]
    BY JoinIs
  <1>. HIDE DEF u
  <1>3. \A i \in 1..Len(u) : \/ i \in 1..Len(s) /\ u[i] = s[i]
                             \/ i - Len(s) \in 1..Len(t) /\ u[i] = t[i - Len(s)]
    <2> SUFFICES ASSUME NEW i \in 1..Len(u), ~(i \in 1..Len(s))
                 PROVE  i - Len(s) \in 1..Len(t) /\ u[i] = t[i - Len(s)]
      BY <1>2
    <2>1. i \in (Len(s) + 1)..(Len(s) + Len(t))
      BY <1>1, <1>2
    <2>2. i - Len(s) \in 1..Len(t)
      BY <1>1, <2>1
    <2> QED
      BY <1>2, <2>1, <2>2
  <1>4. \A i \in 1..Len(s) : i \in 1..Len(u)
    BY <1>1, <1>2
  <1>5. \A i \in 1..Len(t) : Len(s) + i \in 1..Len(u)
    BY <1>1, <1>2
  <1>6. ASSUME NEW x PROVE x \in PacketsIn(u) <=> x \in PacketsIn(s) \/ x \in PacketsIn(t)
    <2>1. x \in PacketsIn(u) <=> \E k \in 1..Len(u) : u[k].packet = x
      BY <1>2, PacketsInIs
    <2>2. x \in PacketsIn(s) <=> \E k \in 1..Len(s) : s[k].packet = x
      BY PacketsInIs
    <2>3. x \in PacketsIn(t) <=> \E k \in 1..Len(t) : t[k].packet = x
      BY PacketsInIs
    <2>4. ASSUME NEW k \in 1..Len(u), u[k].packet = x
          PROVE  x \in PacketsIn(s) \/ x \in PacketsIn(t)
      BY <1>3, <2>2, <2>3, <2>4
    <2>5. ASSUME NEW k \in 1..Len(s), s[k].packet = x PROVE x \in PacketsIn(u)
      BY <1>2, <1>4, <2>1, <2>5
    <2>6. ASSUME NEW k \in 1..Len(t), t[k].packet = x PROVE x \in PacketsIn(u)
      BY <1>2, <1>5, <2>1, <2>6
    <2> QED
      BY <2>1, <2>2, <2>3, <2>4, <2>5, <2>6
  <1>7. ASSUME NEW way, Of(s, way), Of(t, way) PROVE Of(u, way)
    <2>1. \A k \in 1..Len(s) : s[k].packet.way = way
      BY <1>7, OfIs
    <2>2. \A k \in 1..Len(t) : t[k].packet.way = way
      BY <1>7, OfIs
    <2>3. \A k \in 1..Len(u) : u[k].packet.way = way
      BY <1>3, <2>1, <2>2
    <2> QED
      BY <1>2, <2>3, OfIs
  <1> QED
    BY <1>6, <1>7 DEF u

LEMMA InNone == PacketsIn(<<>>) = {} /\ Whole(<<>>) /\ FrontOf(<<>>) /\ \A way : Of(<<>>, way)
  <1>1. DOMAIN <<>> = {}
    OBVIOUS
  <1> QED
    BY <1>1 DEF PacketsIn, Whole, FrontOf, Of

LEMMA WholeIs ==
  ASSUME NEW S, NEW s \in Seq(S), Whole(s), NEW i \in 1..Len(s)
  PROVE  WholeAt(s, i)
  <1>1. DOMAIN s = 1..Len(s)
    BY LenProperties
  <1> QED
    BY <1>1 DEF Whole

(* WholeAt, of an element that is byte number place of a packet of n bytes. *)
Lies(s, i, p, place, n) ==
    /\ i - place >= 0 /\ place \in 1..n /\ (i - place) + n <= Len(s)
    /\ \A k \in 1..n : s[(i - place) + k] = Byte(p, k)
    /\ \A j \in 1..Len(s) : s[j].packet = p => j - s[j].place = i - place

LEMMA WholeAtIs ==
  ASSUME NEW S, NEW s \in Seq(S), NEW i \in 1..Len(s), NEW p, NEW place, NEW n,
         s[i].packet = p, s[i].place = place, Length(p) = n
  PROVE  WholeAt(s, i) <=> Lies(s, i, p, place, n)
  <1>1. DOMAIN s = 1..Len(s)
    BY LenProperties
  <1> QED
    BY <1>1 DEF WholeAt, Start, Lies

LEMMA WholeAdds ==
  ASSUME NEW s \in Seq(BytesOf(PacketSet)), Whole(s), NEW p \in PacketSet, p \notin PacketsIn(s)
  PROVE  Whole(s \o Bytes(p))
  <1>. DEFINE b == Bytes(p) u == s \o b m == Len(s) n == Length(p) B == BytesOf(PacketSet)
  <1>1. /\ b \in Seq(B) /\ Len(b) = n /\ \A k \in 1..n : b[k] = Byte(p, k)
        /\ n \in Nat /\ n >= 1 /\ m \in Nat
    BY BytesIs, LengthIs, LenProperties
  <1>. HIDE DEF b
  <1>2. /\ u \in Seq(B) /\ Len(u) = m + n
        /\ \A i \in 1..m : u[i] = s[i]
        /\ \A i \in 1..n : u[m + i] = b[i]
    <2>1. s \in Seq(B) /\ b \in Seq(B) /\ Len(b) = n /\ u = s \o b /\ m = Len(s)
      BY <1>1
    <2>. HIDE DEF B, n, u, m
    <2>2. s \o b \in Seq(B) /\ Len(s \o b) = Len(s) + Len(b)
      BY <2>1, JoinIs
    <2>3. \A i \in 1..Len(s) : (s \o b)[i] = s[i]
      BY <2>1, JoinIs
    <2>4. \A i \in 1..Len(b) : (s \o b)[Len(s) + i] = b[i]
      BY <2>1, JoinIs
    <2> QED
      BY <2>1, <2>2, <2>3, <2>4
  <1>. HIDE DEF u, m, n
  <1>3. \A i \in 1..n : u[m + i] = Byte(p, i)
    BY <1>1, <1>2
  <1>4. \A i \in 1..(m + n) : i \in 1..m \/ i - m \in 1..n
    BY <1>1
  <1>5. \A j \in 1..m : s[j].packet # p
    BY PacketsInIs DEF m
  <1>6. \A i \in (m + 1)..(m + n) : u[i].packet = p /\ u[i].place = i - m
    <2> SUFFICES ASSUME NEW i \in (m + 1)..(m + n) PROVE u[i].packet = p /\ u[i].place = i - m
      OBVIOUS
    <2>1. i - m \in 1..n /\ m + (i - m) = i
      BY <1>1
    <2>2. u[i] = Byte(p, i - m)
      BY <1>3, <2>1
    <2> QED
      BY <2>2 DEF Byte
  <1>7. ASSUME NEW i \in 1..m PROVE WholeAt(u, i)
    <2>. DEFINE q == s[i].packet place == s[i].place l == Length(q)
    <2>1. s[i] \in B /\ i \in 1..Len(s)
      BY <1>7, ElementOfSeq DEF m
    <2>2. q \in PacketSet /\ place \in Nat
      BY <2>1, ByteIs
    <2>3. l \in Nat
      BY <2>2, LengthIs
    <2>. HIDE DEF q, place, l
    <2>4. WholeAt(s, i)
      BY <2>1, WholeIs
    <2>5. /\ i - place >= 0 /\ place \in 1..l /\ (i - place) + l <= m
          /\ \A k \in 1..l : s[(i - place) + k] = Byte(q, k)
          /\ \A j \in 1..m : s[j].packet = q => j - s[j].place = i - place
      <3>1. Lies(s, i, q, place, l)
        BY <2>1, <2>4, WholeAtIs DEF q, place, l
      <3> QED
        BY <3>1 DEF Lies, m
    <2>6. u[i].packet = q /\ u[i].place = place /\ q # p
      BY <1>2, <1>5, <1>7 DEF q, place
    <2>7. (i - place) + l <= m + n
      BY <1>1, <2>2, <2>3, <2>5
    <2>8. \A k \in 1..l : u[(i - place) + k] = Byte(q, k)
      <3> SUFFICES ASSUME NEW k \in 1..l PROVE u[(i - place) + k] = Byte(q, k)
        OBVIOUS
      <3>1. (i - place) + k \in 1..m
        BY <1>1, <2>2, <2>3, <2>5
      <3> QED
        BY <1>2, <2>5, <3>1
    <2>9. ASSUME NEW j \in 1..(m + n), u[j].packet = q PROVE j - u[j].place = i - place
      <3>1. j \in 1..m
        <4>1. ~(j \in (m + 1)..(m + n))
          BY <1>6, <2>6, <2>9
        <4> QED
          BY <1>1, <4>1
      <3>2. u[j] = s[j]
        BY <1>2, <3>1
      <3> QED
        BY <2>5, <2>9, <3>1, <3>2
    <2>10. i \in 1..Len(u)
      BY <1>1, <1>2
    <2>11. Lies(u, i, q, place, l)
      BY <1>2, <2>5, <2>7, <2>8, <2>9 DEF Lies
    <2>12. Length(q) = l
      BY DEF l
    <2> QED
      BY <1>2, <2>6, <2>10, <2>11, <2>12, WholeAtIs
  <1>8. ASSUME NEW i \in (m + 1)..(m + n) PROVE WholeAt(u, i)
    <2>. DEFINE place == i - m
    <2>1. place \in 1..n /\ i - place = m /\ place \in Nat
      BY <1>1
    <2>2. u[i].packet = p /\ u[i].place = place
      BY <1>6
    <2>. HIDE DEF place
    <2>3. \A k \in 1..n : u[(i - place) + k] = Byte(p, k)
      BY <1>3, <2>1
    <2>4. ASSUME NEW j \in 1..(m + n), u[j].packet = p PROVE j - u[j].place = i - place
      <3>1. j \in (m + 1)..(m + n)
        <4>1. ~(j \in 1..m)
          BY <1>2, <1>5, <2>4
        <4> QED
          BY <1>1, <4>1
      <3>2. u[j].place = j - m
        BY <1>6, <3>1
      <3> QED
        BY <1>1, <2>1, <3>1, <3>2
    <2>5. i \in 1..Len(u) /\ i - place >= 0 /\ (i - place) + n <= m + n
      BY <1>1, <1>2, <2>1
    <2>6. Lies(u, i, p, place, n)
      BY <1>2, <2>1, <2>3, <2>4, <2>5 DEF Lies
    <2>7. Length(p) = n
      BY DEF n
    <2> QED
      BY <1>2, <2>2, <2>5, <2>6, <2>7, WholeAtIs
  <1>9. \A i \in 1..Len(u) : WholeAt(u, i)
    BY <1>1, <1>2, <1>7, <1>8
  <1>10. Whole(u)
    BY <1>2, <1>9, LenProperties DEF Whole
  <1> QED
    BY <1>10 DEF u, b

LEMMA WholeOne == ASSUME NEW p \in PacketSet PROVE Whole(Bytes(p))
  <1>1. Bytes(p) \in Seq(BytesOf(PacketSet)) /\ <<>> \in Seq(BytesOf(PacketSet))
    BY BytesIs, EmptySeq
  <1>2. Whole(<<>> \o Bytes(p))
    BY <1>1, InNone, WholeAdds
  <1> QED
    BY <1>1, <1>2, ConcatEmptySeq

(* The packet in front: it is there to its last byte, and not again behind. *)
LEMMA WholeFront ==
  ASSUME NEW s \in Seq(BytesOf(PacketSet)), Whole(s), s # <<>>, NEW p, p = s[1].packet
  PROVE  /\ p \in PacketSet /\ s[1].place = 1 /\ Length(p) \in 1..Len(s)
         /\ \A k \in 1..Length(p) : s[k] = Byte(p, k)
         /\ Whole(From(s, Length(p))) /\ p \notin PacketsIn(From(s, Length(p)))
  <1>. DEFINE m == Len(s) n == Length(p) B == BytesOf(PacketSet) t == From(s, n)
  <1>1. m \in Nat /\ m >= 1 /\ 1 \in 1..m
    BY EmptySeq
  <1>2. \A i \in 1..m : s[i] \in B
    BY ElementOfSeq
  <1>3. \A i \in 1..m : s[i].packet \in PacketSet /\ s[i].place \in Nat
    BY <1>2, ByteIs
  <1>4. p \in PacketSet /\ n \in Nat /\ n >= 1
    BY <1>1, <1>3, LengthIs
  <1>. DEFINE At(i, q, place, l) ==
          /\ q \in PacketSet /\ place \in Nat /\ l \in Nat
          /\ i - place >= 0 /\ place \in 1..l /\ (i - place) + l <= m
          /\ \A k \in 1..l : s[(i - place) + k] = Byte(q, k)
          /\ \A j \in 1..m : s[j].packet = q => j - s[j].place = i - place
  <1>5. ASSUME NEW i \in 1..m, NEW q, NEW place, NEW l, q = s[i].packet, place = s[i].place,
               l = Length(q)
        PROVE  At(i, q, place, l)
    <2>1. q \in PacketSet /\ place \in Nat
      BY <1>3, <1>5
    <2>2. l \in Nat
      BY <1>5, <2>1, LengthIs
    <2>3. WholeAt(s, i)
      BY WholeIs
    <2>4. Lies(s, i, q, place, l)
      BY <1>5, <2>3, WholeAtIs DEF m
    <2> QED
      BY <2>1, <2>2, <2>4 DEF Lies, m
  <1>. HIDE DEF n, m, At
  <1>6. s[1].place = 1
    <2>. DEFINE place == s[1].place
    <2>1. p = s[1].packet /\ n = Length(p)
      BY DEF n
    <2>2. At(1, p, place, n)
      BY <1>1, <1>5, <2>1
    <2>3. place \in Nat /\ 1 - place >= 0 /\ place \in 1..n
      BY <2>2 DEF At
    <2> QED
      BY <1>4, <2>3
  <1>7. /\ n <= m /\ \A k \in 1..n : s[k] = Byte(p, k)
        /\ \A j \in 1..m : s[j].packet = p => j = s[j].place
    <2>1. /\ (1 - 1) + n <= m /\ \A k \in 1..n : s[(1 - 1) + k] = Byte(p, k)
          /\ \A j \in 1..m : s[j].packet = p => j - s[j].place = 1 - 1
      <3>1. 1 \in 1..m /\ p = s[1].packet /\ 1 = s[1].place /\ n = Length(p)
        BY <1>1, <1>6 DEF n
      <3>2. At(1, p, 1, n)
        BY <1>5, <3>1
      <3> QED
        BY <3>2 DEF At
    <2>2. \A k \in 1..n : (1 - 1) + k = k
      BY <1>4
    <2>3. \A j \in 1..m : s[j].place \in Nat /\ (j - s[j].place = 1 - 1 => j = s[j].place)
      BY <1>1, <1>3
    <2> QED
      BY <1>1, <1>4, <2>1, <2>2, <2>3
  <1>8. n \in 0..m
    BY <1>1, <1>4, <1>7
  <1>9. t \in Seq(B) /\ Len(t) = m - n /\ \A i \in 1..(m - n) : t[i] = s[i + n]
    BY <1>8, FromIs DEF m
  <1>. HIDE DEF t
  <1>10. ASSUME NEW i \in (n + 1)..m PROVE s[i].packet # p /\ i - s[i].place >= n
    <2>. DEFINE q == s[i].packet place == s[i].place l == Length(q)
    <2>1. i \in 1..m
      BY <1>4
    <2>2. /\ q \in PacketSet /\ place \in Nat /\ l \in Nat
          /\ i - place >= 0 /\ place \in 1..l
          /\ \A k \in 1..l : s[(i - place) + k] = Byte(q, k)
      <3>1. At(i, q, place, l)
        BY <1>5, <2>1
      <3> QED
        BY <3>1 DEF At
    <2>. HIDE DEF q, place, l
    <2>3. q # p
      <3> SUFFICES ASSUME q = p PROVE FALSE
        OBVIOUS
      <3>1. i = place
        BY <1>7, <2>1 DEF q, place
      <3>2. l = n
        BY DEF l, n
      <3> QED
        BY <1>4, <2>2, <3>1, <3>2
    <2>4. i - place >= n
      <3> SUFFICES ASSUME i - place < n PROVE FALSE
        BY <1>4, <2>2
      <3>1. (i - place) + 1 \in 1..n /\ 1 \in 1..l
        BY <1>4, <2>2
      <3>2. s[(i - place) + 1] = Byte(q, 1) /\ s[(i - place) + 1] = Byte(p, (i - place) + 1)
        BY <1>7, <2>2, <3>1
      <3>3. q = p
        BY <3>2 DEF Byte
      <3> QED
        BY <2>3, <3>3
    <2> QED
      BY <2>3, <2>4 DEF q, place
  <1>11. p \notin PacketsIn(t)
    <2>1. ASSUME NEW j \in 1..Len(t) PROVE t[j].packet # p
      <3>1. j \in 1..(m - n) /\ j + n \in (n + 1)..m
        BY <1>1, <1>4, <1>9
      <3> QED
        BY <1>9, <1>10, <3>1
    <2> QED
      BY <1>9, <2>1, PacketsInIs
  <1>12. ASSUME NEW i \in 1..(m - n) PROVE WholeAt(t, i)
    <2>. DEFINE q == s[i + n].packet place == s[i + n].place l == Length(q)
    <2>1. i + n \in 1..m /\ i + n \in (n + 1)..m
      BY <1>1, <1>4
    <2>2. /\ q \in PacketSet /\ place \in Nat /\ l \in Nat
          /\ place \in 1..l /\ ((i + n) - place) + l <= m
          /\ \A k \in 1..l : s[((i + n) - place) + k] = Byte(q, k)
          /\ \A j \in 1..m : s[j].packet = q => j - s[j].place = (i + n) - place
      <3>1. At(i + n, q, place, l)
        BY <1>5, <2>1
      <3> QED
        BY <3>1 DEF At
    <2>3. (i + n) - place >= n
      BY <1>10, <2>1
    <2>4. t[i].packet = q /\ t[i].place = place
      BY <1>9
    <2>. HIDE DEF q, place, l
    <2>5. i - place >= 0 /\ (i - place) + l <= m - n
      BY <1>1, <1>4, <2>2, <2>3
    <2>6. \A k \in 1..l : t[(i - place) + k] = Byte(q, k)
      <3> SUFFICES ASSUME NEW k \in 1..l PROVE t[(i - place) + k] = Byte(q, k)
        OBVIOUS
      <3>1. /\ i \in Nat /\ n \in Nat /\ m \in Nat /\ place \in Nat /\ l \in Nat
        BY <1>1, <1>4, <2>2
      <3>2. (i - place) + k \in 1..(m - n) /\ ((i - place) + k) + n = ((i + n) - place) + k
        BY <2>5, <3>1
      <3> QED
        BY <1>9, <2>2, <3>2
    <2>7. ASSUME NEW j \in 1..(m - n), t[j].packet = q PROVE j - t[j].place = i - place
      <3>1. j + n \in 1..m /\ t[j] = s[j + n]
        BY <1>1, <1>4, <1>9
      <3>2. (j + n) - t[j].place = (i + n) - place /\ t[j].place \in Nat
        BY <1>3, <2>2, <2>7, <3>1
      <3>. DEFINE x == t[j].place
      <3>3. /\ i \in Nat /\ j \in Nat /\ n \in Nat /\ place \in Nat
            /\ x \in Nat /\ (j + n) - x = (i + n) - place
        BY <1>1, <1>4, <2>2, <3>2
      <3>. HIDE DEF x
      <3>4. j - x = i - place
        BY <3>3
      <3> QED
        BY <3>4 DEF x
    <2>8. i \in 1..Len(t) /\ Len(t) = m - n
      BY <1>9
    <2>9. Lies(t, i, q, place, l)
      BY <2>2, <2>5, <2>6, <2>7, <2>8 DEF Lies
    <2>10. Length(q) = l
      BY DEF l
    <2> QED
      BY <1>9, <2>4, <2>8, <2>9, <2>10, WholeAtIs
  <1>13. Whole(t)
    BY <1>9, <1>12, LenProperties DEF Whole
  <1> QED
    BY <1>1, <1>4, <1>6, <1>7, <1>11, <1>13 DEF t, n, m

LEMMA FrontIs ==
  ASSUME NEW s \in Seq(BytesOf(PacketSet))
  PROVE  FrontOf(s) <=>
            \A k \in 1..Len(s) : s[k] = Byte(s[1].packet, k) /\ k <= Length(s[1].packet)
  <1>1. DOMAIN s = 1..Len(s)
    BY LenProperties
  <1> QED
    BY <1>1 DEF FrontOf

LEMMA FrontPrefix ==
  ASSUME NEW p \in PacketSet, NEW n \in 0..Length(p)
  PROVE  FrontOf(SubSeq(Bytes(p), 1, n))
  <1>. DEFINE B == BytesOf(PacketSet) b == Bytes(p) s == SubSeq(b, 1, n)
  <1>1. b \in Seq(B) /\ Len(b) = Length(p) /\ \A k \in 1..Length(p) : b[k] = Byte(p, k)
    BY BytesIs
  <1>2. Length(p) \in Nat /\ n \in Nat /\ n <= Length(p) /\ n \in 0..Len(b)
    BY <1>1, LengthIs
  <1>. HIDE DEF b
  <1>3. s \in Seq(B) /\ Len(s) = n /\ \A k \in 1..n : s[k] = b[k]
    BY <1>1, <1>2, UpToIs
  <1>. HIDE DEF s
  <1>4. ASSUME NEW k \in 1..n PROVE s[k] = Byte(s[1].packet, k) /\ k <= Length(s[1].packet)
    <2>1. k \in 1..Length(p) /\ 1 \in 1..n /\ 1 \in 1..Length(p)
      BY <1>2
    <2>2. s[k] = Byte(p, k) /\ s[1] = Byte(p, 1)
      BY <1>1, <1>3, <2>1
    <2>3. s[1].packet = p
      BY <2>2 DEF Byte
    <2> QED
      BY <1>2, <2>1, <2>2, <2>3
  <1>5. FrontOf(s)
    BY <1>3, <1>4, FrontIs
  <1> QED
    BY <1>5 DEF s, b

LEMMA FrontEnds ==
  ASSUME NEW s \in Seq(BytesOf(PacketSet)), FrontOf(s), s # <<>>, NEW p, p = s[1].packet
  PROVE  /\ p \in PacketSet /\ Len(s) <= Length(p) /\ s[1].place = 1
         /\ \A k \in 1..Len(s) : s[k] = Byte(p, k)
  <1>1. Len(s) \in Nat /\ Len(s) >= 1 /\ 1 \in 1..Len(s) /\ Len(s) \in 1..Len(s)
    BY EmptySeq
  <1>2. s[1] \in BytesOf(PacketSet)
    BY <1>1, ElementOfSeq
  <1>3. p \in PacketSet
    BY <1>2, ByteIs
  <1>4. \A k \in 1..Len(s) : s[k] = Byte(p, k) /\ k <= Length(p)
    BY FrontIs
  <1>5. s[1].place = 1
    <2>1. s[1] = Byte(p, 1)
      BY <1>1, <1>4
    <2> QED
      BY <2>1 DEF Byte
  <1> QED
    BY <1>1, <1>3, <1>4, <1>5

LEMMA FromAll ==
  ASSUME NEW S, NEW s \in Seq(S), NEW n \in Nat, Len(s) <= n
  PROVE  From(s, n) = <<>>
  <1>1. Len(s) \in Int /\ n + 1 \in Int /\ Len(s) < n + 1
    BY LenProperties
  <1> QED
    BY <1>1, SubSeqEmpty DEF From

LEMMA PayloadIs ==
  ASSUME NEW K, NEW p \in K, p \in PacketSet
  PROVE  /\ Payload(p) \in Seq(BytesOf(K)) /\ Len(Payload(p)) = p.size
         /\ \A i \in 1..p.size : Payload(p)[i] = Byte(p, HeaderSize + i)
  <1>. DEFINE B == BytesOf(K) b == Bytes(p) t == From(b, HeaderSize)
  <1>1. b \in Seq(B) /\ Len(b) = Length(p) /\ \A k \in 1..Length(p) : b[k] = Byte(p, k)
    BY BytesIs
  <1>2. /\ p.size \in Nat /\ HeaderSize \in Nat /\ Length(p) = HeaderSize + p.size
    BY LengthIs
  <1>. HIDE DEF b
  <1>3. HeaderSize \in 0..Len(b) /\ Len(b) - HeaderSize = p.size
    BY <1>1, <1>2
  <1>4. t \in Seq(B) /\ Len(t) = p.size /\ \A i \in 1..p.size : t[i] = b[i + HeaderSize]
    BY <1>1, <1>3, FromIs
  <1>. HIDE DEF t
  <1>5. ASSUME NEW i \in 1..p.size PROVE t[i] = Byte(p, HeaderSize + i)
    <2>1. i + HeaderSize \in 1..Length(p) /\ i + HeaderSize = HeaderSize + i
      BY <1>2
    <2> QED
      BY <1>1, <1>4, <2>1
  <1> QED
    BY <1>4, <1>5 DEF Payload, t, b

(* What the loop hands to parse_packet, if the packet is in front.         *)
LEMMA FrontPayload ==
  ASSUME NEW s \in Seq(BytesOf(PacketSet)), NEW p \in PacketSet, Length(p) <= Len(s),
         \A k \in 1..Length(p) : s[k] = Byte(p, k)
  PROVE  SubSeq(s, HeaderSize + 1, Length(p)) = Payload(p)
  <1>. DEFINE B == BytesOf(PacketSet) t == SubSeq(s, HeaderSize + 1, Length(p)) u == Payload(p)
  <1>1. /\ p.size \in Nat /\ HeaderSize \in Nat /\ Length(p) = HeaderSize + p.size
        /\ Length(p) \in Nat /\ Len(s) \in Nat
    BY LengthIs, LenProperties
  <1>2. \A i \in (HeaderSize + 1)..Length(p) : i \in 1..Len(s)
    BY <1>1
  <1>3. \A i \in (HeaderSize + 1)..Length(p) : s[i] \in B
    BY <1>2, ElementOfSeq
  <1>4. HeaderSize + 1 \in Int /\ Length(p) \in Int
    BY <1>1
  <1>5. /\ t \in Seq(B)
        /\ Len(t) = IF HeaderSize + 1 <= Length(p) THEN Length(p) - (HeaderSize + 1) + 1 ELSE 0
        /\ \A i \in 1..(Length(p) - (HeaderSize + 1) + 1) : t[i] = s[(HeaderSize + 1) + i - 1]
    BY <1>3, <1>4, SubSeqProperties
  <1>6. u \in Seq(B) /\ Len(u) = p.size /\ \A i \in 1..p.size : u[i] = Byte(p, HeaderSize + i)
    BY PayloadIs
  <1>. HIDE DEF t, u
  <1>7. Len(t) = p.size
    BY <1>1, <1>5
  <1>8. ASSUME NEW i \in 1..p.size PROVE t[i] = u[i]
    <2>1. /\ i \in 1..(Length(p) - (HeaderSize + 1) + 1)
          /\ (HeaderSize + 1) + i - 1 = HeaderSize + i /\ HeaderSize + i \in 1..Length(p)
      BY <1>1
    <2>2. t[i] = s[HeaderSize + i]
      BY <1>5, <2>1
    <2> QED
      BY <1>6, <2>1, <2>2
  <1>9. t = u
    BY <1>5, <1>6, <1>7, <1>8, SeqEqual
  <1> QED
    BY <1>9 DEF t, u

(* The head of a packet in parts: what the client has left to write of it  *)
(* begins behind its header, so its first byte is in what has come.        *)
LEMMA HeadIn ==
  ASSUME NEW s \in Seq(BytesOf(PacketSet)), NEW t \in Seq(BytesOf(PacketSet)), NEW c,
         Whole(s \o t), t # <<>>, RestOf(t, c)
  PROVE  c \in PacketsIn(s) /\ s # <<>> /\ c \in PacketSet
  <1>. DEFINE B == BytesOf(PacketSet) u == s \o t m == Len(s) n == Length(c)
              place == t[1].place
  <1>1. m \in Nat /\ Len(t) \in Nat /\ Len(t) >= 1 /\ 1 \in 1..Len(t) /\ DOMAIN t = 1..Len(t)
    BY EmptySeq, LenProperties
  <1>2. /\ u \in Seq(B) /\ Len(u) = m + Len(t)
        /\ \A i \in 1..m : u[i] = s[i]
        /\ \A i \in (m + 1)..(m + Len(t)) : u[i] = t[i - m]
        /\ \A i \in 1..Len(t) : u[m + i] = t[i]
    BY JoinIs
  <1>3. /\ t[1] \in B /\ t[1].packet = c /\ place > HeaderSize + 1
        /\ \A k \in 1..Len(t) : t[k].place > HeaderSize + 1
    BY <1>1, ElementOfSeq DEF RestOf
  <1>4. c \in PacketSet /\ place \in Nat /\ HeaderSize \in Nat
    BY <1>3, ByteIs, PacketReceiveConstants
  <1>5. n \in Nat /\ n >= 1
    BY <1>4, LengthIs
  <1>6. m + 1 \in 1..Len(u) /\ u[m + 1] = t[1]
    BY <1>1, <1>2
  <1>. HIDE DEF u, m
  <1>7. Lies(u, m + 1, c, place, n)
    <2>1. Whole(u)
      BY DEF u
    <2>2. WholeAt(u, m + 1)
      BY <1>2, <1>6, <2>1, WholeIs
    <2> QED
      BY <1>2, <1>3, <1>6, <2>2, WholeAtIs
  <1>. DEFINE j == (m + 1 - place) + 1
  <1>8. j \in 1..Len(u) /\ u[j] = Byte(c, 1)
    <2>1. /\ (m + 1) - place >= 0 /\ ((m + 1) - place) + n <= Len(u)
          /\ \A k \in 1..n : u[((m + 1) - place) + k] = Byte(c, k)
      BY <1>7 DEF Lies
    <2>2. 1 \in 1..n
      BY <1>5
    <2> QED
      BY <1>1, <1>2, <1>4, <1>5, <2>1, <2>2
  <1>9. j \in 1..m
    <2> SUFFICES ASSUME ~(j \in 1..m) PROVE FALSE
      OBVIOUS
    <2>1. j \in (m + 1)..(m + Len(t)) /\ j - m \in 1..Len(t)
      BY <1>1, <1>2, <1>8
    <2>2. t[j - m].place = 1
      BY <1>2, <1>8, <2>1 DEF Byte
    <2>3. t[j - m].place > HeaderSize + 1
      BY <1>3, <2>1
    <2> QED
      BY <1>4, <2>2, <2>3
  <1>10. s[j].packet = c
    BY <1>2, <1>8, <1>9 DEF Byte
  <1>11. c \in PacketsIn(s)
    BY <1>9, <1>10, PacketsInIs DEF m
  <1>12. s # <<>>
    BY <1>11, InNone
  <1> QED
    BY <1>4, <1>11, <1>12

(* What is in front of it is a whole packet, or the head itself.           *)
InFront(s, t, c, p) ==
    /\ s # <<>> /\ p \in PacketSet /\ s[1].place = 1
    /\ Length(p) <= Len(s) =>
          /\ p # c /\ \A k \in 1..Length(p) : s[k] = Byte(p, k)
          /\ p \notin PacketsIn(From(s, Length(p))) /\ Whole(From(s, Length(p)) \o t)
    /\ Length(p) > Len(s) => p = c /\ s \o t = Bytes(p) /\ Len(s) > HeaderSize

LEMMA HeadSplit ==
  ASSUME NEW s \in Seq(BytesOf(PacketSet)), NEW t \in Seq(BytesOf(PacketSet)), NEW c,
         Whole(s \o t), t # <<>>, RestOf(t, c),
         NEW p, p = s[1].packet
  PROVE  InFront(s, t, c, p)
  <1>. DEFINE B == BytesOf(PacketSet) u == s \o t m == Len(s) n == Length(p)
  <1>1. s # <<>>
    BY HeadIn
  <1>2. /\ m \in Nat /\ m >= 1 /\ 1 \in 1..m
        /\ Len(t) \in Nat /\ Len(t) >= 1 /\ 1 \in 1..Len(t) /\ DOMAIN t = 1..Len(t)
    BY <1>1, EmptySeq, LenProperties
  <1>3. /\ u \in Seq(B) /\ Len(u) = m + Len(t)
        /\ \A i \in 1..m : u[i] = s[i]
        /\ \A i \in (m + 1)..(m + Len(t)) : u[i] = t[i - m]
        /\ \A i \in 1..Len(t) : u[m + i] = t[i]
    BY JoinIs
  <1>4. u # <<>> /\ u[1] = s[1] /\ p = u[1].packet
    <2>1. Len(u) # 0
      BY <1>2, <1>3
    <2> QED
      BY <1>2, <1>3, <2>1, EmptySeq
  <1>5. /\ p \in PacketSet /\ u[1].place = 1 /\ n \in 1..Len(u)
        /\ \A k \in 1..n : u[k] = Byte(p, k)
        /\ Whole(From(u, n)) /\ p \notin PacketsIn(From(u, n))
    <2>1. Whole(u)
      OBVIOUS
    <2>. HIDE DEF u
    <2> QED
      BY <1>3, <1>4, <2>1, WholeFront
  <1>6. /\ t[1].packet = c /\ t[1].place > HeaderSize + 1 /\ HeaderSize \in Nat
        /\ \A k \in 1..Len(t) : t[k].packet = c
    BY <1>2, PacketReceiveConstants DEF RestOf
  <1>7. n \in Nat /\ n >= 1
    BY <1>5, LengthIs
  <1>8. ASSUME n <= m
        PROVE  /\ p # c /\ \A k \in 1..n : s[k] = Byte(p, k)
               /\ p \notin PacketsIn(From(s, n)) /\ Whole(From(s, n) \o t)
    <2>1. n \in 0..m
      BY <1>2, <1>7, <1>8
    <2>2. From(u, n) = From(s, n) \o t
      BY <2>1, FromJoin
    <2>3. From(s, n) \in Seq(B)
      BY <2>1, FromIs
    <2>4. PacketsIn(From(u, n)) = PacketsIn(From(s, n)) \cup PacketsIn(t)
      BY <2>2, <2>3, InJoin
    <2>5. c \in PacketsIn(t)
      BY <1>2, <1>6, PacketsInIs
    <2>6. ASSUME NEW k \in 1..n PROVE s[k] = Byte(p, k)
      <3>1. k \in 1..m
        BY <1>2, <1>7, <1>8
      <3> QED
        BY <1>3, <1>5, <3>1
    <2> QED
      BY <1>5, <2>2, <2>4, <2>5, <2>6
  <1>9. ASSUME n > m PROVE p = c /\ u = Bytes(p) /\ m > HeaderSize
    <2>1. m + 1 \in 1..n /\ u[m + 1] = t[1]
      BY <1>2, <1>3, <1>7, <1>9
    <2>2. t[1] = Byte(p, m + 1)
      BY <1>5, <2>1
    <2>3. p = c /\ m + 1 > HeaderSize + 1
      BY <1>6, <2>2 DEF Byte
    <2>4. ASSUME n # Len(u) PROVE FALSE
      <3>. DEFINE v == From(u, n)
      <3>1. n \in 0..Len(u) /\ Len(u) - n >= 1 /\ 1 \in 1..(Len(u) - n)
        <4>1. n \in 1..Len(u) /\ Len(u) \in Nat
          BY <1>2, <1>3, <1>5
        <4>. HIDE DEF u, n
        <4> QED
          BY <2>4, <4>1
      <3>2. v \in Seq(B) /\ Len(v) = Len(u) - n /\ v[1] = u[1 + n]
        <4>. HIDE DEF u, n
        <4>1. /\ v \in Seq(B) /\ Len(v) = Len(u) - n
              /\ \A i \in 1..(Len(u) - n) : v[i] = u[i + n]
          BY <1>3, <3>1, FromIs
        <4>2. v[1] = u[1 + n]
          BY <3>1, <4>1
        <4> QED
          BY <4>1, <4>2
      <3>3. 1 + n \in (m + 1)..(m + Len(t)) /\ (1 + n) - m \in 1..Len(t)
        BY <1>2, <1>3, <1>7, <1>9, <3>1
      <3>4. u[1 + n].packet = p
        BY <1>2, <1>3, <1>6, <2>3, <3>3
      <3>5. p \in PacketsIn(v)
        <4>. HIDE DEF v
        <4> QED
          BY <3>1, <3>2, <3>4, PacketsInIs
      <3> QED
        BY <1>5, <3>5
    <2>5. u = Bytes(p)
      <3>1. /\ Bytes(p) \in Seq(BytesOf(PacketSet)) /\ Len(Bytes(p)) = n
            /\ \A k \in 1..n : Bytes(p)[k] = Byte(p, k)
        BY <1>5, BytesIs
      <3>. DEFINE b == Bytes(p)
      <3>. HIDE DEF u, b
      <3>2. u \in Seq(B) /\ b \in Seq(B) /\ Len(u) = Len(b) /\ \A k \in 1..Len(u) : u[k] = b[k]
        BY <1>3, <1>5, <2>4, <3>1 DEF b
      <3>3. u = b
        BY <3>2, SeqEqual
      <3> QED
        BY <3>3 DEF b
    <2> QED
      BY <1>2, <1>6, <2>3, <2>5
  <1> QED
    BY <1>1, <1>4, <1>5, <1>8, <1>9 DEF InFront

-----------------------------------------------------------------------------
(* What is known, and what a new packet adds.                              *)
LEMMA KnownAre == Known \subseteq PacketSet /\ \A s \in Seq(ByteSet) : s \in Seq(BytesOf(PacketSet))
  <1>1. Known \subseteq PacketSet
    BY DEF Known
  <1>2. ByteSet \subseteq BytesOf(PacketSet)
    BY <1>1 DEF ByteSet, BytesOf
  <1> QED
    BY <1>1, <1>2, SeqMonotonic

LEMMA KnownGrows ==
  ASSUME packets \in Nat, packets' \in Nat, packets <= packets'
  PROVE  /\ Known \subseteq Known'
         /\ \A s \in Seq(ByteSet) : s \in Seq(ByteSet')
         /\ \A s \in Seq(Content) : s \in Seq(Content')
  <1>1. \A p \in PacketSet : p.id \in Nat
    BY LengthIs
  <1>2. Known \subseteq Known'
    BY <1>1 DEF Known
  <1>3. ByteSet \subseteq ByteSet'
    BY <1>2 DEF ByteSet, BytesOf
  <1>4. \A s \in Seq(ByteSet) : s \in Seq(ByteSet')
    BY <1>3, SeqMonotonic
  <1>5. Content \subseteq Content'
    BY <1>2, <1>4 DEF Content
  <1>6. \A s \in Seq(Content) : s \in Seq(Content')
    BY <1>5, SeqMonotonic
  <1> QED
    BY <1>2, <1>4, <1>6

LEMMA NewPacket ==
  ASSUME NEW ask \in Asks, NEW way \in Ways, packets \in Nat,
         packets' = packets + 1, NEW p, p = Packet(packets + 1, ask, way)
  PROVE  p \in PacketSet /\ p \in Known' /\ p \notin Known /\ p.way = way /\ p.size = ask.size
  <1>1. ask \in [kind : {"message", "persist", "set", "get"}, number : Nat, size : Nat]
    BY PacketReceiveConstants
  <1>2. p = [id |-> packets + 1, kind |-> ask.kind, number |-> ask.number, size |-> ask.size,
             way |-> way]
    BY DEF Packet
  <1>3. p \in PacketSet
    BY <1>1, <1>2 DEF PacketSet
  <1>4. p.id = packets + 1
    BY <1>2
  <1>5. p \in Known'
    BY <1>3, <1>4 DEF Known
  <1>6. p \notin Known
    BY <1>4 DEF Known
  <1> QED
    BY <1>2, <1>3, <1>5, <1>6

LEMMA SameKnown ==
  ASSUME packets' = packets
  PROVE  Known' = Known /\ ByteSet' = ByteSet /\ Content' = Content
  BY DEF Known, ByteSet, Content

LEMMA ParsesIs ==
  ASSUME TypeInv, NEW p \in Known, NEW d \in Seq(ByteSet), Parses(p, d), packets' = packets
  PROVE  /\ persist_mode' \in BOOLEAN
         /\ settings' \in [DOMAIN SettingSizes -> Known'] /\ settings' = SetBy(p)
         /\ parsed' \in Seq(Content') /\ Parsed' = Parsed \cup {p}
         /\ d = Payload(p) /\ p \notin Parsed => WholeOnce
  <1>1. p \in PacketSet /\ Known' = Known
    BY KnownAre, SameKnown
  <1>2. persist_mode' \in BOOLEAN
    <2>1. persist_mode' = PersistAfter(p) /\ persist_mode \in BOOLEAN
      BY DEF Parses, TypeInv
    <2>2. p.kind \in {"message", "persist", "set", "get"}
      BY <1>1, LengthIs
    <2> QED
      BY <2>1, <2>2 DEF PersistAfter
  <1>3. settings' = SetBy(p)
    BY DEF Parses
  <1>5. settings' \in [DOMAIN SettingSizes -> Known']
    BY <1>1, <1>3 DEF TypeInv, SetBy, MaySet
  <1>. DEFINE c == [header |-> p, data |-> d]
  <1>6. c \in Content /\ c.header = p /\ c.data = d
    BY DEF Content
  <1>. HIDE DEF c
  <1>7. parsed \in Seq(Content) /\ parsed' = Append(parsed, c)
    BY DEF Parses, TypeInv, c
  <1>8. Len(parsed) \in Nat
    BY <1>7, LenProperties
  <1>. DEFINE n == Len(parsed)
  <1>9. /\ parsed' \in Seq(Content) /\ Len(parsed') = n + 1
        /\ \A i \in 1..n : parsed'[i] = parsed[i]
        /\ parsed'[n + 1] = c
    BY <1>6, <1>7, AppendProperties
  <1>10. DOMAIN parsed = 1..n /\ DOMAIN parsed' = 1..(n + 1)
    BY <1>7, <1>9, LenProperties
  <1>. HIDE DEF n
  <1>11. Parsed' = Parsed \cup {p}
    <2>1. n \in Nat
      BY <1>8 DEF n
    <2>2. 1..(n + 1) = (1..n) \cup {n + 1}
      BY <2>1
    <2> QED
      BY <1>6, <1>9, <1>10, <2>2 DEF Parsed
  <1>12. Content' = Content
    BY DEF Content, ByteSet, Known
  <1>13. ASSUME d = Payload(p), p \notin Parsed PROVE WholeOnce
    <2>1. parsed'[Len(parsed')] = c
      BY <1>9
    <2> QED
      BY <1>6, <1>13, <2>1 DEF WholeOnce
  <1> QED
    BY <1>2, <1>3, <1>5, <1>9, <1>11, <1>12, <1>13

LEMMA InKnown ==
  ASSUME TypeInv
  PROVE  /\ Parsed \subseteq Known
         /\ \A s \in Seq(ByteSet) : PacketsIn(s) \subseteq Known
  <1>1. Parsed \subseteq Known
    <2>1. parsed \in Seq(Content)
      BY DEF TypeInv
    <2>2. \A k \in DOMAIN parsed : parsed[k] \in Content
      BY <2>1, LenProperties, ElementOfSeq
    <2> QED
      BY <2>2 DEF Parsed, Content
  <1>2. ASSUME NEW s \in Seq(ByteSet) PROVE PacketsIn(s) \subseteq Known
    <2>1. \A k \in DOMAIN s : s[k] \in ByteSet
      BY LenProperties, ElementOfSeq
    <2> QED
      BY <2>1 DEF PacketsIn, ByteSet, BytesOf
  <1> QED
    BY <1>1, <1>2

(* The types, where the number of packets grows and where it does not.     *)
LEMMA TypesGrow ==
  ASSUME TypeInv, packets' = packets + 1
  PROVE  /\ packets' \in Nat /\ Known \subseteq Known'
         /\ \A s \in Seq(ByteSet) : s \in Seq(ByteSet')
         /\ parsed \in Seq(Content')
         /\ settings \in [DOMAIN SettingSizes -> Known']
         /\ asked \in [DOMAIN SettingSizes -> Known']
  <1>1. /\ packets \in Nat /\ parsed \in Seq(Content)
        /\ settings \in [DOMAIN SettingSizes -> Known] /\ asked \in [DOMAIN SettingSizes -> Known]
    BY DEF TypeInv
  <1>2. packets' \in Nat /\ packets <= packets'
    BY <1>1
  <1>3. Known \subseteq Known'
    BY <1>1, <1>2, KnownGrows
  <1> QED
    BY <1>1, <1>2, <1>3, KnownGrows

(* The numbers of a finite interval have a greatest.                       *)
LEMMA HasLatest ==
  ASSUME NEW n \in Nat, NEW K, K \subseteq 1..n, K # {}
  PROVE  Latest(K) \in K /\ \A k \in K : k <= Latest(K)
  <1>. DEFINE Above(k) == {j \in K : j > k} T == {Above(k) : k \in K}
              R == StrictSubsetOrdering(K)
  <1>1. IsFiniteSet(K)
    <2>1. 1 \in Int /\ n \in Int
      OBVIOUS
    <2>2. IsFiniteSet(1..n)
      BY <2>1, FS_Interval
    <2> QED
      BY <2>2, FS_Subset
  <1>2. IsWellFoundedOn(R, SUBSET K)
    BY <1>1, FS_FiniteSubsetsOfFinite, FS_StrictSubsetOrderingWellFounded
  <1>3. PICK t \in T : \A u \in T : ~(<<u, t>> \in R)
    <2>1. T \subseteq SUBSET K /\ T # {}
      OBVIOUS
    <2> QED
      BY <1>2, <2>1, WFMin
  <1>4. PICK last \in K : t = Above(last)
    OBVIOUS
  <1>5. ASSUME NEW k \in K, ~(k <= last) PROVE FALSE
    <2>1. k \in Nat /\ last \in Nat /\ k > last /\ \A j \in K : j \in Nat
      BY <1>5
    <2>2. \A j \in K : j > k => j > last
      BY <2>1
    <2>3. Above(k) \subseteq t /\ k \in t /\ k \notin Above(k)
      <3>1. Above(k) \subseteq Above(last)
        BY <2>2
      <3>2. k \in Above(last)
        BY <2>1
      <3>3. k \notin Above(k)
        BY <2>1
      <3>. HIDE DEF Above
      <3> QED
        BY <1>4, <3>1, <3>2, <3>3
    <2>4. <<Above(k), t>> \in R
      BY <2>3 DEF StrictSubsetOrdering
    <2> QED
      BY <1>3, <2>4
  <1> QED
    BY <1>5 DEF Latest

(* What is handed in names a setting with the last of its packets that     *)
(* names it, or not at all.                                                *)
LEMMA HandsInIs ==
  ASSUME NEW s \in Seq(BytesOf(PacketSet)), HandsIn(s)
  PROVE  /\ complete' = complete \cup PacketsIn(s)
         /\ asked' = [x \in DOMAIN SettingSizes |-> asked'[x]]
         /\ \A x \in DOMAIN SettingSizes :
               \/ asked'[x] = asked[x] /\ \A k \in 1..Len(s) : ~Names(s[k].packet, x)
               \/ \E last \in 1..Len(s) :
                     /\ asked'[x] = s[last].packet /\ Names(s[last].packet, x)
                     /\ \A k \in 1..Len(s) : Names(s[k].packet, x) => k <= last
  <1>1. DOMAIN s = 1..Len(s) /\ Len(s) \in Nat
    BY LenProperties
  <1>2. asked' = [x \in DOMAIN SettingSizes |->
                    IF Naming(x, s) = {} THEN asked[x]
                    ELSE s[Latest(Naming(x, s))].packet]
    BY DEF HandsIn
  <1>3. ASSUME NEW x \in DOMAIN SettingSizes
        PROVE  \/ asked'[x] = asked[x] /\ \A k \in 1..Len(s) : ~Names(s[k].packet, x)
               \/ \E last \in 1..Len(s) :
                     /\ asked'[x] = s[last].packet /\ Names(s[last].packet, x)
                     /\ \A k \in 1..Len(s) : Names(s[k].packet, x) => k <= last
    <2>. DEFINE K == Naming(x, s)
    <2>1. /\ K \subseteq 1..Len(s)
          /\ \A k \in 1..Len(s) : k \in K <=> Names(s[k].packet, x)
      BY <1>1 DEF Naming
    <2>2. asked'[x] = IF K = {} THEN asked[x] ELSE s[Latest(K)].packet
      BY <1>2
    <2>. HIDE DEF K
    <2>3. CASE K = {}
      BY <2>1, <2>2, <2>3
    <2>4. CASE K # {}
      <3>1. Latest(K) \in K /\ \A k \in K : k <= Latest(K)
        BY <1>1, <2>1, <2>4, HasLatest
      <3> QED
        BY <2>1, <2>2, <2>4, <3>1
    <2> QED
      BY <2>3, <2>4
  <1> QED
    BY <1>2, <1>3 DEF HandsIn

LEMMA HandsInTyped ==
  ASSUME asked \in [DOMAIN SettingSizes -> Known'], NEW s \in Seq(ByteSet'), HandsIn(s)
  PROVE  asked' \in [DOMAIN SettingSizes -> Known']
  <1>1. Known' \subseteq PacketSet
    BY DEF Known
  <1>2. s \in Seq(BytesOf(PacketSet))
    <2>1. ByteSet' \subseteq BytesOf(PacketSet)
      BY <1>1 DEF ByteSet, BytesOf
    <2> QED
      BY <2>1, SeqMonotonic
  <1>3. \A k \in 1..Len(s) : s[k].packet \in Known'
    <2>1. \A k \in 1..Len(s) : s[k] \in BytesOf(Known')
      BY ElementOfSeq DEF ByteSet
    <2> QED
      BY <2>1, ByteIs
  <1>4. /\ asked' = [x \in DOMAIN SettingSizes |-> asked'[x]]
        /\ \A x \in DOMAIN SettingSizes :
               asked'[x] = asked[x] \/ \E k \in 1..Len(s) : asked'[x] = s[k].packet
    BY <1>2, HandsInIs
  <1>5. \A x \in DOMAIN SettingSizes : asked'[x] \in Known'
    BY <1>3, <1>4
  <1> QED
    BY <1>4, <1>5

-----------------------------------------------------------------------------
(* The client begins.                                                      *)
LEMMA ClientAddsKeeps ==
  ASSUME IInv, NEW ask \in Asks, ClientAdds(ask)
  PROVE  IInv'
  <1>. DEFINE p == Packet(packets + 1, ask, "write") bytes == client.bytes \o Bytes(p)
  <1>0. TypeInv /\ ArrivedInv /\ SenderInv /\ StoredInv /\ SplitInv /\ FreshInv /\ CompleteInv
    BY DEF IInv
  <1>1. /\ held.by \in {"none", "uart"} /\ client.way \in {"none", "write"}
        /\ packets' = packets + 1
        /\ client' = [Idle EXCEPT !.way = "write", !.bytes = bytes]
    BY DEF ClientAdds, BluetoothWaits
  <1>2. UNCHANGED <<split, held, persist_mode, settings, SppRecvDataBuff, is_connected,
                    uart, links, faults, history>>
    BY DEF ClientAdds
  <1>3. p \in PacketSet /\ p \in Known' /\ p \notin Known /\ p.way = "write"
    BY <1>0, <1>1, NewPacket DEF TypeInv, Ways
  <1>. HIDE DEF p
  <1>4. Known \subseteq Known' /\ client.bytes \in Seq(ByteSet) /\ client.bytes \in Seq(ByteSet')
    BY <1>0, <1>1, TypesGrow DEF TypeInv
  <1>5. /\ Bytes(p) \in Seq(ByteSet') /\ Bytes(p) \in Seq(BytesOf(PacketSet))
        /\ PacketsIn(Bytes(p)) = {p} /\ Of(Bytes(p), "write")
    BY <1>3, BytesIs DEF ByteSet
  <1>6. bytes \in Seq(ByteSet') /\ PacketsIn(bytes) = PacketsIn(client.bytes) \cup {p}
    BY <1>4, <1>5, JoinIs, InJoin
  <1>7. Whole(client.bytes) /\ Of(client.bytes, "write") /\ PacketsIn(client.bytes) \cap Parsed = {}
    BY <1>0, <1>1, InNone DEF SenderInv, FreshInv, Idle
  <1>8. p \notin PacketsIn(client.bytes) /\ p \notin Parsed
    BY <1>0, <1>3, <1>4, InKnown
  <1>9. Whole(bytes) /\ Of(bytes, "write")
    <2>1. client.bytes \in Seq(BytesOf(PacketSet))
      BY <1>4, KnownAre
    <2> QED
      BY <1>3, <1>5, <1>7, <1>8, <2>1, WholeAdds, InJoin
  <1>. HIDE DEF bytes
  <1>10. client'.way = "write" /\ client'.bytes = bytes /\ client'.packet = NoPacket
         /\ client'.number = 0
    BY <1>1 DEF Idle
  <1>11. TypeInv'
    <2>1. NoPacket \in Known'
      BY <1>0, TypesGrow, <1>1 DEF Known, PacketSet, NoPacket, Ways
    <2>2. client' \in [way : {"none", "write", "parts", "long"}, packet : Known',
                       bytes : Seq(ByteSet'), number : Nat]
      BY <1>1, <1>6, <2>1 DEF Idle
    <2> QED
      BY <1>0, <1>1, <1>2, <2>2, TypesGrow DEF TypeInv, split, history
  <1>12. Parsed' = Parsed /\ Arrived' = Arrived
    BY <1>2 DEF Parsed, Arrived, history
  <1>13. ArrivedInv'
    BY <1>0, <1>1, <1>2, <1>12 DEF ArrivedInv, split
  <1>14. SenderInv'
    BY <1>0, <1>2, <1>9, <1>10 DEF SenderInv
  <1>15. StoredInv'
    BY <1>0, <1>1, <1>2, <1>10 DEF StoredInv, history
  <1>16. SplitInv'
    BY <1>0, <1>2, <1>10 DEF SplitInv, split
  <1>17. FreshInv'
    BY <1>0, <1>1, <1>2, <1>6, <1>7, <1>8, <1>10, <1>12 DEF FreshInv
  <1>18. CompleteInv'
    BY <1>0, <1>1, <1>2, <1>10, <1>12 DEF CompleteInv, HeadHeld, history
  <1> QED
    BY <1>11, <1>13, <1>14, <1>15, <1>16, <1>17, <1>18 DEF IInv

LEMMA ClientWritesKeeps ==
  ASSUME IInv, ClientWrites
  PROVE  IInv'
  <1>0. TypeInv /\ ArrivedInv /\ SenderInv /\ StoredInv /\ SplitInv /\ FreshInv /\ CompleteInv
    BY DEF IInv
  <1>1. /\ client.way = "write" /\ client' = Idle /\ held = Nobody
        /\ held' = [by |-> "write", bytes |-> client.bytes]
        /\ split_enabled' = FALSE /\ UNCHANGED <<split_header, split_data, split_count>>
        /\ HandsIn(client.bytes) /\ complete' = complete \cup PacketsIn(client.bytes)
    BY DEF HandsIn, ClientWrites, PacketReceived
  <1>2. UNCHANGED <<effects, stored, is_connected, uart, packets, links, faults, lost, headLost>>
    BY DEF ClientWrites
  <1>3. Known' = Known /\ ByteSet' = ByteSet /\ Content' = Content
    BY <1>2, SameKnown
  <1>4. client.bytes \in Seq(ByteSet) /\ PacketsIn(client.bytes) \subseteq Known
    BY <1>0, InKnown DEF TypeInv
  <1>5. Whole(client.bytes) /\ Of(client.bytes, "write") /\ PacketsIn(client.bytes) \cap Parsed = {}
    BY <1>0, <1>1 DEF SenderInv, FreshInv
  <1>6. Parsed' = Parsed /\ Arrived' = client.bytes /\ Arrived = <<>>
    BY <1>1, <1>2 DEF Parsed, Arrived, effects, Nobody
  <1>7. held'.by = "write" /\ client'.way = "none" /\ held.by = "none"
    BY <1>1 DEF Idle, Nobody
  <1>8. TypeInv'
    <2>1. client' \in [way : {"none", "write", "parts", "long"}, packet : Known,
                       bytes : Seq(ByteSet), number : Nat]
      <3>1. NoPacket \in Known
        BY <1>0 DEF TypeInv, Known, PacketSet, NoPacket, Ways
      <3> QED
        BY <1>1, <3>1, EmptySeq DEF Idle
    <2>2. complete' \subseteq Known
      BY <1>0, <1>1, <1>4 DEF TypeInv
    <2>3. held' \in [by : {"none", "write", "long", "uart"}, bytes : Seq(ByteSet)]
      BY <1>1, <1>4
    <2>4. asked' \in [DOMAIN SettingSizes -> Known']
      BY <1>0, <1>1, <1>3, <1>4, HandsInTyped DEF TypeInv
    <2> QED
      BY <1>0, <1>1, <1>2, <1>3, <2>1, <2>2, <2>3, <2>4 DEF TypeInv, effects, stored
  <1>9. ArrivedInv'
    BY <1>1, <1>5, <1>6, <1>7 DEF ArrivedInv
  <1>10. SenderInv'
    BY <1>0, <1>1, <1>2, <1>7 DEF SenderInv
  <1>11. StoredInv'
    BY <1>0, <1>1, <1>2, <1>7 DEF StoredInv, stored
  <1>12. SplitInv'
    BY <1>1 DEF SplitInv
  <1>13. FreshInv'
    BY <1>0, <1>2, <1>5, <1>6, <1>7 DEF FreshInv
  <1>14. CompleteInv'
    <2>1. \A q \in complete : q \in Parsed \cup lost
      BY <1>0, <1>6, InNone DEF CompleteInv
    <2> QED
      BY <1>1, <1>2, <1>5, <1>6, <1>7, <2>1 DEF CompleteInv
  <1> QED
    BY <1>8, <1>9, <1>10, <1>11, <1>12, <1>13, <1>14 DEF IInv

LEMMA ClientPreparesKeeps ==
  ASSUME IInv, NEW ask \in Asks, ClientPrepares(ask)
  PROVE  IInv'
  <1>. DEFINE p == Packet(packets + 1, ask, "long")
  <1>0. TypeInv /\ ArrivedInv /\ SenderInv /\ StoredInv /\ SplitInv /\ FreshInv /\ CompleteInv
    BY DEF IInv
  <1>1. /\ held.by \in {"none", "uart"} /\ client = Idle /\ packets' = packets + 1
        /\ client' = [way |-> "long", packet |-> p, bytes |-> Bytes(p), number |-> 0]
    BY DEF ClientPrepares, BluetoothWaits
  <1>2. UNCHANGED <<split, held, persist_mode, settings, SppRecvDataBuff, is_connected,
                    uart, links, faults, history>>
    BY DEF ClientPrepares
  <1>3. p \in PacketSet /\ p \in Known' /\ p \notin Known /\ p.way = "long"
    BY <1>0, <1>1, NewPacket DEF TypeInv, Ways
  <1>. HIDE DEF p
  <1>4. Bytes(p) \in Seq(ByteSet') /\ Of(Bytes(p), "long")
    BY <1>3, BytesIs DEF ByteSet
  <1>5. /\ client'.way = "long" /\ client'.bytes = Bytes(p) /\ client'.packet = p
        /\ client.way = "none"
    BY <1>1 DEF Idle
  <1>6. p \notin Parsed
    BY <1>0, <1>3, InKnown
  <1>7. Parsed' = Parsed /\ Arrived' = Arrived
    BY <1>2 DEF Parsed, Arrived, history
  <1>8. TypeInv'
    <2>1. client' \in [way : {"none", "write", "parts", "long"}, packet : Known',
                       bytes : Seq(ByteSet'), number : Nat]
      BY <1>1, <1>3, <1>4
    <2> QED
      BY <1>0, <1>1, <1>2, <2>1, TypesGrow DEF TypeInv, split, history
  <1>9. ArrivedInv'
    BY <1>0, <1>1, <1>2, <1>7 DEF ArrivedInv, split
  <1>10. SenderInv'
    BY <1>0, <1>2, <1>3, <1>4, <1>5 DEF SenderInv
  <1>11. StoredInv'
    <2>1. ~spoiled => SppRecvDataBuff.bytes = <<>>
      BY <1>0, <1>1, <1>5 DEF StoredInv
    <2>2. <<>> \o Bytes(p) = Bytes(p)
      BY <1>4, ConcatEmptySeq
    <2> QED
      BY <1>0, <1>2, <1>5, <2>1, <2>2 DEF StoredInv, history
  <1>12. SplitInv'
    BY <1>0, <1>2, <1>5 DEF SplitInv, split
  <1>13. FreshInv'
    BY <1>0, <1>2, <1>5, <1>6, <1>7 DEF FreshInv, history
  <1>14. CompleteInv'
    BY <1>0, <1>2, <1>5, <1>7 DEF CompleteInv, HeadHeld, history
  <1> QED
    BY <1>8, <1>9, <1>10, <1>11, <1>12, <1>13, <1>14 DEF IInv

LEMMA UartLooksKeeps ==
  ASSUME IInv, NEW ask \in Asks, UartLooks(ask)
  PROVE  IInv'
  <1>. DEFINE p == Packet(packets + 1, ask, "uart")
  <1>0. TypeInv /\ ArrivedInv /\ SenderInv /\ StoredInv /\ SplitInv /\ FreshInv /\ CompleteInv
    BY DEF IInv
  <1>1. packets' = packets + 1 /\ uart' = Bytes(p) /\ held.by # "uart"
    BY DEF UartLooks
  <1>2. UNCHANGED <<split, held, persist_mode, settings, SppRecvDataBuff, is_connected,
                    client, links, faults, history>>
    BY DEF UartLooks
  <1>3. p \in PacketSet /\ p \in Known' /\ p \notin Known /\ p.way = "uart"
    BY <1>0, <1>1, NewPacket DEF TypeInv, Ways
  <1>. HIDE DEF p
  <1>4. /\ Bytes(p) \in Seq(ByteSet') /\ Of(Bytes(p), "uart") /\ PacketsIn(Bytes(p)) = {p}
        /\ Whole(Bytes(p))
    BY <1>3, BytesIs, WholeOne DEF ByteSet
  <1>5. p \notin Parsed
    BY <1>0, <1>3, InKnown
  <1>6. Parsed' = Parsed /\ Arrived' = Arrived
    BY <1>2 DEF Parsed, Arrived, history
  <1>7. TypeInv'
    <2>1. /\ client \in [way : {"none", "write", "parts", "long"}, packet : Known',
                         bytes : Seq(ByteSet'), number : Nat]
          /\ held \in [by : {"none", "write", "long", "uart"}, bytes : Seq(ByteSet')]
          /\ SppRecvDataBuff \in [bytes : Seq(ByteSet'), fits : Nat]
      BY <1>0, <1>1, TypesGrow DEF TypeInv
    <2> QED
      BY <1>0, <1>1, <1>2, <1>4, <2>1, TypesGrow DEF TypeInv, split, history
  <1>8. ArrivedInv'
    BY <1>0, <1>1, <1>2, <1>6 DEF ArrivedInv, split, HeadHeld, history
  <1>9. SenderInv'
    BY <1>0, <1>1, <1>2, <1>4 DEF SenderInv
  <1>10. StoredInv'
    BY <1>0, <1>2 DEF StoredInv, history
  <1>11. SplitInv'
    BY <1>0, <1>2 DEF SplitInv, split, history
  <1>12. FreshInv'
    BY <1>0, <1>1, <1>2, <1>4, <1>5, <1>6 DEF FreshInv, history
  <1>13. CompleteInv'
    BY <1>0, <1>2, <1>6 DEF CompleteInv, HeadHeld, InOrder, split, history
  <1> QED
    BY <1>7, <1>8, <1>9, <1>10, <1>11, <1>12, <1>13 DEF IInv

LEMMA ClientSplitsKeeps ==
  ASSUME IInv, NEW ask \in Asks, ClientSplits(ask)
  PROVE  IInv'
  <1>. DEFINE p == Packet(packets + 1, ask, "parts") b == client.bytes n == Room - Len(b)
              head == SubSeq(Bytes(p), 1, n) rest == From(Bytes(p), n)
  <1>0. TypeInv /\ ArrivedInv /\ SenderInv /\ StoredInv /\ SplitInv /\ FreshInv /\ CompleteInv
    BY DEF IInv
  <1>1. /\ held.by \in {"none", "uart"} /\ client.way \in {"none", "write"}
        /\ packets' = packets + 1
        /\ n > HeaderSize /\ n < Length(p)
        /\ client' = [way |-> "parts", packet |-> p, bytes |-> rest, number |-> 1]
        /\ HandsIn(b) /\ complete' = complete \cup PacketsIn(b)
    BY DEF ClientSplits, BluetoothWaits, HandsIn
  <1>2. UNCHANGED <<effects, stored, is_connected, uart, links>>
    BY DEF ClientSplits
  <1>3. \/ /\ PacketReceived("write", b \o head)
           /\ headLost' = FALSE /\ UNCHANGED <<lost, faults>>
        \/ /\ Fault /\ lost' = lost \cup PacketsIn(b) \cup {p} /\ headLost' = TRUE
           /\ UNCHANGED <<split, held>>
    BY DEF ClientSplits
  <1>4. p \in PacketSet /\ p \in Known' /\ p \notin Known /\ p.way = "parts"
    BY <1>0, <1>1, NewPacket DEF TypeInv, Ways
  <1>. HIDE DEF p, b
  <1>5. /\ Bytes(p) \in Seq(ByteSet') /\ Len(Bytes(p)) = Length(p) /\ Length(p) \in Nat
        /\ Bytes(p) \in Seq(BytesOf(PacketSet)) /\ PacketsIn(Bytes(p)) = {p}
        /\ \A k \in 1..Length(p) : Bytes(p)[k] = Byte(p, k)
    BY <1>4, BytesIs, LengthIs DEF ByteSet
  <1>6. /\ Known \subseteq Known' /\ b \in Seq(ByteSet) /\ b \in Seq(ByteSet')
        /\ b \in Seq(BytesOf(PacketSet)) /\ PacketsIn(b) \subseteq Known
    BY <1>0, <1>1, TypesGrow, InKnown, KnownAre DEF TypeInv, b
  <1>7. n \in 0..Len(Bytes(p)) /\ Len(Bytes(p)) - n >= 1 /\ HeaderSize \in Nat /\ n \in Nat
    BY <1>1, <1>5, <1>6, LenProperties, PacketReceiveConstants
  <1>. HIDE DEF n
  <1>8. /\ head \in Seq(ByteSet') /\ Len(head) = n /\ rest \in Seq(ByteSet')
        /\ head \o rest = Bytes(p) /\ Len(rest) = Length(p) - n
        /\ \A i \in 1..(Length(p) - n) : rest[i] = Bytes(p)[i + n]
    BY <1>5, <1>7, UpToIs, FromIs
  <1>9. PacketsIn(head) \subseteq {p}
    BY <1>5, <1>7, InParts
  <1>. HIDE DEF head, rest
  <1>10. rest # <<>> /\ DOMAIN rest = 1..Len(rest)
    BY <1>5, <1>7, <1>8, LenProperties, EmptySeq
  <1>11. RestOf(rest, p)
    <2> SUFFICES ASSUME NEW k \in 1..Len(rest)
                 PROVE  rest[k].packet = p /\ rest[k].place > HeaderSize + 1
      BY <1>10 DEF RestOf
    <2>1. k \in 1..(Length(p) - n) /\ k + n \in 1..Length(p) /\ k + n > HeaderSize + 1
      BY <1>1, <1>5, <1>7, <1>8
    <2>2. rest[k] = Byte(p, k + n)
      BY <1>5, <1>8, <2>1
    <2> QED
      BY <2>1, <2>2 DEF Byte
  <1>12. /\ client'.way = "parts" /\ client'.bytes = rest /\ client'.packet = p
         /\ client'.number = 1
    BY <1>1
  <1>13. p \notin Parsed /\ p \notin PacketsIn(b)
    BY <1>0, <1>4, <1>6, InKnown
  <1>14. Parsed' = Parsed
    BY <1>2 DEF Parsed, effects
  <1>15. client' \in [way : {"none", "write", "parts", "long"}, packet : Known',
                      bytes : Seq(ByteSet'), number : Nat]
    BY <1>1, <1>4, <1>8
  <1>16. Whole(b) /\ Of(b, "write") /\ PacketsIn(b) \cap Parsed = {}
    BY <1>0, <1>1, InNone DEF SenderInv, FreshInv, Idle, b
  <1>17. asked' \in [DOMAIN SettingSizes -> Known']
    <2>1. asked \in [DOMAIN SettingSizes -> Known']
      BY <1>0, <1>1, TypesGrow
    <2> QED
      BY <1>1, <1>6, <2>1, HandsInTyped
  <1>18. complete' \subseteq Known'
    BY <1>0, <1>1, <1>6 DEF TypeInv
  <1>19. SenderInv'
    BY <1>0, <1>2, <1>4, <1>10, <1>12 DEF SenderInv
  <1>20. CASE /\ Fault /\ lost' = lost \cup PacketsIn(b) \cup {p} /\ headLost' = TRUE
              /\ UNCHANGED <<split, held>>
    <2>1. faults \in Nat /\ faults' \in Nat
      BY <1>0, <1>20 DEF TypeInv, Fault
    <2>2. Arrived' = Arrived
      BY <1>20 DEF Arrived
    <2>3. TypeInv'
      <3>1. lost' \subseteq Known'
        BY <1>0, <1>4, <1>6, <1>20 DEF TypeInv
      <3> QED
        BY <1>0, <1>1, <1>2, <1>15, <1>17, <1>18, <1>20, <2>1, <3>1, TypesGrow
           DEF TypeInv, split, effects, stored
    <2>4. ArrivedInv'
      BY <1>0, <1>1, <1>2, <1>20, <2>2 DEF ArrivedInv, split
    <2>5. StoredInv'
      BY <1>0, <1>1, <1>2, <1>12, <1>20 DEF StoredInv, stored
    <2>6. SplitInv'
      BY <1>0, <1>20 DEF SplitInv, split
    <2>7. FreshInv'
      BY <1>0, <1>2, <1>12, <1>14, <1>20, <2>2 DEF FreshInv, stored
    <2>8. CompleteInv'
      <3>1. ~HeadHeld
        BY <1>1 DEF HeadHeld
      <3> QED
        BY <1>0, <1>1, <1>12, <1>14, <1>20, <2>2, <3>1 DEF CompleteInv
    <2> QED
      BY <1>19, <2>3, <2>4, <2>5, <2>6, <2>7, <2>8 DEF IInv
  <1>21. CASE /\ PacketReceived("write", b \o head)
              /\ headLost' = FALSE /\ UNCHANGED <<lost, faults>>
    <2>1. /\ held = Nobody /\ held' = [by |-> "write", bytes |-> b \o head]
          /\ split_enabled' = FALSE /\ UNCHANGED <<split_header, split_data, split_count>>
      BY <1>21 DEF PacketReceived
    <2>2. /\ Arrived' = b \o head /\ held'.by = "write" /\ held.by = "none"
          /\ Arrived = <<>>
      BY <2>1 DEF Arrived, Nobody
    <2>. DEFINE s == b \o head
    <2>3. /\ s \in Seq(ByteSet') /\ PacketsIn(s) \subseteq PacketsIn(b) \cup {p}
          /\ PacketsIn(b) \subseteq PacketsIn(s)
      BY <1>6, <1>8, <1>9, JoinIs, InJoin
    <2>4. TypeInv'
      <3>1. held' \in [by : {"none", "write", "long", "uart"}, bytes : Seq(ByteSet')]
        BY <2>1, <2>3
      <3>2. lost' \subseteq Known'
        BY <1>0, <1>6, <1>21 DEF TypeInv
      <3> QED
        BY <1>0, <1>1, <1>2, <1>15, <1>17, <1>18, <1>21, <2>1, <3>1, <3>2, TypesGrow
           DEF TypeInv, effects, stored
    <2>5. HeadHeld'
      <3>1. s \o rest = b \o Bytes(p)
        <4>1. b \in Seq(ByteSet') /\ head \in Seq(ByteSet') /\ rest \in Seq(ByteSet')
          BY <1>6, <1>8
        <4>2. (b \o head) \o rest = b \o (head \o rest)
          BY <4>1, ConcatAssociative
        <4> QED
          BY <1>8, <4>2
      <3>2. Whole(b \o Bytes(p))
        BY <1>4, <1>6, <1>13, <1>16, WholeAdds
      <3>3. \A q \in PacketsIn(s) : q.way = "write" \/ q = p
        <4>1. \A q \in PacketsIn(b) : q.way = "write"
          BY <1>16 DEF Of, PacketsIn
        <4> QED
          BY <2>3, <4>1
      <3>. HIDE DEF s
      <3> QED
        BY <1>11, <1>12, <2>2, <3>1, <3>2, <3>3 DEF HeadHeld, s
    <2>6. ArrivedInv'
      BY <2>1, <2>2, <2>5 DEF ArrivedInv
    <2>7. StoredInv'
      BY <1>0, <1>1, <1>2, <1>12, <2>2 DEF StoredInv, stored
    <2>8. SplitInv'
      BY <2>1 DEF SplitInv
    <2>9. FreshInv'
      BY <1>0, <1>2, <1>12, <1>13, <1>14, <1>16, <2>2, <2>3 DEF FreshInv, stored
    <2>10. CompleteInv'
      <3>1. \A q \in complete : q \in Parsed \cup lost
        BY <1>0, <2>2, InNone DEF CompleteInv
      <3>2. \A q \in PacketsIn(b) : q \in PacketsIn(Arrived') /\ q # p
        BY <1>13, <2>2, <2>3
      <3> QED
        BY <1>1, <1>12, <1>14, <1>21, <2>2, <2>5, <3>1, <3>2 DEF CompleteInv
    <2> QED
      BY <1>19, <2>4, <2>6, <2>7, <2>8, <2>9, <2>10 DEF IInv
  <1> QED
    BY <1>3, <1>20, <1>21

-----------------------------------------------------------------------------
(* Prepared writes, the link and the UART.                                 *)
LEMMA StoreFragmentKeeps ==
  ASSUME IInv, StoreFragment
  PROVE  IInv'
  <1>. DEFINE n == Lesser(FragmentRoom, Len(client.bytes)) b == SppRecvDataBuff.bytes
              part == SubSeq(client.bytes, 1, n) rest == From(client.bytes, n)
  <1>0. TypeInv /\ ArrivedInv /\ SenderInv /\ StoredInv /\ SplitInv /\ FreshInv /\ CompleteInv
    BY DEF IInv
  <1>1. /\ held.by \in {"none", "uart"} /\ client.way = "long"
        /\ client' = [client EXCEPT !.bytes = rest]
    BY DEF StoreFragment, BluetoothWaits
  <1>2. UNCHANGED <<split, held, effects, is_connected, uart, packets, links, handedIn, lost,
                    headLost>>
    BY DEF StoreFragment
  <1>3. \/ /\ SppRecvDataBuff' = [bytes |-> b \o part, fits |-> FitsAfter(n)]
           /\ UNCHANGED <<faults, spoiled>>
        \/ Fault /\ spoiled' = TRUE /\ UNCHANGED SppRecvDataBuff
    BY DEF StoreFragment
  <1>4. Known' = Known /\ ByteSet' = ByteSet /\ Content' = Content
    BY <1>2, SameKnown
  <1>5. client.bytes \in Seq(ByteSet) /\ b \in Seq(ByteSet)
    BY <1>0 DEF TypeInv
  <1>6. Len(client.bytes) \in Nat /\ FragmentRoom \in Nat
    BY <1>5, LenProperties, PacketReceiveConstants
  <1>7. n \in 0..Len(client.bytes) /\ n \in Nat
    BY <1>6 DEF Lesser
  <1>. HIDE DEF n
  <1>8. /\ part \in Seq(ByteSet) /\ rest \in Seq(ByteSet) /\ Len(part) = n
        /\ (b \o part) \o rest = b \o client.bytes
    BY <1>5, <1>7, UpToIs, FromIs, PartMoves, ZenonT(30)
  <1>9. Of(client.bytes, "long") /\ Of(b, "long")
    BY <1>0, <1>1 DEF SenderInv, StoredInv
  <1>10. Of(part, "long") /\ Of(rest, "long")
    BY <1>5, <1>7, <1>9, InParts
  <1>. HIDE DEF part, rest, b
  <1>11. b \o part \in Seq(ByteSet) /\ Of(b \o part, "long") /\ Len(b \o part) = Len(b) + n
    BY <1>5, <1>8, <1>9, <1>10, JoinIs, InJoin
  <1>12. /\ client'.way = "long" /\ client'.bytes = rest /\ client'.packet = client.packet
         /\ client'.number = client.number
    BY <1>0, <1>1 DEF TypeInv
  <1>13. client' \in [way : {"none", "write", "parts", "long"}, packet : Known,
                      bytes : Seq(ByteSet), number : Nat]
    BY <1>0, <1>1, <1>8 DEF TypeInv
  <1>14. Parsed' = Parsed /\ Arrived' = Arrived
    BY <1>2 DEF Parsed, Arrived, effects
  <1>15. spoiled \in BOOLEAN /\ (spoiled => spoiled')
    BY <1>0, <1>3 DEF TypeInv
  <1>16. TypeInv'
    <2>1. CASE /\ SppRecvDataBuff' = [bytes |-> b \o part, fits |-> FitsAfter(n)]
               /\ UNCHANGED <<faults, spoiled>>
      <3>1. Len(b) \in Nat /\ SppRecvDataBuff.fits \in Nat /\ SppRecvDataBuff.fits <= Len(b)
        BY <1>0, <1>5, LenProperties DEF TypeInv, b
      <3>2. FitsAfter(n) \in Nat /\ FitsAfter(n) <= Len(b) + n
        BY <1>7, <3>1 DEF FitsAfter, b
      <3>3. /\ SppRecvDataBuff' \in [bytes : Seq(ByteSet), fits : Nat]
            /\ SppRecvDataBuff'.fits <= Len(SppRecvDataBuff'.bytes)
        BY <1>11, <2>1, <3>2
      <3> QED
        BY <1>0, <1>2, <1>4, <1>13, <2>1, <3>3 DEF TypeInv, split, effects, handedIn
    <2>2. CASE Fault /\ spoiled' = TRUE /\ UNCHANGED SppRecvDataBuff
      <3>1. faults' \in Nat
        BY <1>0, <2>2 DEF TypeInv, Fault
      <3> QED
        BY <1>0, <1>2, <1>4, <1>13, <2>2, <3>1 DEF TypeInv, split, effects, handedIn
    <2> QED
      BY <1>3, <2>1, <2>2
  <1>17. ArrivedInv'
    BY <1>0, <1>1, <1>2, <1>14 DEF ArrivedInv, split
  <1>18. SenderInv'
    BY <1>0, <1>1, <1>2, <1>10, <1>12 DEF SenderInv
  <1>19. StoredInv'
    <2>1. \/ SppRecvDataBuff'.bytes = b \o part /\ UNCHANGED spoiled
          \/ SppRecvDataBuff'.bytes = b /\ spoiled'
      BY <1>3 DEF b
    <2>2. Of(SppRecvDataBuff'.bytes, "long")
      BY <1>9, <1>11, <2>1
    <2>3. ASSUME ~spoiled' PROVE SppRecvDataBuff'.bytes \o client'.bytes = Bytes(client'.packet)
      <3>1. SppRecvDataBuff'.bytes = b \o part /\ ~spoiled
        BY <2>1, <2>3
      <3>2. b \o client.bytes = Bytes(client.packet)
        BY <1>0, <1>1, <3>1 DEF StoredInv, b
      <3> QED
        BY <1>8, <1>12, <3>1, <3>2
    <2> QED
      BY <1>12, <2>2, <2>3 DEF StoredInv
  <1>20. SplitInv'
    BY <1>0, <1>2, <1>12 DEF SplitInv, split
  <1>21. FreshInv'
    BY <1>0, <1>1, <1>2, <1>12, <1>14, <1>15 DEF FreshInv
  <1>22. CompleteInv'
    BY <1>0, <1>1, <1>2, <1>12, <1>14 DEF CompleteInv, HeadHeld, handedIn
  <1> QED
    BY <1>16, <1>17, <1>18, <1>19, <1>20, <1>21, <1>22 DEF IInv

LEMMA ExecuteKeeps ==
  ASSUME IInv, Execute
  PROVE  IInv'
  <1>. DEFINE b == SppRecvDataBuff.bytes n == SppRecvDataBuff.fits s == Buffered
              p == client.packet
  <1>0. TypeInv /\ ArrivedInv /\ SenderInv /\ StoredInv /\ SplitInv /\ FreshInv /\ CompleteInv
    BY DEF IInv
  <1>1. /\ client.way = "long" /\ client.bytes = <<>> /\ client' = Idle /\ held = Nobody
        /\ held' = [by |-> "long", bytes |-> s]
        /\ split_enabled' = FALSE /\ UNCHANGED <<split_header, split_data, split_count>>
        /\ HandsIn(Bytes(p)) /\ complete' = complete \cup PacketsIn(Bytes(p))
        /\ lost' = IF spoiled \/ s # b THEN lost \cup {p} ELSE lost
    BY DEF Execute, PacketReceived, HandsIn
  <1>2. UNCHANGED <<effects, stored, is_connected, uart, packets, links, faults, headLost>>
    BY DEF Execute
  <1>3. Known' = Known /\ ByteSet' = ByteSet /\ Content' = Content
    BY <1>2, SameKnown
  <1>4. b \in Seq(ByteSet) /\ n \in 0..Len(b) /\ Len(b) \in Nat /\ p \in Known /\ p \in PacketSet
    BY <1>0, LenProperties, KnownAre DEF TypeInv
  <1>5. s \in Seq(ByteSet) /\ PacketsIn(s) \subseteq PacketsIn(b) /\ Of(s, "long")
    <2>1. Of(b, "long")
      BY <1>0 DEF StoredInv
    <2> QED
      BY <1>4, <2>1, UpToIs, InParts DEF Buffered
  <1>6. ASSUME ~spoiled PROVE b = Bytes(p)
    <2>1. b \o <<>> = Bytes(p)
      BY <1>0, <1>1, <1>6 DEF StoredInv
    <2> QED
      BY <1>4, <2>1, ConcatEmptySeq
  <1>7. ASSUME ~spoiled PROVE FrontOf(s) /\ PacketsIn(s) \cap Parsed = {} /\ PacketsIn(b) = {p}
    <2>1. Len(Bytes(p)) = Length(p) /\ PacketsIn(Bytes(p)) = {p}
      BY <1>4, BytesIs
    <2>2. n \in 0..Length(p) /\ s = SubSeq(Bytes(p), 1, n)
      BY <1>4, <1>6, <1>7, <2>1 DEF Buffered
    <2>3. FrontOf(s)
      BY <1>4, <2>2, FrontPrefix
    <2>4. p \notin Parsed
      BY <1>0, <1>1, <1>7 DEF FreshInv
    <2> QED
      BY <1>5, <1>6, <1>7, <2>1, <2>3, <2>4
  <1>. HIDE DEF s, b, n, p
  <1>8. Parsed' = Parsed /\ Arrived' = s /\ Arrived = <<>>
    BY <1>1, <1>2 DEF Parsed, Arrived, effects, Nobody
  <1>9. held'.by = "long" /\ client'.way = "none" /\ held.by = "none"
    BY <1>1 DEF Idle, Nobody
  <1>10. TypeInv'
    <2>1. client' \in [way : {"none", "write", "parts", "long"}, packet : Known,
                       bytes : Seq(ByteSet), number : Nat]
      <3>1. NoPacket \in Known
        BY <1>0 DEF TypeInv, Known, PacketSet, NoPacket, Ways
      <3> QED
        BY <1>1, <3>1, EmptySeq DEF Idle
    <2>2. complete' \subseteq Known /\ lost' \subseteq Known
      <3>1. PacketsIn(Bytes(p)) = {p}
        BY <1>4, BytesIs
      <3> QED
        BY <1>0, <1>1, <1>4, <3>1 DEF TypeInv
    <2>3. held' \in [by : {"none", "write", "long", "uart"}, bytes : Seq(ByteSet)]
      BY <1>1, <1>5
    <2>4. asked' \in [DOMAIN SettingSizes -> Known']
      <3>1. Bytes(p) \in Seq(ByteSet') /\ asked \in [DOMAIN SettingSizes -> Known']
        BY <1>0, <1>3, <1>4, BytesIs DEF TypeInv, ByteSet
      <3> QED
        BY <1>1, <3>1, HandsInTyped
    <2> QED
      BY <1>0, <1>1, <1>2, <1>3, <2>1, <2>2, <2>3, <2>4 DEF TypeInv, effects, stored
  <1>11. ArrivedInv'
    BY <1>1, <1>2, <1>5, <1>7, <1>8, <1>9 DEF ArrivedInv, stored
  <1>12. SenderInv'
    BY <1>0, <1>1, <1>2, <1>9 DEF SenderInv
  <1>13. StoredInv'
    BY <1>0, <1>1, <1>2, <1>9 DEF StoredInv, stored
  <1>14. SplitInv'
    BY <1>1 DEF SplitInv
  <1>15. FreshInv'
    BY <1>0, <1>2, <1>7, <1>8, <1>9 DEF FreshInv, stored
  <1>16. CompleteInv'
    <2>1. \A q \in complete : q \in Parsed \cup lost
      BY <1>0, <1>8, InNone DEF CompleteInv
    <2>2. p \in lost' \/ (Whole(s) /\ p \in PacketsIn(s))
      <3> SUFFICES ASSUME ~spoiled, s = b PROVE Whole(s) /\ p \in PacketsIn(s)
        BY <1>1
      <3> QED
        BY <1>4, <1>6, <1>7, WholeOne
    <2>3. lost \subseteq lost' /\ complete' = complete \cup {p}
      BY <1>1, <1>4, BytesIs
    <2> QED
      BY <1>8, <1>9, <2>1, <2>2, <2>3 DEF CompleteInv
  <1> QED
    BY <1>10, <1>11, <1>12, <1>13, <1>14, <1>15, <1>16 DEF IInv

LEMMA LeftoversKeeps ==
  ASSUME IInv, Leftovers, is_connected' \in BOOLEAN
  PROVE  IInv'
  <1>0. TypeInv /\ ArrivedInv /\ SenderInv /\ StoredInv /\ SplitInv /\ FreshInv /\ CompleteInv
    BY DEF IInv
  <1>1. /\ held.by \in {"none", "uart"} /\ client' = Idle
        /\ spoiled' = (spoiled \/ SppRecvDataBuff.bytes # <<>>)
    BY DEF Leftovers, BluetoothWaits
  <1>2. UNCHANGED <<split, held, effects, SppRecvDataBuff, uart, packets, links, faults,
                    handedIn, lost, headLost>>
    BY DEF Leftovers
  <1>3. Known' = Known /\ ByteSet' = ByteSet /\ Content' = Content
    BY <1>2, SameKnown
  <1>4. client'.way = "none" /\ Parsed' = Parsed /\ Arrived' = Arrived
    BY <1>1, <1>2 DEF Parsed, Arrived, effects, Idle
  <1>5. TypeInv'
    <2>1. client' \in [way : {"none", "write", "parts", "long"}, packet : Known,
                       bytes : Seq(ByteSet), number : Nat]
      <3>1. NoPacket \in Known
        BY <1>0 DEF TypeInv, Known, PacketSet, NoPacket, Ways
      <3> QED
        BY <1>1, <3>1, EmptySeq DEF Idle
    <2>2. spoiled' \in BOOLEAN
      BY <1>1
    <2> QED
      BY <1>0, <1>2, <1>3, <2>1, <2>2 DEF TypeInv, effects, split, handedIn
  <1>6. ArrivedInv'
    BY <1>0, <1>1, <1>2, <1>4 DEF ArrivedInv, split
  <1>7. SenderInv'
    BY <1>0, <1>1, <1>2, <1>4 DEF SenderInv
  <1>8. StoredInv'
    BY <1>0, <1>1, <1>2, <1>4 DEF StoredInv
  <1>9. SplitInv'
    BY <1>0, <1>2, <1>4 DEF SplitInv, split
  <1>10. FreshInv'
    BY <1>0, <1>1, <1>2, <1>4 DEF FreshInv
  <1>11. CompleteInv'
    BY <1>0, <1>1, <1>2, <1>4, InNone DEF CompleteInv, ArrivedInv, HeadHeld, handedIn
  <1> QED
    BY <1>5, <1>6, <1>7, <1>8, <1>9, <1>10, <1>11 DEF IInv

LEMMA ConnectsKeeps ==
  ASSUME IInv, Connects
  PROVE  IInv'
  <1>0. TypeInv /\ ArrivedInv /\ SenderInv /\ StoredInv /\ SplitInv /\ FreshInv /\ CompleteInv
    BY DEF IInv
  <1>1. /\ is_connected' = TRUE /\ links' = links + 1
        /\ UNCHANGED <<split, held, persist_mode, settings, SppRecvDataBuff, client, uart,
                       packets, faults, history>>
    BY DEF Connects
  <1>2. Known' = Known /\ ByteSet' = ByteSet /\ Content' = Content
    BY <1>1, SameKnown
  <1>3. TypeInv'
    BY <1>0, <1>1, <1>2 DEF TypeInv, split, history
  <1>4. Parsed' = Parsed /\ Arrived' = Arrived
    BY <1>1 DEF Parsed, Arrived, history
  <1>5. ArrivedInv' /\ SenderInv' /\ StoredInv'
    BY <1>0, <1>1, <1>4 DEF ArrivedInv, SenderInv, StoredInv, HeadHeld, split, history
  <1>6. SplitInv' /\ FreshInv'
    BY <1>0, <1>1, <1>4 DEF SplitInv, FreshInv, split, history
  <1>7. CompleteInv'
    BY <1>0, <1>1, <1>4 DEF CompleteInv, HeadHeld, InOrder, split, history
  <1> QED
    BY <1>3, <1>5, <1>6, <1>7 DEF IInv

LEMMA UartReceivedKeeps ==
  ASSUME IInv, UartReceived
  PROVE  IInv'
  <1>0. TypeInv /\ ArrivedInv /\ SenderInv /\ StoredInv /\ SplitInv /\ FreshInv /\ CompleteInv
    BY DEF IInv
  <1>1. /\ uart' = <<>> /\ held = Nobody
        /\ held' = [by |-> "uart", bytes |-> uart]
        /\ split_enabled' = FALSE /\ UNCHANGED <<split_header, split_data, split_count>>
        /\ HandsIn(uart) /\ complete' = complete \cup PacketsIn(uart)
        /\ lost' = IF split_enabled THEN lost \cup {split_header} ELSE lost
    BY DEF UartReceived, PacketReceived, HandsIn
  <1>2. UNCHANGED <<effects, stored, is_connected, client, packets, links, faults, headLost>>
    BY DEF UartReceived
  <1>3. Known' = Known /\ ByteSet' = ByteSet /\ Content' = Content
    BY <1>2, SameKnown
  <1>4. uart \in Seq(ByteSet) /\ PacketsIn(uart) \subseteq Known
    BY <1>0, InKnown DEF TypeInv
  <1>5. Whole(uart) /\ Of(uart, "uart") /\ PacketsIn(uart) \cap Parsed = {}
    BY <1>0 DEF SenderInv, FreshInv
  <1>6. Parsed' = Parsed /\ Arrived' = uart /\ Arrived = <<>>
    BY <1>1, <1>2 DEF Parsed, Arrived, effects, Nobody
  <1>7. held'.by = "uart" /\ held.by = "none"
    BY <1>1 DEF Nobody
  <1>8. TypeInv'
    <2>1. complete' \subseteq Known /\ lost' \subseteq Known
      BY <1>0, <1>1, <1>4 DEF TypeInv
    <2>2. held' \in [by : {"none", "write", "long", "uart"}, bytes : Seq(ByteSet)]
      BY <1>1, <1>4
    <2>3. <<>> \in Seq(ByteSet)
      BY EmptySeq
    <2>4. asked' \in [DOMAIN SettingSizes -> Known']
      BY <1>0, <1>1, <1>3, <1>4, HandsInTyped DEF TypeInv
    <2> QED
      BY <1>0, <1>1, <1>2, <1>3, <2>1, <2>2, <2>3, <2>4 DEF TypeInv, effects, stored
  <1>9. ArrivedInv'
    BY <1>1, <1>5, <1>6, <1>7 DEF ArrivedInv
  <1>10. SenderInv'
    BY <1>0, <1>1, <1>2, InNone DEF SenderInv
  <1>11. StoredInv'
    BY <1>0, <1>2, <1>7 DEF StoredInv, stored
  <1>12. SplitInv'
    BY <1>1 DEF SplitInv
  <1>13. FreshInv'
    BY <1>0, <1>1, <1>2, <1>5, <1>6, <1>7, InNone DEF FreshInv, stored
  <1>14. CompleteInv'
    <2>1. \A q \in complete : q \in Parsed \cup lost
      BY <1>0, <1>6, InNone DEF CompleteInv
    <2>2. lost \subseteq lost'
      BY <1>1
    <2>3. client.way = "parts" => client.packet \in lost'
      BY <1>0, <1>1, <1>7, <2>2 DEF CompleteInv, InOrder
    <2> QED
      BY <1>1, <1>2, <1>5, <1>6, <1>7, <2>1, <2>2, <2>3 DEF CompleteInv
  <1> QED
    BY <1>8, <1>9, <1>10, <1>11, <1>12, <1>13, <1>14 DEF IInv

-----------------------------------------------------------------------------
(* A part arrives, or is lost.                                             *)
LEMMA ClientPartKeeps ==
  ASSUME IInv, ClientPart
  PROVE  IInv' /\ (parsed' # parsed /\ ~Mixed => WholeOnce)
  <1>. DEFINE b == client.bytes n == Lesser(Room - PartSize, Len(b))
              part == SubSeq(b, 1, n) rest == From(b, n) all == split_data \o part
              p == client.packet h == split_header
  <1>0. TypeInv /\ ArrivedInv /\ SenderInv /\ StoredInv /\ SplitInv /\ FreshInv /\ CompleteInv
    BY DEF IInv
  <1>1. /\ held = Nobody /\ client.way = "parts"
        /\ client' = IF rest = <<>> THEN Idle
                     ELSE [client EXCEPT !.bytes = rest, !.number = (@ + 1) % CountMod]
        /\ HandsIn(IF rest = <<>> THEN Bytes(p) ELSE <<>>)
    BY DEF ClientPart
  <1>2. UNCHANGED <<held, stored, is_connected, uart, packets, links, headLost>>
    BY DEF ClientPart
  <1>3. \/ PartReceived(client.number, part)
        \/ Fault /\ lost' = lost \cup {p} /\ UNCHANGED <<split, effects>>
    BY DEF ClientPart
  <1>4. Known' = Known /\ ByteSet' = ByteSet /\ Content' = Content
    BY <1>2, SameKnown
  <1>5. /\ b \in Seq(ByteSet) /\ b # <<>> /\ p \in Known /\ p.way = "parts"
        /\ split_data \in Seq(ByteSet) /\ h \in Known
    BY <1>0, <1>1 DEF TypeInv, SenderInv
  <1>6. p \in PacketSet /\ h \in PacketSet /\ p.size \in Nat /\ h.size \in Nat
    BY <1>5, KnownAre, LengthIs
  <1>7. n \in 1..Len(b) /\ n \in 0..Len(b) /\ Len(b) \in Nat /\ n \in Nat /\ n >= 1
    <2>1. Len(b) \in Nat /\ Len(b) >= 1
      BY <1>5, EmptySeq
    <2>2. Room - PartSize \in Nat /\ Room - PartSize >= 1
      BY PacketReceiveConstants
    <2> QED
      BY <2>1, <2>2 DEF Lesser
  <1>. HIDE DEF n
  <1>8. /\ part \in Seq(ByteSet) /\ Len(part) = n /\ part \o rest = b
        /\ rest \in Seq(ByteSet) /\ Len(rest) = Len(b) - n
        /\ all \o rest = split_data \o b
    <2>. HIDE DEF b
    <2>1. n \in 0..Len(b) /\ b \in Seq(ByteSet) /\ split_data \in Seq(ByteSet)
      BY <1>5, <1>7
    <2>2. part \in Seq(ByteSet) /\ Len(part) = n /\ part \o rest = b
      BY <2>1, UpToIs
    <2>3. rest \in Seq(ByteSet) /\ Len(rest) = Len(b) - n
      BY <2>1, FromIs
    <2>4. all \o rest = split_data \o b
      BY <2>1, PartMoves
    <2> QED
      BY <2>2, <2>3, <2>4
  <1>. HIDE DEF b, part, rest
  <1>9. /\ all \in Seq(ByteSet) /\ Len(all) = Len(split_data) + n
        /\ Len(split_data) \in Nat /\ Len(all) \in Nat /\ Len(rest) \in Nat
    BY <1>5, <1>7, <1>8, JoinIs, LenProperties
  <1>10. Len(split_data \o b) = Len(split_data) + Len(b)
    BY <1>5, JoinIs
  <1>. HIDE DEF all, p, h
  <1>11. /\ Arrived = <<>> /\ Arrived' = <<>> /\ held.by = "none" /\ held'.by = "none"
    BY <1>1, <1>2 DEF Arrived, Nobody
  (* The client goes on with the next part, or has written its last.       *)
  <1>12. \/ rest = <<>> /\ client'.way = "none" /\ client' = Idle
         \/ /\ rest # <<>> /\ client'.way = "parts" /\ client'.bytes = rest
            /\ client'.packet = p /\ client'.number = (client.number + 1) % CountMod
    BY <1>0, <1>1 DEF Idle, TypeInv, p
  <1>13. client' \in [way : {"none", "write", "parts", "long"}, packet : Known,
                      bytes : Seq(ByteSet), number : Nat]
    <2>1. NoPacket \in Known
      BY <1>0 DEF TypeInv, Known, PacketSet, NoPacket, Ways
    <2>2. Idle \in [way : {"none", "write", "parts", "long"}, packet : Known,
                    bytes : Seq(ByteSet), number : Nat]
      BY <2>1, EmptySeq DEF Idle
    <2>3. client.number \in Nat
      BY <1>0 DEF TypeInv
    <2>4. (client.number + 1) % CountMod \in Nat
      BY <2>3, PacketReceiveConstants
    <2>5. [client EXCEPT !.bytes = rest, !.number = (@ + 1) % CountMod]
              \in [way : {"none", "write", "parts", "long"}, packet : Known,
                   bytes : Seq(ByteSet), number : Nat]
      BY <1>0, <1>8, <2>4 DEF TypeInv
    <2> QED
      BY <1>1, <2>2, <2>5
  <1>14. SenderInv'
    <2>1. p.way = "parts"
      BY <1>5
    <2> QED
      BY <1>0, <1>2, <1>12, <2>1 DEF SenderInv
  <1>15. StoredInv'
    BY <1>0, <1>1, <1>2, <1>11, <1>12 DEF StoredInv, stored
  <1>16. ArrivedInv'
    BY <1>11 DEF ArrivedInv
  <1>17. /\ complete' = (IF rest = <<>> THEN complete \cup {p} ELSE complete)
         /\ asked' \in [DOMAIN SettingSizes -> Known]
         /\ complete' \subseteq Known /\ \A q \in complete : q \in Parsed \cup lost
    <2>. DEFINE done == IF rest = <<>> THEN Bytes(p) ELSE <<>>
    <2>1. /\ Bytes(p) \in Seq(ByteSet) /\ PacketsIn(Bytes(p)) = {p}
          /\ <<>> \in Seq(ByteSet) /\ PacketsIn(<<>>) = {}
      BY <1>5, <1>6, BytesIs, EmptySeq, InNone DEF ByteSet
    <2>2. done \in Seq(ByteSet) /\ PacketsIn(done) = IF rest = <<>> THEN {p} ELSE {}
      BY <2>1
    <2>3. HandsIn(done)
      BY <1>1 DEF p
    <2>. HIDE DEF done
    <2>4. asked' \in [DOMAIN SettingSizes -> Known]
      BY <1>0, <1>4, <2>2, <2>3, HandsInTyped DEF TypeInv
    <2>5. complete' = IF rest = <<>> THEN complete \cup {p} ELSE complete
      BY <2>2, <2>3 DEF HandsIn
    <2> QED
      BY <1>0, <1>5, <1>11, <2>4, <2>5, InNone DEF TypeInv, CompleteInv
  (* If every part arrived so far, this is the next.                       *)
  <1>18. p \in lost \/ InOrder
    BY <1>0, <1>1, <1>11 DEF CompleteInv, p
  <1>19. InOrder => /\ split_enabled /\ h = p /\ Follows(client.number)
                    /\ Len(all) + Len(rest) = p.size /\ all \o rest = Payload(p)
                    /\ split_count = client.number
    <2> SUFFICES ASSUME InOrder
                 PROVE  /\ split_enabled /\ h = p /\ Follows(client.number)
                        /\ Len(all) + Len(rest) = p.size /\ all \o rest = Payload(p)
                        /\ split_count = client.number
      OBVIOUS
    <2>1. /\ split_enabled /\ h = p /\ split_data # <<>> /\ split_count = client.number
          /\ split_data \o b = Payload(p)
      BY DEF InOrder, h, p, b
    <2>2. Len(split_data) + Len(b) = p.size
      BY <1>5, <1>6, <1>10, <2>1, PayloadIs
    <2>3. Len(all) + Len(rest) = p.size
      BY <1>6, <1>7, <1>8, <1>9, <2>2
    <2> QED
      BY <1>8, <2>1, <2>3 DEF Follows
  <1>20. ~headLost /\ split_enabled =>
            /\ h = p /\ Len(split_data) + Len(b) <= p.size
            /\ Len(split_data) + Len(b) = p.size => split_data \o b = Payload(p)
    BY <1>0, <1>1 DEF SplitInv, h, p, b
  <1>21. (effects' = effects) => Parsed' = Parsed /\ parsed' = parsed
    BY DEF effects, Parsed
  <1>22. PacketsIn(uart) \cap Parsed = {} /\ (~headLost => p \notin Parsed)
    BY <1>0, <1>1 DEF FreshInv, p
  (* Nothing is parsed: the proof is the same whatever becomes of the part. *)
  <1>23. ASSUME effects' = effects, faults' \in Nat, lost \subseteq lost', lost' \subseteq Known,
                \/ /\ split_enabled' = FALSE /\ split_header' \in Known
                   /\ split_data' \in Seq(ByteSet) /\ split_count' \in Nat
                \/ UNCHANGED split
                \/ /\ Follows(client.number) /\ Len(all) < h.size
                   /\ split_data' = all /\ split_count' = Counted(split_count)
                   /\ UNCHANGED <<split_enabled, split_header>>,
                p \in lost' \/ (InOrder /\ Len(all) < h.size /\ split_data' = all
                                /\ split_count' = Counted(split_count)
                                /\ UNCHANGED <<split_enabled, split_header>>)
         PROVE  IInv' /\ parsed' = parsed
    <2>1. split_count \in Nat /\ Counted(split_count) \in Nat
      BY <1>0, PacketReceiveConstants DEF TypeInv, Counted
    <2>2. TypeInv'
      <3>1. /\ split_enabled' \in BOOLEAN /\ split_header' \in Known
            /\ split_data' \in Seq(ByteSet) /\ split_count' \in Nat
        BY <1>0, <1>9, <1>23, <2>1 DEF TypeInv, split
      <3> QED
        BY <1>0, <1>2, <1>4, <1>13, <1>17, <1>23, <3>1 DEF TypeInv, effects, stored
    <2>3. SplitInv'
      <3>1. split_enabled' => split_enabled /\ split_header' = h
        BY <1>23 DEF split, h
      <3>2. split_enabled' => split_header'.way \in {"parts", "long"}
        BY <1>0, <3>1 DEF SplitInv, h
      <3>3. ASSUME client'.way = "parts", ~headLost', split_enabled'
            PROVE  /\ split_header' = p
                   /\ Len(split_data') + Len(rest) <= p.size
                   /\ Len(split_data') + Len(rest) = p.size => split_data' \o rest = Payload(p)
        <4>1. /\ h = p /\ Len(split_data) + Len(b) <= p.size /\ split_header' = p
              /\ Len(split_data) + Len(b) = p.size => split_data \o b = Payload(p)
          BY <1>2, <1>20, <3>1, <3>3
        <4>2. split_data' = split_data \/ split_data' = all
          BY <1>23, <3>3 DEF split
        <4>3. CASE split_data' = split_data
          <5>1. Len(split_data) + Len(rest) < p.size
            BY <1>6, <1>7, <1>8, <1>9, <4>1
          <5> QED
            BY <1>6, <1>9, <4>1, <4>3, <5>1
        <4>4. CASE split_data' = all
          <5>1. Len(all) + Len(rest) = Len(split_data) + Len(b)
            BY <1>7, <1>8, <1>9
          <5> QED
            BY <1>8, <4>1, <4>4, <5>1
        <4> QED
          BY <4>2, <4>3, <4>4
      <3> QED
        BY <1>12, <3>2, <3>3 DEF SplitInv
    <2>4. FreshInv'
      BY <1>2, <1>11, <1>12, <1>21, <1>22, <1>23, InNone DEF FreshInv, stored
    <2>5. CompleteInv'
      <3>1. ASSUME InOrder, Len(all) < h.size PROVE rest # <<>> /\ all # <<>>
        <4>1. Len(all) < p.size
          BY <1>19, <3>1
        <4>2. Len(rest) # 0 /\ Len(all) # 0
          BY <1>6, <1>7, <1>9, <1>19, <3>1, <4>1
        <4> QED
          BY <4>2, EmptySeq
      <3>2. \A q \in complete' : q \in Parsed' \cup lost'
        BY <1>1, <1>17, <1>21, <1>23, <3>1
      <3>3. client'.way = "parts" => p \in lost' \/ InOrder'
        <4> SUFFICES ASSUME client'.way = "parts", InOrder, Len(all) < h.size, split_data' = all,
                            split_count' = Counted(split_count),
                            UNCHANGED <<split_enabled, split_header>>
                     PROVE  InOrder'
          BY <1>23
        <4>1. split_count' = client'.number
          BY <1>12, <1>19 DEF Counted
        <4>2. /\ split_enabled' /\ split_header' = client'.packet
              /\ split_data' # <<>> /\ split_data' \o client'.bytes = Payload(client'.packet)
          BY <1>12, <1>19, <3>1 DEF h
        <4> QED
          BY <4>1, <4>2 DEF InOrder
      <3> QED
        BY <1>11, <1>12, <3>2, <3>3 DEF CompleteInv
    <2> QED
      BY <1>14, <1>15, <1>16, <1>21, <1>23, <2>2, <2>3, <2>4, <2>5 DEF IInv
  <1>. DEFINE cleared == /\ split_enabled' = FALSE /\ split_header' \in Known
                         /\ split_data' \in Seq(ByteSet) /\ split_count' \in Nat
  <1>24. SplitClear => cleared
    <2>1. NoPacket \in Known
      BY <1>0 DEF TypeInv, Known, PacketSet, NoPacket, Ways
    <2> QED
      BY <2>1, EmptySeq DEF SplitClear
  <1>25. faults \in Nat /\ (Fault => faults' \in Nat) /\ lost \subseteq Known
    BY <1>0 DEF TypeInv, Fault
  <1>26. CASE Fault /\ lost' = lost \cup {p} /\ UNCHANGED <<split, effects>>
    BY <1>5, <1>23, <1>25, <1>26
  <1>27. CASE ~split_enabled /\ UNCHANGED <<split, effects, lost, faults>>
    <2>1. p \in lost
      BY <1>18, <1>19, <1>27
    <2> QED
      BY <1>23, <1>25, <1>27, <2>1
  <1>28. CASE split_enabled /\ ~Follows(client.number) /\ ReceivePartBad
    <2>1. p \in lost
      BY <1>18, <1>19, <1>28
    <2> QED
      BY <1>23, <1>24, <1>25, <1>28, <2>1 DEF ReceivePartBad
  <1>29. CASE Fault /\ SplitClear /\ lost' = lost \cup {split_header} /\ UNCHANGED effects
    <2>1. p \in lost' /\ lost' \subseteq Known
      BY <1>5, <1>18, <1>19, <1>25, <1>29 DEF h
    <2> QED
      BY <1>23, <1>24, <1>25, <1>29, <2>1
  <1>30. CASE /\ Follows(client.number) /\ Len(all) < split_header.size
              /\ split_data' = all /\ split_count' = Counted(split_count)
              /\ UNCHANGED <<split_enabled, split_header, effects, lost, faults>>
    <2>1. Len(all) < h.size
      BY <1>30 DEF h
    <2> QED
      BY <1>18, <1>23, <1>25, <1>30, <2>1
  <1>31. CASE /\ Len(all) > split_header.size
              /\ SplitClear /\ UNCHANGED <<effects, lost, faults>>
    <2>1. p \in lost
      BY <1>6, <1>9, <1>18, <1>19, <1>31 DEF h
    <2> QED
      BY <1>23, <1>24, <1>25, <1>31, <2>1
  <1>32. CASE /\ split_enabled /\ Len(all) = split_header.size
              /\ Parses(split_header, all) /\ SplitClear /\ UNCHANGED <<lost, faults>>
    <2>1. /\ persist_mode' \in BOOLEAN /\ settings' \in [DOMAIN SettingSizes -> Known']
          /\ parsed' \in Seq(Content') /\ Parsed' = Parsed \cup {h}
          /\ all = Payload(h) /\ h \notin Parsed => WholeOnce
      BY <1>0, <1>2, <1>5, <1>9, <1>32, ParsesIs DEF h
    (* Unless a head was lost, the packet ends with this part.             *)
    <2>2. ASSUME ~headLost PROVE h = p /\ rest = <<>> /\ all = Payload(h)
      <3>1. /\ h = p /\ Len(split_data) + Len(b) <= p.size
            /\ Len(split_data) + Len(b) = p.size => split_data \o b = Payload(p)
        BY <1>20, <1>32, <2>2
      <3>2. Len(all) = p.size
        BY <1>32, <3>1 DEF h
      <3>3. Len(rest) = 0 /\ Len(split_data) + Len(b) = p.size
        <4>1. Len(split_data) + Len(b) <= p.size
          BY <3>1
        <4>2. Len(split_data) + n = p.size
          BY <1>9, <3>2
        <4>3. n <= Len(b) /\ Len(b) \in Nat /\ n \in Nat /\ Len(split_data) \in Nat
          BY <1>7, <1>9
        <4>4. n = Len(b)
          BY <1>6, <4>1, <4>2, <4>3
        <4>5. Len(rest) = Len(b) - n
          BY <1>8
        <4> QED
          BY <4>2, <4>3, <4>4, <4>5
      <3>4. rest = <<>>
        BY <1>8, <3>3, EmptySeq
      <3>5. all \o <<>> = all
        BY <1>9, ConcatEmptySeq
      <3> QED
        BY <1>8, <3>1, <3>3, <3>4, <3>5
    <2>3. TypeInv'
      BY <1>0, <1>2, <1>4, <1>13, <1>17, <1>24, <1>25, <1>32, <2>1 DEF TypeInv, stored
    <2>4. SplitInv'
      BY <1>24, <1>32 DEF SplitInv
    <2>5. FreshInv'
      <3>1. h \notin PacketsIn(uart)
        <4>1. h.way \in {"parts", "long"} /\ Of(uart, "uart")
          BY <1>0, <1>32 DEF SplitInv, SenderInv, h
        <4> QED
          BY <4>1 DEF Of, PacketsIn
      <3>2. PacketsIn(uart') \cap Parsed' = {}
        BY <1>2, <1>22, <2>1, <3>1
      <3>3. client'.way = "parts" => headLost'
        BY <1>2, <1>12, <2>2
      <3> QED
        BY <1>11, <1>12, <3>2, <3>3, InNone DEF FreshInv
    <2>6. CompleteInv'
      <3>1. p \in lost' \/ p \in Parsed'
        BY <1>18, <1>19, <1>32, <2>1
      <3>2. ASSUME InOrder PROVE rest = <<>>
        <4>1. Len(rest) = 0
          <5>1. Len(all) = p.size
            BY <1>19, <1>32, <3>2 DEF h
          <5> QED
            BY <1>6, <1>9, <1>19, <3>2, <5>1
        <4> QED
          BY <1>8, <4>1, EmptySeq
      <3>3. \A q \in complete' : q \in Parsed' \cup lost'
        BY <1>1, <1>17, <1>32, <2>1, <3>1
      <3>4. client'.way = "parts" => p \in lost'
        BY <1>12, <1>18, <1>32, <3>2
      <3> QED
        BY <1>12, <3>3, <3>4 DEF CompleteInv
    <2>7. parsed' # parsed /\ ~Mixed => WholeOnce
      <3> SUFFICES ASSUME ~Mixed PROVE WholeOnce
        OBVIOUS
      <3>1. ~headLost
        BY <1>11 DEF Mixed
      <3> QED
        BY <1>22, <2>1, <2>2, <3>1
    <2> QED
      BY <1>14, <1>15, <1>16, <2>1, <2>3, <2>4, <2>5, <2>6, <2>7 DEF IInv
  <1>33. PartReceived(client.number, part) =>
            \/ ~split_enabled /\ UNCHANGED <<split, effects, lost, faults>>
            \/ split_enabled /\ ~Follows(client.number) /\ ReceivePartBad
            \/ Fault /\ SplitClear /\ lost' = lost \cup {split_header} /\ UNCHANGED effects
            \/ /\ Follows(client.number) /\ Len(all) < split_header.size
               /\ split_data' = all /\ split_count' = Counted(split_count)
               /\ UNCHANGED <<split_enabled, split_header, effects, lost, faults>>
            \/ /\ split_enabled /\ Len(all) = split_header.size
               /\ Parses(split_header, all) /\ SplitClear /\ UNCHANGED <<lost, faults>>
            \/ /\ Len(all) > split_header.size
               /\ SplitClear /\ UNCHANGED <<effects, lost, faults>>
    BY DEF PartReceived, ReceivePart, all
  <1> QED
    BY <1>3, <1>26, <1>27, <1>28, <1>29, <1>30, <1>31, <1>32, <1>33

-----------------------------------------------------------------------------
(* The loop of packet_received.                                            *)
LEMMA ArrivedIs ==
  ASSUME IInv
  PROVE  /\ Arrived \in Seq(ByteSet) /\ Arrived \in Seq(BytesOf(PacketSet))
         /\ Len(Arrived) \in Nat /\ (Len(Arrived) >= 1 => Arrived # <<>> /\ Front \in Known)
  <1>1. Arrived \in Seq(ByteSet)
    BY DEF IInv, TypeInv, Arrived
  <1>2. Len(Arrived) \in Nat
    BY <1>1, LenProperties
  <1>3. ASSUME Len(Arrived) >= 1 PROVE Arrived # <<>> /\ Front \in Known
    <2>1. 1 \in 1..Len(Arrived)
      BY <1>2, <1>3
    <2>2. Arrived[1] \in BytesOf(Known)
      BY <1>1, <2>1, ElementOfSeq DEF ByteSet
    <2>3. Len(Arrived) # 0
      BY <1>3
    <2> QED
      BY <2>2, <2>3, ByteIs, EmptySeq DEF Front
  <1> QED
    BY <1>1, <1>2, <1>3, KnownAre

LEMMA HeadFront ==
  ASSUME IInv, HeadHeld
  PROVE  /\ Arrived # <<>> /\ Front \in PacketSet /\ Arrived[1].place = 1
         /\ Arrived \o client.bytes # <<>>
         /\ Length(Front) <= Len(Arrived) =>
               /\ Front # client.packet /\ Front.way = "write"
               /\ \A k \in 1..Length(Front) : Arrived[k] = Byte(Front, k)
               /\ Front \notin PacketsIn(Behind) /\ Whole(Behind \o client.bytes)
               /\ client.packet \in PacketsIn(Behind)
         /\ Length(Front) > Len(Arrived) =>
               /\ Front = client.packet /\ Len(Arrived) > HeaderSize
               /\ Arrived \o client.bytes = Bytes(client.packet)
  <1>. DEFINE s == Arrived t == client.bytes c == client.packet p == Front n == Length(Front)
  <1>1. /\ client.way = "parts" /\ Whole(s \o t)
        /\ \A q \in PacketsIn(s) : q.way = "write" \/ q = c
        /\ RestOf(t, c)
    BY DEF HeadHeld
  <1>2. s \in Seq(BytesOf(PacketSet)) /\ Len(s) \in Nat /\ DOMAIN s = 1..Len(s)
    BY ArrivedIs, LenProperties
  <1>3. t \in Seq(BytesOf(PacketSet)) /\ t # <<>>
    BY <1>1, KnownAre DEF IInv, TypeInv, SenderInv
  <1>4. p = s[1].packet
    BY DEF Front
  <1>. HIDE DEF s, t, c, p
  <1>5. /\ s # <<>> /\ p \in PacketSet /\ s[1].place = 1
        /\ Length(p) <= Len(s) =>
               /\ p # c /\ \A k \in 1..Length(p) : s[k] = Byte(p, k)
               /\ p \notin PacketsIn(From(s, Length(p))) /\ Whole(From(s, Length(p)) \o t)
        /\ Length(p) > Len(s) => p = c /\ s \o t = Bytes(p) /\ Len(s) > HeaderSize
    <2>1. /\ s \in Seq(BytesOf(PacketSet)) /\ t \in Seq(BytesOf(PacketSet)) /\ t # <<>>
          /\ Whole(s \o t) /\ p = s[1].packet
          /\ RestOf(t, c)
      BY <1>1, <1>2, <1>3, <1>4
    <2>2. InFront(s, t, c, p)
      BY <2>1, HeadSplit
    <2> QED
      BY <2>2 DEF InFront
  <1>6. Len(s) >= 1 /\ 1 \in DOMAIN s
    BY <1>2, <1>5, EmptySeq
  <1>7. p.way = "write" \/ p = c
    BY <1>1, <1>4, <1>6 DEF PacketsIn
  <1>8. s \o t # <<>>
    <2>1. Len(s \o t) = Len(s) + Len(t) /\ Len(t) \in Nat
      BY <1>2, <1>3, JoinIs, LenProperties
    <2>2. Len(s \o t) # 0
      BY <1>2, <1>6, <2>1
    <2> QED
      BY <2>2, EmptySeq
  <1>9. ASSUME Length(p) <= Len(s) PROVE c \in PacketsIn(From(s, Length(p)))
    <2>1. Length(p) \in 0..Len(s)
      BY <1>2, <1>5, <1>9, LengthIs
    <2>2. From(s, Length(p)) \in Seq(BytesOf(PacketSet))
      BY <1>2, <2>1, FromIs
    <2> QED
      BY <1>1, <1>3, <1>5, <1>9, <2>2, HeadIn
  <1> QED
    BY <1>5, <1>7, <1>8, <1>9 DEF s, t, c, p, Behind

(* Once nothing is in front of it, the head is the beginning of its packet. *)
LEMMA HeadIsFront ==
  ASSUME IInv, HeadHeld, Length(Front) > Len(Arrived)
  PROVE  /\ Front = client.packet /\ Front.way = "parts" /\ Arrived[1].place = 1
         /\ Len(Arrived) < Length(Front) /\ From(Arrived, HeaderSize) # <<>>
         /\ From(Arrived, HeaderSize) \in Seq(ByteSet)
         /\ From(Arrived, HeaderSize) \o client.bytes = Payload(client.packet)
         /\ Len(From(Arrived, HeaderSize)) + Len(client.bytes) = client.packet.size
         /\ PacketsIn(Arrived) \subseteq {client.packet}
  <1>. DEFINE s == Arrived t == client.bytes p == client.packet d == From(s, HeaderSize)
  <1>1. /\ client.way = "parts" /\ Len(s) > HeaderSize /\ s \o t = Bytes(p)
    BY HeadFront DEF HeadHeld
  <1>2. s \in Seq(ByteSet) /\ Len(s) \in Nat
    BY ArrivedIs
  <1>3. t \in Seq(ByteSet) /\ t # <<>> /\ p \in Known /\ p.way = "parts"
    BY <1>1 DEF IInv, TypeInv, SenderInv
  <1>4. p \in PacketSet /\ HeaderSize \in Nat /\ p.size \in Nat /\ Length(p) = HeaderSize + p.size
    BY <1>3, KnownAre, LengthIs
  <1>5. Len(t) \in Nat /\ Len(t) >= 1
    BY <1>3, EmptySeq
  <1>6. Len(Bytes(p)) = Length(p) /\ \A k \in 1..Length(p) : Bytes(p)[k] = Byte(p, k)
    BY <1>3, <1>4, BytesIs
  <1>. HIDE DEF s, t, p, d
  <1>7. Len(s \o t) = Len(s) + Len(t) /\ \A i \in 1..Len(s) : (s \o t)[i] = s[i]
    BY <1>2, <1>3, JoinIs
  <1>8. Len(s) + Len(t) = Length(p)
    BY <1>1, <1>6, <1>7
  <1>9. s[1] = Byte(p, 1)
    <2>1. 1 \in 1..Len(s) /\ 1 \in 1..Length(p)
      BY <1>1, <1>2, <1>4, <1>5, <1>8
    <2> QED
      BY <1>1, <1>6, <1>7, <2>1
  <1>10. HeaderSize \in 0..Len(s)
    BY <1>1, <1>2, <1>4
  <1>11. d \in Seq(ByteSet) /\ Len(d) = Len(s) - HeaderSize
    BY <1>2, <1>10, FromIs DEF d
  <1>12. d \o t = Payload(p)
    <2>1. From(s \o t, HeaderSize) = d \o t
      BY <1>2, <1>3, <1>10, FromJoin DEF d
    <2> QED
      BY <1>1, <2>1 DEF Payload
  <1>13. Len(d) + Len(t) = p.size
    BY <1>2, <1>4, <1>5, <1>8, <1>11
  <1>14. d # <<>>
    <2>1. Len(d) # 0
      BY <1>1, <1>2, <1>4, <1>11
    <2> QED
      BY <2>1, EmptySeq
  <1>15. Front = p /\ s[1].place = 1
    BY <1>9 DEF Front, s, Byte
  <1>16. Len(s) < Length(p)
    BY <1>2, <1>5, <1>8
  <1>17. PacketsIn(s) \subseteq {p}
    <2>1. PacketsIn(s \o t) = PacketsIn(s) \cup PacketsIn(t) /\ PacketsIn(Bytes(p)) = {p}
      BY <1>2, <1>3, <1>4, InJoin, BytesIs
    <2> QED
      BY <1>1, <2>1
  <1> QED
    BY <1>3, <1>11, <1>12, <1>13, <1>14, <1>15, <1>16, <1>17 DEF s, t, p, d

(* While the mutex is held by the Bluetooth task, the client waits.        *)
LEMMA WholeComesIs ==
  ASSUME IInv, WholeComes
  PROVE  /\ held.by \in {"write", "long", "uart"} /\ ~split_enabled
         /\ Front \in Known /\ Front \in PacketSet
         /\ Length(Front) \in 1..Len(Arrived) /\ Length(Front) \in 0..Len(Arrived)
         /\ held.by = "write" =>
               HeadHeld \/ (client.way = "none" /\ Whole(Arrived) /\ Of(Arrived, "write"))
         /\ Front.way = held.by
         /\ Behind \in Seq(ByteSet)
         /\ SubSeq(Arrived, HeaderSize + 1, Length(Front)) \in Seq(ByteSet)
  <1>1. /\ held.by # "none" /\ Len(Arrived) >= HeaderSize /\ Length(Front) <= Len(Arrived)
    BY DEF WholeComes, HeaderComes
  <1>2. HeaderSize \in Nat /\ HeaderSize >= 1
    BY PacketReceiveConstants
  <1>3. Arrived \in Seq(ByteSet) /\ Len(Arrived) \in Nat /\ Len(Arrived) >= 1 /\ Front \in Known
    BY <1>1, <1>2, ArrivedIs
  <1>4. Front \in PacketSet
    BY <1>3, KnownAre
  <1>5. Length(Front) \in Nat /\ Length(Front) >= 1
    BY <1>4, LengthIs
  <1>6. held.by \in {"write", "long", "uart"} /\ ~split_enabled
    BY <1>1 DEF IInv, TypeInv, ArrivedInv
  <1>8. held.by = "write" =>
           HeadHeld \/ (client.way = "none" /\ Whole(Arrived) /\ Of(Arrived, "write"))
    BY DEF IInv, ArrivedInv
  <1>9. Of(Arrived, held.by) \/ (held.by = "write" /\ HeadHeld)
    BY <1>6, <1>8 DEF IInv, ArrivedInv
  <1>10. Front.way = held.by
    <2> SUFFICES ASSUME Of(Arrived, held.by) PROVE Front.way = held.by
      BY <1>1, <1>9, HeadFront
    <2>1. 1 \in 1..Len(Arrived)
      BY <1>3
    <2>2. \A k \in 1..Len(Arrived) : Arrived[k].packet.way = held.by
      BY <1>3, OfIs
    <2> QED
      BY <2>1, <2>2 DEF Front
  <1>11. Length(Front) \in 1..Len(Arrived) /\ Length(Front) \in 0..Len(Arrived)
    BY <1>1, <1>3, <1>5
  <1>12. Behind \in Seq(ByteSet)
    BY <1>3, <1>11, FromIs DEF Behind
  <1>13. SubSeq(Arrived, HeaderSize + 1, Length(Front)) \in Seq(ByteSet)
    <2>1. \A i \in (HeaderSize + 1)..Length(Front) : i \in 1..Len(Arrived)
      BY <1>2, <1>3, <1>11
    <2>2. \A i \in (HeaderSize + 1)..Length(Front) : Arrived[i] \in ByteSet
      BY <1>3, <2>1, ElementOfSeq
    <2>3. HeaderSize + 1 \in Int /\ Length(Front) \in Int
      BY <1>2, <1>5
    <2> QED
      BY <2>2, <2>3, SubSeqProperties
  <1> QED
    BY <1>3, <1>4, <1>6, <1>8, <1>10, <1>11, <1>12, <1>13

(* If what has come is whole, so is the packet in front, and what is       *)
(* behind it is other packets.                                             *)
LEMMA FrontSplits ==
  ASSUME IInv, WholeComes, Whole(Arrived) \/ FrontOf(Arrived) \/ HeadHeld
  PROVE  /\ SubSeq(Arrived, HeaderSize + 1, Length(Front)) = Payload(Front)
         /\ Front \notin PacketsIn(Behind)
         /\ PacketsIn(Arrived) = {Front} \cup PacketsIn(Behind)
         /\ (Whole(Arrived) => Whole(Behind)) /\ (FrontOf(Arrived) => Behind = <<>>)
         /\ HeadHeld => Whole(Behind \o client.bytes) /\ client.packet \in PacketsIn(Behind)
  <1>. DEFINE s == Arrived p == Front n == Length(Front)
  <1>1. /\ p \in PacketSet
        /\ n \in 1..Len(s) /\ n \in 0..Len(s)
    BY WholeComesIs
  <1>2. s \in Seq(ByteSet) /\ s \in Seq(BytesOf(PacketSet)) /\ Len(s) \in Nat
    BY ArrivedIs
  <1>3. s # <<>> /\ p = s[1].packet /\ n \in Nat /\ n >= 1 /\ n <= Len(s) /\ Length(p) = n
    <2>1. Len(s) # 0 /\ n \in Nat /\ n >= 1 /\ n <= Len(s)
      BY <1>1, <1>2
    <2> QED
      BY <2>1, EmptySeq DEF Front
  <1>10. HeadHeld => /\ \A k \in 1..n : s[k] = Byte(p, k)
                     /\ p \notin PacketsIn(Behind) /\ Whole(Behind \o client.bytes)
                     /\ client.packet \in PacketsIn(Behind)
    BY HeadFront DEF WholeComes
  <1>. HIDE DEF s, p, n
  <1>4. Whole(s) \/ FrontOf(s) \/ HeadHeld
    BY DEF s
  <1>5. ASSUME FrontOf(s) PROVE Len(s) = n /\ From(s, n) = <<>>
    <2>1. Len(s) <= Length(p)
      BY <1>2, <1>3, <1>5, FrontEnds
    <2>2. Len(s) = n
      BY <1>2, <1>3, <2>1
    <2> QED
      BY <1>2, <1>3, <2>2, FromAll
  <1>6. \A k \in 1..n : s[k] = Byte(p, k)
    <2>1. CASE Whole(s)
      BY <1>2, <1>3, <2>1, WholeFront
    <2>2. CASE FrontOf(s)
      BY <1>2, <1>3, <1>5, <2>2, FrontEnds
    <2> QED
      BY <1>4, <1>10, <2>1, <2>2
  <1>7. (Whole(s) => Whole(From(s, n))) /\ p \notin PacketsIn(From(s, n))
    <2>1. CASE Whole(s)
      BY <1>2, <1>3, <2>1, WholeFront
    <2>2. CASE FrontOf(s)
      BY <1>2, <1>3, <1>5, <2>2, InNone, WholeFront
    <2>3. CASE HeadHeld
      BY <1>2, <1>3, <1>10, <2>3, WholeFront DEF Behind, s, n
    <2> QED
      BY <1>4, <2>1, <2>2, <2>3
  <1>8. SubSeq(s, HeaderSize + 1, n) = Payload(p)
    BY <1>1, <1>2, <1>3, <1>6, FrontPayload
  <1>9. PacketsIn(s) = {p} \cup PacketsIn(From(s, n))
    <2>. DEFINE a == SubSeq(s, 1, n) c == From(s, n)
    <2>1. /\ a \in Seq(ByteSet) /\ c \in Seq(ByteSet) /\ a \o c = s /\ Len(a) = n
          /\ \A k \in 1..n : a[k] = s[k]
      BY <1>1, <1>2, UpToIs, FromIs
    <2>. HIDE DEF a, c
    <2>2. PacketsIn(s) = PacketsIn(a) \cup PacketsIn(c)
      BY <2>1, InJoin
    <2>3. ASSUME NEW k \in 1..n PROVE a[k].packet = p
      <3>1. a[k] = Byte(p, k)
        BY <1>6, <2>1
      <3> QED
        BY <3>1 DEF Byte
    <2>4. 1 \in 1..n
      BY <1>3
    <2>5. \A x : x \in PacketsIn(a) <=> x = p
      BY <2>1, <2>3, <2>4, PacketsInIs
    <2> QED
      BY <2>2, <2>5 DEF c
  <1> QED
    BY <1>5, <1>7, <1>8, <1>9, <1>10 DEF Behind, s, p, n

(* Unless fragments are mixed, it is whole.                                *)
LEMMA FrontClean ==
  ASSUME IInv, WholeComes, ~(held.by = "long" /\ spoiled)
  PROVE  Front \notin Parsed /\ (Whole(Arrived) \/ FrontOf(Arrived) \/ HeadHeld)
  <1>1. /\ held.by \in {"write", "long", "uart"}
        /\ held.by = "write" => Whole(Arrived) \/ HeadHeld
    BY WholeComesIs
  <1>2. Whole(Arrived) \/ FrontOf(Arrived) \/ HeadHeld
    BY <1>1 DEF IInv, ArrivedInv
  <1>3. Front \in PacketsIn(Arrived)
    BY <1>2, FrontSplits
  <1>4. PacketsIn(Arrived) \cap Parsed = {}
    BY DEF IInv, FreshInv
  <1> QED
    BY <1>2, <1>3, <1>4

(* The mutex is given back, and the fragments of an executed write go.     *)
LEMMA ReleasesIs ==
  ASSUME IInv, Releases, client' = client, packets' = packets
  PROVE  /\ Arrived' = <<>> /\ held'.by = "none" /\ held' = Nobody
         /\ held' \in [by : {"none", "write", "long", "uart"}, bytes : Seq(ByteSet')]
         /\ SppRecvDataBuff' \in [bytes : Seq(ByteSet'), fits : Nat]
         /\ SppRecvDataBuff'.fits <= Len(SppRecvDataBuff'.bytes)
         /\ spoiled' \in BOOLEAN /\ (held.by # "long" => spoiled' = spoiled)
         /\ StoredInv'
  <1>1. held' = [by |-> "none", bytes |-> <<>>]
    BY DEF Releases, Nobody
  <1>2. Arrived' = <<>> /\ held'.by = "none"
    BY <1>1 DEF Arrived
  <1>3. held' \in [by : {"none", "write", "long", "uart"}, bytes : Seq(ByteSet')]
    BY <1>1
  <1>4. ByteSet' = ByteSet
    BY SameKnown
  <1>5. CASE held.by = "long"
    <2>1. SppRecvDataBuff' = [bytes |-> <<>>, fits |-> 0] /\ spoiled' = FALSE
      BY <1>5 DEF Releases, FreeWriteBuffer, NoFragments
    <2>2. client.way # "long"
      BY <1>5 DEF IInv, ArrivedInv
    <2>3. Of(<<>>, "long")
      BY InNone
    <2>4. StoredInv'
      BY <1>2, <2>1, <2>2, <2>3 DEF StoredInv
    <2>5. SppRecvDataBuff'.bytes = <<>> /\ SppRecvDataBuff'.fits = 0
      BY <2>1
    <2>6. Len(SppRecvDataBuff'.bytes) = 0
      BY <2>5, EmptySeq
    <2>7. SppRecvDataBuff' \in [bytes : Seq(ByteSet'), fits : Nat]
      BY <2>1
    <2>8. SppRecvDataBuff'.fits <= Len(SppRecvDataBuff'.bytes)
      BY <2>5, <2>6
    <2> QED
      BY <1>1, <1>2, <1>3, <1>5, <2>1, <2>4, <2>7, <2>8 DEF Nobody
  <1>6. CASE held.by # "long"
    <2>1. SppRecvDataBuff' = SppRecvDataBuff /\ spoiled' = spoiled
      BY <1>6 DEF Releases, stored
    <2>2. StoredInv'
      BY <1>2, <1>6, <2>1 DEF IInv, StoredInv
    <2> QED
      BY <1>1, <1>2, <1>3, <1>4, <2>1, <2>2 DEF IInv, TypeInv, Nobody
  <1> QED
    BY <1>5, <1>6

(* What comes whole is handed to parse_packet.                             *)
LEMMA ParsesNextKeeps ==
  ASSUME IInv, ParsesNext
  PROVE  IInv' /\ (parsed' # parsed /\ ~Mixed => WholeOnce)
  <1>0. TypeInv /\ ArrivedInv /\ SenderInv /\ StoredInv /\ SplitInv /\ FreshInv /\ CompleteInv
    BY DEF IInv
  <1>. DEFINE s == Arrived p == Front d == SubSeq(Arrived, HeaderSize + 1, Length(Front))
  <1>1. WholeComes /\ Parses(p, d)
    BY DEF ParsesNext
  <1>2. \/ held' = [held EXCEPT !.bytes = Behind] /\ UNCHANGED <<stored, lost, faults>>
        \/ StopsBehind /\ UNCHANGED faults
        \/ Fault /\ StopsBehind
    BY DEF ParsesNext
  <1>3. UNCHANGED <<split, is_connected, client, uart, packets, links, complete, asked, headLost>>
    BY DEF ParsesNext, handedIn
  <1>4. /\ held.by \in {"write", "long", "uart"} /\ ~split_enabled /\ p \in Known
        /\ Length(p) \in 0..Len(s) /\ p.way = held.by
        /\ Behind \in Seq(ByteSet) /\ d \in Seq(ByteSet)
    BY <1>1, WholeComesIs
  <1>5. held.by = "write" => HeadHeld \/ (client.way = "none" /\ Whole(s) /\ Of(s, "write"))
    BY <1>1, WholeComesIs
  <1>6. Whole(s) \/ FrontOf(s) \/ HeadHeld =>
            /\ d = Payload(p) /\ p \notin PacketsIn(Behind)
            /\ PacketsIn(s) = {p} \cup PacketsIn(Behind)
            /\ (Whole(s) => Whole(Behind)) /\ (FrontOf(s) => Behind = <<>>)
            /\ HeadHeld => /\ Whole(Behind \o client.bytes)
                           /\ client.packet \in PacketsIn(Behind)
    BY <1>1, FrontSplits
  <1>7. ~(held.by = "long" /\ spoiled) =>
            p \notin Parsed /\ (Whole(s) \/ FrontOf(s) \/ HeadHeld)
    BY <1>1, FrontClean
  <1>8. s \in Seq(ByteSet)
    BY ArrivedIs
  <1>9. \A way : Of(s, way) => Of(Behind, way)
    BY <1>4, <1>8, InParts DEF Behind
  <1>10. PacketsIn(Behind) \subseteq Known
    BY <1>0, <1>4, InKnown
  <1>. HIDE DEF s, p, d
  <1>11. Known' = Known /\ ByteSet' = ByteSet /\ Content' = Content
    BY <1>3, SameKnown
  <1>12. /\ persist_mode' \in BOOLEAN /\ settings' \in [DOMAIN SettingSizes -> Known']
         /\ parsed' \in Seq(Content') /\ Parsed' = Parsed \cup {p}
         /\ (d = Payload(p) /\ p \notin Parsed => WholeOnce)
    BY <1>0, <1>1, <1>3, <1>4, ParsesIs
  <1>13. ~Mixed => WholeOnce
    BY <1>4, <1>6, <1>7, <1>12 DEF Mixed
  <1>14. p \notin PacketsIn(uart)
    <2>1. CASE held.by = "uart"
      BY <1>0, <2>1, InNone DEF ArrivedInv
    <2>2. CASE held.by # "uart"
      <3>1. Of(uart, "uart")
        BY <1>0 DEF SenderInv
      <3> QED
        BY <1>4, <2>2, <3>1 DEF Of, PacketsIn
    <2> QED
      BY <2>1, <2>2
  <1>15. client.way = "write" => p \notin PacketsIn(client.bytes)
    <2>1. ASSUME client.way = "write" PROVE p \notin PacketsIn(client.bytes)
      <3>1. Of(client.bytes, "write") /\ held.by # "write"
        BY <1>0, <1>5, <2>1 DEF SenderInv, HeadHeld
      <3> QED
        BY <1>4, <3>1 DEF Of, PacketsIn
    <2> QED
      BY <2>1
  <1>16. client.way \in {"parts", "long"} => p # client.packet
    BY <1>0, <1>4 DEF SenderInv, ArrivedInv
  <1>17. SenderInv'
    BY <1>0, <1>3 DEF SenderInv
  <1>18. SplitInv'
    BY <1>0, <1>3 DEF SplitInv, split
  <1>19. \A q \in complete :
             \/ q \in Parsed' \cup lost
             \/ q \in PacketsIn(Behind) /\ (Whole(Behind) \/ (HeadHeld /\ q # client.packet))
    BY <1>0, <1>6, <1>12 DEF CompleteInv, s
  <1>20. client.way = "parts" => client.packet \in lost \/ (held.by = "write" /\ HeadHeld)
    BY <1>0, <1>4, <1>5 DEF CompleteInv, InOrder
  <1>21. CASE held' = [held EXCEPT !.bytes = Behind] /\ UNCHANGED <<stored, lost, faults>>
    <2>1. held' \in [by : {"none", "write", "long", "uart"}, bytes : Seq(ByteSet)]
          /\ held'.by = held.by /\ Arrived' = Behind
      BY <1>0, <1>4, <1>21 DEF TypeInv, Arrived
    <2>2. HeadHeld => HeadHeld'
      BY <1>3, <1>6, <2>1 DEF HeadHeld, s
    <2>3. TypeInv'
      BY <1>0, <1>3, <1>11, <1>12, <1>21, <2>1 DEF TypeInv, split, stored
    <2>4. ArrivedInv'
      <3>1. ~spoiled /\ held.by = "long" => FrontOf(Behind)
        BY <1>0, <1>6, InNone DEF ArrivedInv, s
      <3>2. held.by = "uart" => uart = <<>> /\ Whole(Behind) /\ Of(Behind, "uart")
        BY <1>0, <1>6, <1>9 DEF ArrivedInv, s
      <3>3. held.by = "write" =>
               HeadHeld' \/ (client.way = "none" /\ Whole(Behind) /\ Of(Behind, "write"))
        BY <1>5, <1>6, <1>9, <2>2
      <3>4. held.by = "long" => client.way = "none" /\ Of(Behind, "long")
        BY <1>0, <1>9 DEF ArrivedInv, s
      <3> QED
        BY <1>3, <1>4, <1>21, <2>1, <3>1, <3>2, <3>3, <3>4 DEF ArrivedInv, split, stored
    <2>5. StoredInv'
      BY <1>0, <1>3, <1>21, <2>1 DEF StoredInv, stored
    <2>6. FreshInv'
      <3>1. ~(held.by = "long" /\ spoiled) => PacketsIn(Behind) \cap (Parsed \cup {p}) = {}
        BY <1>0, <1>6, <1>7 DEF FreshInv, s
      <3> QED
        BY <1>0, <1>3, <1>12, <1>14, <1>15, <1>16, <1>21, <2>1, <3>1 DEF FreshInv, stored
    <2>7. CompleteInv'
      BY <1>3, <1>19, <1>20, <1>21, <2>1, <2>2 DEF CompleteInv
    <2> QED
      BY <1>13, <1>17, <1>18, <2>3, <2>4, <2>5, <2>6, <2>7 DEF IInv
  <1>22. CASE StopsBehind /\ faults' \in Nat
    <2>1. Releases /\ lost' = lost \cup PacketsIn(Behind)
      BY <1>22 DEF StopsBehind
    <2>2. /\ Arrived' = <<>> /\ held'.by = "none"
          /\ held' \in [by : {"none", "write", "long", "uart"}, bytes : Seq(ByteSet')]
          /\ SppRecvDataBuff' \in [bytes : Seq(ByteSet'), fits : Nat]
          /\ SppRecvDataBuff'.fits <= Len(SppRecvDataBuff'.bytes)
          /\ spoiled' \in BOOLEAN /\ (held.by # "long" => spoiled' = spoiled)
          /\ StoredInv'
      BY <1>3, <2>1, ReleasesIs
    <2>3. lost' \subseteq Known
      BY <1>0, <1>10, <2>1 DEF TypeInv
    <2>4. TypeInv'
      BY <1>0, <1>3, <1>11, <1>12, <1>22, <2>2, <2>3 DEF TypeInv, split
    <2>5. ArrivedInv'
      BY <2>2 DEF ArrivedInv
    <2>6. FreshInv'
      <3>1. client.way = "long" => spoiled' = spoiled
        BY <1>0, <2>2 DEF ArrivedInv
      <3> QED
        BY <1>0, <1>3, <1>12, <1>14, <1>15, <1>16, <2>2, <3>1, InNone DEF FreshInv
    <2>7. CompleteInv'
      BY <1>3, <1>6, <1>19, <1>20, <2>1, <2>2, InNone DEF CompleteInv
    <2> QED
      BY <1>13, <1>17, <1>18, <2>2, <2>4, <2>5, <2>6, <2>7 DEF IInv
  <1>23. faults \in Nat /\ (Fault => faults' \in Nat)
    BY <1>0 DEF TypeInv, Fault
  <1> QED
    BY <1>2, <1>21, <1>22, <1>23

(* What is marked as split is: the bit of the flags is set one way or the  *)
(* other.                                                                  *)
LEMMA PartsAreMarked ==
  ASSUME NEW p \in PacketSet, p.way = "parts"
  PROVE  Bit3(Flags(p))
  <1>1. p.number \in Nat
    BY LengthIs
  <1>. DEFINE n == p.number
  <1>2. n \in Nat
    BY <1>1
  <1>3. CASE Bit3(n)
    BY <1>3 DEF Flags
  <1>4. CASE ~Bit3(n)
    <2>1. Flags(p) = n + 8
      BY <1>4 DEF Flags
    <2>. HIDE DEF n
    <2>2. (n \div 8) % 2 # 1
      BY <1>4 DEF Bit3
    <2>3. (n + 8) \div 8 = (n \div 8) + 1 /\ n \div 8 \in Nat
      BY <1>2
    <2>4. ((n \div 8) + 1) % 2 = 1
      BY <2>2, <2>3
    <2> QED
      BY <2>1, <2>3, <2>4 DEF Bit3
  <1> QED
    BY <1>3, <1>4

(* A header without all of its packet is that of a client's split packet,  *)
(* or that of a prepared write that lacks fragments.                       *)
LEMMA HeaderAlone ==
  ASSUME IInv, HeaderComes, Length(Front) > Len(Arrived)
  PROVE  /\ held.by \in {"write", "long"} /\ ~Whole(Arrived)
         /\ held.by = "write" => HeadHeld
         /\ held.by = "long" => client.way = "none"
         /\ PacketsIn(Arrived) \subseteq {client.packet} \/ ~HeadHeld
         /\ Front \in Known /\ Front.way \in {"parts", "long"}
         /\ From(Arrived, HeaderSize) \in Seq(ByteSet)
  <1>1. held.by # "none" /\ Len(Arrived) >= HeaderSize
    BY DEF HeaderComes
  <1>2. HeaderSize \in Nat /\ HeaderSize >= 1
    BY PacketReceiveConstants
  <1>3. /\ Arrived \in Seq(ByteSet) /\ Arrived \in Seq(BytesOf(PacketSet)) /\ Len(Arrived) \in Nat
        /\ Len(Arrived) >= 1 /\ Arrived # <<>> /\ Front \in Known
    BY <1>1, <1>2, ArrivedIs
  <1>4. Length(Front) \in Nat
    BY <1>3, KnownAre, LengthIs
  <1>5. ~Whole(Arrived)
    <2> SUFFICES ASSUME Whole(Arrived) PROVE FALSE
      OBVIOUS
    <2>1. Length(Front) \in 1..Len(Arrived)
      BY <1>3, WholeFront DEF Front
    <2> QED
      BY <1>3, <1>4, <2>1
  <1>6. /\ held.by \in {"write", "long"} /\ (held.by = "write" => HeadHeld)
        /\ (held.by = "long" => client.way = "none" /\ Of(Arrived, "long"))
    BY <1>1, <1>5 DEF IInv, TypeInv, ArrivedInv
  <1>7. HeadHeld => Front.way = "parts" /\ PacketsIn(Arrived) \subseteq {client.packet}
    BY HeadIsFront
  <1>8. ASSUME held.by = "long" PROVE Front.way = "long"
    <2>1. 1 \in 1..Len(Arrived)
      BY <1>3
    <2>2. \A k \in 1..Len(Arrived) : Arrived[k].packet.way = "long"
      BY <1>3, <1>6, <1>8, OfIs
    <2> QED
      BY <2>1, <2>2 DEF Front
  <1>9. HeaderSize \in 0..Len(Arrived)
    BY <1>1, <1>2, <1>3
  <1>10. From(Arrived, HeaderSize) \in Seq(ByteSet)
    BY <1>3, <1>9, FromIs
  <1> QED
    BY <1>3, <1>5, <1>6, <1>7, <1>8, <1>10

(* The mutex is given back behind the head of a packet, or behind what is  *)
(* not even a header.                                                      *)
LEMMA BeginsSplitKeeps ==
  ASSUME IInv, BeginsSplit
  PROVE  IInv'
  <1>0. TypeInv /\ ArrivedInv /\ SenderInv /\ StoredInv /\ SplitInv /\ FreshInv /\ CompleteInv
    BY DEF IInv
  <1>. DEFINE p == Front d == From(Arrived, HeaderSize)
  <1>1. HeaderComes /\ Length(p) > Len(Arrived) /\ Releases
    BY DEF BeginsSplit, SplitComes
  <1>2. \/ /\ split_enabled' = TRUE /\ split_header' = p /\ split_data' = d /\ split_count' = 1
           /\ UNCHANGED <<lost, faults>>
        \/ Fault /\ SplitClear /\ lost' = lost \cup {p}
    BY DEF BeginsSplit
  <1>3. UNCHANGED <<effects, is_connected, client, uart, packets, links, complete, asked, headLost>>
    BY DEF BeginsSplit, handedIn
  <1>4. /\ held.by \in {"write", "long"} /\ ~Whole(Arrived)
        /\ (held.by = "write" => HeadHeld)
        /\ (held.by = "long" => client.way = "none")
        /\ (HeadHeld => PacketsIn(Arrived) \subseteq {client.packet})
        /\ p \in Known /\ p.way \in {"parts", "long"} /\ d \in Seq(ByteSet)
    BY <1>1, HeaderAlone
  <1>5. ASSUME HeadHeld
        PROVE  /\ p = client.packet /\ d # <<>> /\ d \o client.bytes = Payload(client.packet)
               /\ Len(d) + Len(client.bytes) = client.packet.size
               /\ client.number = 1
    BY <1>1, <1>5, HeadIsFront DEF HeadHeld
  <1>6. client.way \in {"none", "parts"} /\ (client.way = "parts" => HeadHeld)
    BY <1>4 DEF HeadHeld
  <1>. HIDE DEF p, d
  <1>7. /\ Arrived' = <<>> /\ held'.by = "none"
        /\ held' \in [by : {"none", "write", "long", "uart"}, bytes : Seq(ByteSet')]
        /\ SppRecvDataBuff' \in [bytes : Seq(ByteSet'), fits : Nat]
        /\ SppRecvDataBuff'.fits <= Len(SppRecvDataBuff'.bytes)
        /\ spoiled' \in BOOLEAN /\ StoredInv'
    BY <1>1, <1>3, ReleasesIs
  <1>8. Known' = Known /\ ByteSet' = ByteSet /\ Content' = Content
    BY <1>3, SameKnown
  <1>9. Parsed' = Parsed
    BY <1>3 DEF Parsed, effects
  <1>10. ArrivedInv'
    BY <1>7 DEF ArrivedInv
  <1>11. SenderInv'
    BY <1>0, <1>3 DEF SenderInv
  <1>12. FreshInv'
    BY <1>0, <1>3, <1>6, <1>7, <1>9, InNone DEF FreshInv
  <1>13. \A q \in complete : q \in Parsed \cup lost
    BY <1>0, <1>4 DEF CompleteInv
  <1>15. CASE /\ split_enabled' = TRUE /\ split_header' = p /\ split_data' = d /\ split_count' = 1
              /\ UNCHANGED <<lost, faults>>
    <2>1. TypeInv'
      BY <1>0, <1>3, <1>4, <1>7, <1>8, <1>15 DEF TypeInv, effects
    <2>2. SplitInv'
      <3>1. client.packet.size \in Nat
        <4>1. client.packet \in PacketSet
          BY <1>0, KnownAre DEF TypeInv
        <4> QED
          BY <4>1, LengthIs
      <3> QED
        BY <1>3, <1>4, <1>5, <1>6, <1>15, <3>1 DEF SplitInv
    <2>3. CompleteInv'
      <3>1. client.way = "parts" => InOrder'
        BY <1>3, <1>5, <1>6, <1>15 DEF InOrder
      <3> QED
        BY <1>3, <1>9, <1>13, <1>15, <3>1 DEF CompleteInv
    <2> QED
      BY <1>7, <1>10, <1>11, <1>12, <2>1, <2>2, <2>3 DEF IInv
  <1>16. CASE Fault /\ SplitClear /\ lost' = lost \cup {p}
    <2>1. /\ split_enabled' = FALSE /\ split_header' = NoPacket
          /\ split_data' = <<>> /\ split_count' = 0
      BY <1>16 DEF SplitClear
    <2>2. faults' \in Nat
      BY <1>0, <1>16 DEF TypeInv, Fault
    <2>3. NoPacket \in Known
      BY <1>0 DEF TypeInv, Known, PacketSet, NoPacket, Ways
    <2>4. TypeInv'
      <3>1. lost' \subseteq Known
        BY <1>0, <1>4, <1>16 DEF TypeInv
      <3> QED
        BY <1>0, <1>3, <1>7, <1>8, <2>1, <2>2, <2>3, <3>1, EmptySeq DEF TypeInv, effects
    <2>5. SplitInv'
      BY <2>1 DEF SplitInv
    <2>6. CompleteInv'
      BY <1>3, <1>5, <1>6, <1>9, <1>13, <1>16 DEF CompleteInv
    <2> QED
      BY <1>7, <1>10, <1>11, <1>12, <2>4, <2>5, <2>6 DEF IInv
  <1> QED
    BY <1>2, <1>15, <1>16

LEMMA EndsKeeps ==
  ASSUME IInv, Ends
  PROVE  IInv'
  <1>0. TypeInv /\ ArrivedInv /\ SenderInv /\ StoredInv /\ SplitInv /\ FreshInv /\ CompleteInv
    BY DEF IInv
  <1>1. held.by # "none" /\ ~WholeComes /\ ~SplitComes /\ Releases
    BY DEF Ends
  <1>2. UNCHANGED <<split, effects, is_connected, client, uart, packets, links, faults,
                    complete, asked, lost, headLost>>
    BY DEF Ends, handedIn
  <1>3. /\ Arrived' = <<>> /\ held'.by = "none"
        /\ held' \in [by : {"none", "write", "long", "uart"}, bytes : Seq(ByteSet')]
        /\ SppRecvDataBuff' \in [bytes : Seq(ByteSet'), fits : Nat]
        /\ SppRecvDataBuff'.fits <= Len(SppRecvDataBuff'.bytes)
        /\ spoiled' \in BOOLEAN /\ (held.by # "long" => spoiled' = spoiled)
        /\ StoredInv'
    BY <1>1, <1>2, ReleasesIs
  <1>4. HeaderSize \in Nat
    BY PacketReceiveConstants
  <1>5. Arrived \in Seq(BytesOf(PacketSet)) /\ Len(Arrived) \in Nat
    BY ArrivedIs
  <1>6. ASSUME Whole(Arrived) PROVE Arrived = <<>>
    <2> SUFFICES ASSUME Arrived # <<>> PROVE FALSE
      OBVIOUS
    <2>1. /\ Front \in PacketSet /\ Arrived[1].place = 1 /\ Length(Front) \in 1..Len(Arrived)
      BY <1>5, <1>6, WholeFront DEF Front
    <2>2. Front.size \in Nat /\ Length(Front) = HeaderSize + Front.size
      BY <2>1, LengthIs
    <2>3. Length(Front) <= Len(Arrived) /\ Len(Arrived) >= HeaderSize
      BY <1>4, <1>5, <2>1, <2>2
    <2> QED
      BY <1>1, <2>1, <2>3 DEF WholeComes, HeaderComes
  <1>7. ~HeadHeld
    <2> SUFFICES ASSUME HeadHeld PROVE FALSE
      OBVIOUS
    <2>1. Front \in PacketSet /\ Arrived[1].place = 1
      BY HeadFront
    <2>2. Front.size \in Nat /\ Length(Front) = HeaderSize + Front.size
      BY <2>1, LengthIs
    <2>3. Length(Front) <= Len(Arrived) => Len(Arrived) >= HeaderSize
      BY <1>4, <1>5, <2>2
    <2>4. Length(Front) > Len(Arrived)
      BY <1>1, <1>4, <1>5, <2>1, <2>2, <2>3 DEF WholeComes, HeaderComes
    <2>5. Front.way = "parts" /\ Len(Arrived) > HeaderSize
      BY <2>4, HeadFront, HeadIsFront
    <2>6. Bit3(Flags(Front)) /\ Len(Arrived) >= HeaderSize
      BY <1>4, <1>5, <2>1, <2>5, PartsAreMarked
    <2> QED
      BY <1>1, <2>1, <2>4, <2>6 DEF SplitComes, HeaderComes
  <1>8. Known' = Known /\ ByteSet' = ByteSet /\ Content' = Content
    BY <1>2, SameKnown
  <1>9. Parsed' = Parsed
    BY <1>2 DEF Parsed, effects
  <1>10. TypeInv'
    BY <1>0, <1>2, <1>3, <1>8 DEF TypeInv, split, effects
  <1>11. ArrivedInv'
    BY <1>3 DEF ArrivedInv
  <1>12. SenderInv'
    BY <1>0, <1>2 DEF SenderInv
  <1>13. SplitInv'
    BY <1>0, <1>2 DEF SplitInv, split
  <1>14. FreshInv'
    <2>1. client.way = "long" => spoiled' = spoiled
      BY <1>0, <1>3 DEF ArrivedInv
    <2> QED
      BY <1>0, <1>2, <1>3, <1>9, <2>1, InNone DEF FreshInv
  <1>15. CompleteInv'
    <2>1. \A q \in complete : q \in Parsed \cup lost
      BY <1>0, <1>6, <1>7, InNone DEF CompleteInv
    <2>2. client.way = "parts" => client.packet \in lost
      BY <1>0, <1>1, <1>7 DEF CompleteInv, ArrivedInv, InOrder
    <2> QED
      BY <1>2, <1>9, <2>1, <2>2 DEF CompleteInv
  <1> QED
    BY <1>3, <1>10, <1>11, <1>12, <1>13, <1>14, <1>15 DEF IInv

-----------------------------------------------------------------------------
(* The invariant, and what follows from it.                                *)
LEMMA InitHolds == Init => IInv
  <1> SUFFICES ASSUME Init PROVE IInv
    OBVIOUS
  <1>1. /\ split_enabled = FALSE /\ split_header = NoPacket
        /\ split_data = <<>> /\ split_count = 0
        /\ held = [by |-> "none", bytes |-> <<>>]
        /\ persist_mode = FALSE
        /\ SppRecvDataBuff = [bytes |-> <<>>, fits |-> 0] /\ is_connected = FALSE
        /\ client = Idle /\ uart = <<>>
        /\ packets = 0 /\ links = 0 /\ faults = 0
        /\ parsed = <<>> /\ complete = {} /\ lost = {}
        /\ settings = [s \in DOMAIN SettingSizes |-> NoPacket]
        /\ asked = [s \in DOMAIN SettingSizes |-> NoPacket]
        /\ spoiled = FALSE /\ headLost = FALSE
    BY DEF Init, Nobody, NoFragments
  <1>2. client = [way |-> "none", packet |-> NoPacket, bytes |-> <<>>, number |-> 0]
    BY <1>1 DEF Idle
  <1>3. NoPacket \in Known
    BY <1>1 DEF Known, PacketSet, NoPacket, Ways
  <1>4. Arrived = <<>>
    BY <1>1 DEF Arrived
  <1>5. Len(SppRecvDataBuff.bytes) = 0 /\ SppRecvDataBuff.bytes = <<>>
    <2>1. SppRecvDataBuff.bytes = <<>>
      BY <1>1
    <2> QED
      BY <2>1, EmptySeq
  <1>6. TypeInv
    <2>1. <<>> \in Seq(ByteSet) /\ <<>> \in Seq(Content)
      BY EmptySeq
    <2>2. asked \in [DOMAIN SettingSizes -> Known] /\ settings \in [DOMAIN SettingSizes -> Known]
      BY <1>1, <1>3
    <2>3. held \in [by : {"none", "write", "long", "uart"}, bytes : Seq(ByteSet)]
      BY <1>1, <2>1
    <2>4. /\ SppRecvDataBuff \in [bytes : Seq(ByteSet), fits : Nat]
          /\ SppRecvDataBuff.fits <= Len(SppRecvDataBuff.bytes)
      BY <1>1, <1>5, <2>1
    <2>5. client \in [way : {"none", "write", "parts", "long"}, packet : Known,
                      bytes : Seq(ByteSet), number : Nat]
      BY <1>2, <1>3, <2>1
    <2> QED
      BY <1>1, <1>3, <2>1, <2>2, <2>3, <2>4, <2>5 DEF TypeInv
  <1>7. Parsed = {}
    BY <1>1 DEF Parsed
  <1>8. ArrivedInv
    BY <1>1, <1>4 DEF ArrivedInv
  <1>9. SenderInv
    BY <1>1, <1>2, InNone DEF SenderInv
  <1>10. StoredInv
    BY <1>1, <1>2, <1>5, InNone DEF StoredInv
  <1>11. SplitInv
    BY <1>1 DEF SplitInv
  <1>12. FreshInv
    BY <1>7 DEF FreshInv
  <1>13. CompleteInv
    BY <1>1, <1>2 DEF CompleteInv
  <1> QED
    BY <1>1, <1>6, <1>8, <1>9, <1>10, <1>11, <1>12, <1>13 DEF IInv

LEMMA IdleKeeps ==
  ASSUME IInv, UNCHANGED vars
  PROVE  IInv'
  <1>1. /\ UNCHANGED <<split_enabled, split_header, split_data, split_count>>
        /\ UNCHANGED <<held, persist_mode, settings, SppRecvDataBuff, is_connected, client>>
        /\ UNCHANGED <<uart, packets, links, faults>>
        /\ UNCHANGED <<parsed, complete, lost, asked, spoiled, headLost>>
    BY DEF vars, split, history
  <1>2. Known' = Known /\ ByteSet' = ByteSet /\ Content' = Content
    BY <1>1, SameKnown
  <1>3. Arrived' = Arrived /\ Parsed' = Parsed
    BY <1>1 DEF Arrived, Parsed
  <1>4. TypeInv'
    BY <1>1, <1>2 DEF IInv, TypeInv
  <1>5. ArrivedInv' /\ SenderInv' /\ StoredInv'
    BY <1>1, <1>3 DEF IInv, ArrivedInv, HeadHeld, SenderInv, StoredInv
  <1>6. SplitInv' /\ FreshInv' /\ CompleteInv'
    BY <1>1, <1>3 DEF IInv, SplitInv, FreshInv, CompleteInv, HeadHeld, InOrder
  <1> QED
    BY <1>4, <1>5, <1>6 DEF IInv

LEMMA NextHolds == IInv /\ [Next]_vars => IInv' /\ (parsed' # parsed /\ ~Mixed => WholeOnce)
  <1> SUFFICES ASSUME IInv, [Next]_vars
               PROVE  IInv' /\ (parsed' # parsed /\ ~Mixed => WholeOnce)
    OBVIOUS
  <1>1. ASSUME UNCHANGED effects PROVE parsed' = parsed
    BY <1>1 DEF effects
  <1>2. ASSUME UNCHANGED history PROVE parsed' = parsed
    BY <1>2 DEF history
  <1>3. ASSUME NEW ask \in Asks, ClientAdds(ask) PROVE IInv' /\ parsed' = parsed
    BY <1>2, <1>3, ClientAddsKeeps DEF ClientAdds
  <1>4. ASSUME NEW ask \in Asks, ClientSplits(ask) PROVE IInv' /\ parsed' = parsed
    BY <1>1, <1>4, ClientSplitsKeeps DEF ClientSplits
  <1>5. ASSUME NEW ask \in Asks, ClientPrepares(ask) PROVE IInv' /\ parsed' = parsed
    BY <1>2, <1>5, ClientPreparesKeeps DEF ClientPrepares
  <1>6. ASSUME ClientWrites PROVE IInv' /\ parsed' = parsed
    BY <1>1, <1>6, ClientWritesKeeps DEF ClientWrites
  <1>7. ASSUME StoreFragment PROVE IInv' /\ parsed' = parsed
    BY <1>1, <1>7, StoreFragmentKeeps DEF StoreFragment
  <1>8. ASSUME Execute PROVE IInv' /\ parsed' = parsed
    BY <1>1, <1>8, ExecuteKeeps DEF Execute
  <1>9. ASSUME Leftovers, is_connected' \in BOOLEAN PROVE IInv' /\ parsed' = parsed
    BY <1>1, <1>9, LeftoversKeeps DEF Leftovers
  <1>10. ASSUME Cancel \/ Disconnects PROVE IInv' /\ parsed' = parsed
    <2>1. is_connected \in BOOLEAN
      BY DEF IInv, TypeInv
    <2> QED
      BY <1>9, <1>10, <2>1 DEF Cancel, Disconnects
  <1>11. ASSUME Connects PROVE IInv' /\ parsed' = parsed
    BY <1>2, <1>11, ConnectsKeeps DEF Connects
  <1>12. ASSUME NEW ask \in Asks, UartLooks(ask) PROVE IInv' /\ parsed' = parsed
    BY <1>2, <1>12, UartLooksKeeps DEF UartLooks
  <1>13. ASSUME UartReceived PROVE IInv' /\ parsed' = parsed
    BY <1>1, <1>13, UartReceivedKeeps DEF UartReceived
  <1>14. ASSUME BeginsSplit PROVE IInv' /\ parsed' = parsed
    BY <1>1, <1>14, BeginsSplitKeeps DEF BeginsSplit
  <1>15. ASSUME Ends PROVE IInv' /\ parsed' = parsed
    BY <1>1, <1>15, EndsKeeps DEF Ends
  <1>16. ASSUME UNCHANGED vars PROVE IInv' /\ parsed' = parsed
    BY <1>2, <1>16, IdleKeeps DEF vars
  <1> QED
    BY <1>3, <1>4, <1>5, <1>6, <1>7, <1>8, <1>10, <1>11, <1>12, <1>13, <1>14, <1>15, <1>16,
       ClientPartKeeps, ParsesNextKeeps DEF Next

LEMMA AlwaysInv == Spec => []IInv
  BY InitHolds, NextHolds, PTL DEF Spec

-----------------------------------------------------------------------------
(* The settings.  What the loop looks at was written by somebody.          *)
LEMMA SomebodyWrote ==
  ASSUME IInv
  PROVE  NoPacket \notin PacketsIn(Arrived)
  <1>1. CASE held.by = "none"
    BY <1>1, InNone DEF IInv, ArrivedInv
  <1>2. CASE HeadHeld
    <2>1. client.packet.way = "parts"
      BY <1>2 DEF HeadHeld, IInv, SenderInv
    <2> QED
      BY <1>2, <2>1 DEF HeadHeld, NoPacket
  <1>3. ASSUME Of(Arrived, "write") \/ Of(Arrived, "uart") \/ Of(Arrived, "long")
        PROVE  NoPacket \notin PacketsIn(Arrived)
    BY <1>3 DEF Of, PacketsIn, NoPacket
  <1> QED
    BY <1>1, <1>2, <1>3 DEF IInv, TypeInv, ArrivedInv

(* What is handed in names settings, and is about to be parsed or lost.    *)
LEMMA HandingIn ==
  ASSUME SourceInv, SettingsAsAsked, NEW X \in Seq(BytesOf(PacketSet)), HandsIn(X),
         settings' = settings, parsed' = parsed, lost \subseteq lost',
         PacketsIn(Arrived) \subseteq PacketsIn(Arrived') \cup lost',
         PacketsIn(X) \subseteq PacketsIn(Arrived') \cup lost',
         PacketsIn(X) \cap Parsed \subseteq lost'
  PROVE  SourceInv' /\ SettingsAsAsked'
  <1>1. complete' = complete \cup PacketsIn(X)
    BY DEF HandsIn
  <1>2. ASSUME NEW s \in DOMAIN SettingSizes
        PROVE  asked'[s] = asked[s] \/ (asked'[s] \in PacketsIn(X) /\ Names(asked'[s], s))
    <2>1. \/ asked'[s] = asked[s]
          \/ \E last \in 1..Len(X) : asked'[s] = X[last].packet /\ Names(X[last].packet, s)
      BY HandsInIs
    <2> QED
      BY <2>1, PacketsInIs
  <1>3. Parsed' = Parsed
    BY DEF Parsed
  <1>4. SourceInv'
    BY <1>1, <1>2, <1>3 DEF SourceInv
  <1>5. ASSUME NEW s \in DOMAIN SettingSizes
        PROVE  \/ settings'[s] = asked'[s]
               \/ asked'[s] \in lost' \cup PacketsIn(Arrived')
               \/ Misread(asked'[s]) \/ Astray(settings[s])'
    <2>1. CASE asked'[s] \in PacketsIn(X)
      BY <2>1
    <2>2. CASE asked'[s] = asked[s]
      <3>1. ASSUME Astray(settings[s]) PROVE Astray(settings[s])'
        <4>1. settings[s] # NoPacket /\ (settings[s] \notin complete \ lost \/ Misread(settings[s]))
          BY <3>1 DEF Astray
        <4>2. settings[s] \in Parsed
          BY <4>1 DEF SourceInv
        <4>3. settings[s] \in PacketsIn(X) => settings[s] \in lost'
          BY <4>2
        <4>4. settings[s] \notin complete \ lost => settings[s] \notin complete' \ lost'
          BY <1>1, <4>3
        <4> QED
          BY <4>1, <4>4 DEF Astray
      <3>2. \/ settings[s] = asked[s] \/ asked[s] \in lost \cup PacketsIn(Arrived)
            \/ Misread(asked[s]) \/ Astray(settings[s])
        BY DEF SettingsAsAsked
      <3> QED
        BY <2>2, <3>1, <3>2
    <2> QED
      BY <1>2, <2>1, <2>2
  <1>6. SettingsAsAsked'
    BY <1>5 DEF SettingsAsAsked
  <1> QED
    BY <1>4, <1>6

(* Nothing is handed in or parsed: what was before the loop is gone on     *)
(* with, or lost.                                                          *)
LEMMA LeavesSettings ==
  ASSUME SourceInv, SettingsAsAsked, UNCHANGED <<settings, parsed, complete, asked>>,
         lost \subseteq lost', NoPacket \notin PacketsIn(Arrived),
         PacketsIn(Arrived) \cap complete \subseteq PacketsIn(Arrived') \cup lost'
  PROVE  SourceInv' /\ SettingsAsAsked'
  <1>1. Parsed' = Parsed
    BY DEF Parsed
  <1>2. SourceInv'
    BY <1>1 DEF SourceInv
  <1>3. ASSUME NEW s \in DOMAIN SettingSizes
        PROVE  \/ settings'[s] = asked'[s]
               \/ asked'[s] \in lost' \cup PacketsIn(Arrived')
               \/ Misread(asked'[s]) \/ Astray(settings[s])'
    <2>1. \/ settings[s] = asked[s] \/ asked[s] \in lost \cup PacketsIn(Arrived)
          \/ Misread(asked[s]) \/ Astray(settings[s])
      BY DEF SettingsAsAsked
    <2>2. asked[s] = NoPacket \/ asked[s] \in complete
      BY DEF SourceInv
    <2>3. Astray(settings[s]) => Astray(settings[s])'
      BY DEF Astray
    <2> QED
      BY <2>1, <2>2, <2>3
  <1>4. SettingsAsAsked'
    BY <1>3 DEF SettingsAsAsked
  <1> QED
    BY <1>2, <1>4

LEMMA LatestStays ==
  ASSUME LatestInv, Arrived' = <<>> \/ UNCHANGED <<held, complete, asked>>, lost \subseteq lost'
  PROVE  LatestInv'
  <1>1. CASE Arrived' = <<>>
    <2>1. Len(Arrived') = 0
      BY <1>1, EmptySeq
    <2> QED
      BY <2>1 DEF LatestInv
  <1>2. CASE UNCHANGED <<held, complete, asked>>
    <2>1. Arrived' = Arrived
      BY <1>2 DEF Arrived
    <2> QED
      BY <1>2, <2>1 DEF LatestInv
  <1> QED
    BY <1>1, <1>2

LEMMA LatestHandedIn ==
  ASSUME NEW X \in Seq(BytesOf(PacketSet)), NEW Y \in Seq(BytesOf(PacketSet)),
         HandsIn(X), Arrived' = X \o Y, PacketsIn(Y) \cap complete' \subseteq lost'
  PROVE  LatestInv'
  <1>. DEFINE a == X \o Y
  <1>1. /\ Len(a) = Len(X) + Len(Y) /\ Len(X) \in Nat /\ Len(Y) \in Nat
        /\ \A i \in 1..Len(X) : a[i] = X[i]
        /\ \A i \in (Len(X) + 1)..(Len(X) + Len(Y)) : a[i] = Y[i - Len(X)]
    BY JoinIs, LenProperties
  <1>2. Arrived' = a
    OBVIOUS
  <1>. HIDE DEF a
  <1>3. ASSUME NEW s \in DOMAIN SettingSizes, NEW k \in 1..Len(a),
               a[k].packet \in complete' \ lost', Names(a[k].packet, s)
        PROVE  asked'[s] = a[k].packet \/ \E j \in (k + 1)..Len(a) : a[j].packet = asked'[s]
    <2>1. k \in 1..Len(X)
      <3> SUFFICES ASSUME k \notin 1..Len(X) PROVE FALSE
        OBVIOUS
      <3>1. k - Len(X) \in 1..Len(Y) /\ a[k] = Y[k - Len(X)]
        BY <1>1
      <3>2. a[k].packet \in PacketsIn(Y)
        BY <3>1, PacketsInIs
      <3> QED
        BY <1>3, <3>2
    <2>2. a[k] = X[k]
      BY <1>1, <2>1
    <2>3. PICK last \in 1..Len(X) : /\ asked'[s] = X[last].packet
                                    /\ \A i \in 1..Len(X) : Names(X[i].packet, s) => i <= last
      BY <1>3, <2>1, <2>2, HandsInIs
    <2>4. k <= last
      BY <1>3, <2>1, <2>2, <2>3
    <2>5. a[last] = X[last]
      BY <1>1
    <2>6. k = last \/ last \in (k + 1)..Len(a)
      BY <1>1, <2>1, <2>4
    <2> QED
      BY <2>2, <2>3, <2>5, <2>6
  <1> QED
    BY <1>2, <1>3 DEF LatestInv

(* What is stored of prepared writes is as mixed as it was.                *)
LEMMA MixedStays ==
  ASSUME IInv, MixedInv, UNCHANGED stored, lost \subseteq lost',
         \A p \in complete' \ complete : p.way # "long",
         client' = client \/ client'.way # "long",
         held'.by = "long" => held.by = "long" /\ PacketsIn(Arrived') \subseteq PacketsIn(Arrived)
  PROVE  MixedInv'
  <1>1. \A p \in PacketsIn(SppRecvDataBuff.bytes) : p.way = "long"
    BY DEF IInv, StoredInv, Of, PacketsIn
  <1>2. held.by = "long" => \A p \in PacketsIn(Arrived) : p.way = "long"
    BY DEF IInv, ArrivedInv, Of, PacketsIn
  <1>3. client.way = "long" => client.packet.way = "long"
    BY DEF IInv, SenderInv
  <1> QED
    BY <1>1, <1>2, <1>3 DEF MixedInv, stored

(* What the loop has looked at is parsed or lost.                          *)
LEMMA LookedAt ==
  ASSUME IInv, MixedInv, \A q \in complete : q \in Parsed \cup lost
  PROVE  PacketsIn(Arrived) \cap complete \subseteq lost
  BY DEF IInv, FreshInv, MixedInv

(* The client begins, leaves or stores a fragment, or the UART looks.      *)
LEMMA QuietSettings ==
  ASSUME IInv, SInv,
         UNCHANGED <<split_enabled, split_header, held, settings, parsed, complete, asked, lost,
                     headLost>>,
         client'.way = "parts" => client' = client
  PROVE  SourceInv' /\ SettingsAsAsked' /\ LatestInv' /\ GatheredInv'
  <1>1. Arrived' = Arrived
    BY DEF Arrived
  <1>2. SourceInv' /\ SettingsAsAsked'
    BY <1>1, SomebodyWrote, LeavesSettings DEF SInv
  <1>3. LatestInv'
    BY LatestStays DEF SInv
  <1>4. GatheredInv'
    BY DEF SInv, GatheredInv
  <1> QED
    BY <1>2, <1>3, <1>4

LEMMA PreparesSettings ==
  ASSUME IInv, SInv, NEW ask \in Asks, ClientPrepares(ask)
  PROVE  SInv'
  <1>. DEFINE p == Packet(packets + 1, ask, "long")
  <1>1. /\ packets' = packets + 1 /\ held.by # "long"
        /\ client' = [way |-> "long", packet |-> p, bytes |-> Bytes(p), number |-> 0]
    BY DEF ClientPrepares, BluetoothWaits
  <1>2. UNCHANGED <<split_enabled, split_header, held, settings, parsed, complete, asked, lost,
                    headLost, SppRecvDataBuff, spoiled>>
    BY DEF ClientPrepares, split, history
  <1>3. packets \in Nat /\ complete \subseteq Known
    BY DEF IInv, TypeInv
  <1>4. p \in PacketSet /\ p \notin Known
    BY <1>1, <1>3, NewPacket DEF Ways
  <1>. HIDE DEF p
  <1>5. PacketsIn(Bytes(p)) = {p}
    BY <1>4, BytesIs
  <1>6. MixedInv'
    BY <1>1, <1>2, <1>3, <1>4, <1>5 DEF SInv, MixedInv
  <1>7. client'.way # "parts"
    BY <1>1
  <1> QED
    BY <1>2, <1>6, <1>7, QuietSettings DEF SInv

LEMMA FragmentSettings ==
  ASSUME IInv, SInv, StoreFragment
  PROVE  SInv'
  <1>. DEFINE n == Lesser(FragmentRoom, Len(client.bytes)) t == client.bytes
              b == SppRecvDataBuff.bytes p == client.packet
  <1>1. /\ held.by # "long" /\ client.way = "long"
        /\ client' = [client EXCEPT !.bytes = From(t, n)]
        /\ \/ SppRecvDataBuff'.bytes = b \o SubSeq(t, 1, n) /\ spoiled' = spoiled
           \/ SppRecvDataBuff' = SppRecvDataBuff
    <2>1. held.by # "long" /\ client.way = "long"
      BY DEF StoreFragment, BluetoothWaits
    <2>2. client' = [client EXCEPT !.bytes = From(t, n)]
      BY DEF StoreFragment
    <2>3. \/ SppRecvDataBuff' = [bytes |-> b \o SubSeq(t, 1, n), fits |-> FitsAfter(n)]
             /\ spoiled' = spoiled
          \/ SppRecvDataBuff' = SppRecvDataBuff
      BY DEF StoreFragment
    <2>. DEFINE moved == b \o SubSeq(t, 1, n) fits == FitsAfter(n)
    <2>. HIDE DEF moved, fits
    <2>4. \/ SppRecvDataBuff' = [bytes |-> moved, fits |-> fits] /\ spoiled' = spoiled
          \/ SppRecvDataBuff' = SppRecvDataBuff
      BY <2>3 DEF moved, fits
    <2>5. (SppRecvDataBuff'.bytes = moved /\ spoiled' = spoiled) \/ SppRecvDataBuff' = SppRecvDataBuff
      BY <2>4
    <2> QED
      BY <2>1, <2>2, <2>5 DEF moved
  <1>2. UNCHANGED <<split_enabled, split_header, held, settings, parsed, complete, asked, lost,
                    headLost>>
    BY DEF StoreFragment, split, effects, handedIn
  <1>3. t \in Seq(ByteSet) /\ b \in Seq(ByteSet)
    BY DEF IInv, TypeInv
  <1>4. n \in 0..Len(t)
    BY <1>3, LenProperties, PacketReceiveConstants DEF Lesser
  <1>5. p \notin complete /\ PacketsIn(t) \subseteq {p}
    BY <1>1 DEF SInv, MixedInv
  <1>6. client'.way = "long" /\ client'.packet = p /\ client'.bytes = From(t, n)
    BY <1>1 DEF IInv, TypeInv
  <1>7. PacketsIn(b) \cap complete \subseteq lost
    <2>1. CASE spoiled
      BY <2>1 DEF SInv, MixedInv
    <2>2. CASE ~spoiled
      <3>1. b \o t = Bytes(p) /\ p \in PacketSet
        BY <1>1, <2>2, KnownAre DEF IInv, TypeInv, StoredInv
      <3>2. PacketsIn(b \o t) = PacketsIn(b) \cup PacketsIn(t)
        BY <1>3, InJoin
      <3>3. PacketsIn(Bytes(p)) = {p}
        BY <3>1, BytesIs
      <3>4. PacketsIn(b) \subseteq {p}
        BY <3>1, <3>2, <3>3
      <3> QED
        BY <1>5, <3>4
    <2> QED
      BY <2>1, <2>2 DEF IInv, TypeInv
  <1>. HIDE DEF n, t, b, p
  <1>8. /\ PacketsIn(From(t, n)) \subseteq {p} /\ SubSeq(t, 1, n) \in Seq(ByteSet)
        /\ PacketsIn(SubSeq(t, 1, n)) \subseteq {p}
    BY <1>3, <1>4, <1>5, InParts, UpToIs
  <1>9. PacketsIn(b \o SubSeq(t, 1, n)) \subseteq PacketsIn(b) \cup {p}
    <2>1. PacketsIn(b \o SubSeq(t, 1, n)) = PacketsIn(b) \cup PacketsIn(SubSeq(t, 1, n))
      BY <1>3, <1>8, InJoin
    <2> QED
      BY <1>8, <2>1
  <1>10. PacketsIn(SppRecvDataBuff'.bytes) \cap complete \subseteq lost
    BY <1>1, <1>5, <1>7, <1>9 DEF b
  <1>11. MixedInv'
    BY <1>1, <1>2, <1>5, <1>6, <1>8, <1>10 DEF MixedInv
  <1>12. client'.way # "parts"
    BY <1>6
  <1> QED
    BY <1>2, <1>11, <1>12, QuietSettings DEF SInv

LEMMA LeftoverSettings ==
  ASSUME IInv, SInv, Leftovers
  PROVE  SInv'
  <1>. DEFINE b == SppRecvDataBuff.bytes t == client.bytes p == client.packet
  <1>1. /\ held.by # "long" /\ client'.way = "none" /\ SppRecvDataBuff' = SppRecvDataBuff
        /\ spoiled' = (spoiled \/ b # <<>>)
    BY DEF Leftovers, BluetoothWaits, Idle
  <1>2. UNCHANGED <<split_enabled, split_header, held, settings, parsed, complete, asked, lost,
                    headLost>>
    BY DEF Leftovers, split, effects, handedIn
  <1>3. PacketsIn(b) \cap complete \subseteq lost
    <2>1. CASE spoiled
      BY <2>1 DEF SInv, MixedInv
    <2>2. CASE ~spoiled /\ client.way = "long"
      <3>1. /\ b \in Seq(ByteSet) /\ t \in Seq(ByteSet) /\ b \o t = Bytes(p) /\ p \in PacketSet
            /\ p \notin complete
        BY <2>2, KnownAre DEF IInv, TypeInv, StoredInv, SInv, MixedInv
      <3>2. PacketsIn(b \o t) = PacketsIn(b) \cup PacketsIn(t)
        BY <3>1, InJoin
      <3>3. PacketsIn(Bytes(p)) = {p}
        BY <3>1, BytesIs
      <3> QED
        BY <3>1, <3>2, <3>3
    <2>3. CASE ~spoiled /\ client.way # "long"
      BY <1>1, <2>3, InNone DEF IInv, StoredInv
    <2> QED
      BY <2>1, <2>2, <2>3 DEF IInv, TypeInv
  <1>4. MixedInv'
    BY <1>1, <1>2, <1>3 DEF MixedInv
  <1> QED
    BY <1>1, <1>2, <1>4, QuietSettings DEF SInv

(* A write, or what the UART got, is handed in whole.                      *)
LEMMA WriteSettings ==
  ASSUME IInv, SInv, NEW X \in Seq(ByteSet), HandsIn(X), PacketsIn(X) \cap Parsed = {},
         held = Nobody, held'.by # "long", Arrived' = X, split_enabled' = FALSE,
         UNCHANGED <<settings, parsed, headLost, SppRecvDataBuff, spoiled>>,
         lost \subseteq lost', \A p \in PacketsIn(X) : p.way # "long",
         client' = client \/ client'.way = "none"
  PROVE  SInv'
  <1>1. X \in Seq(BytesOf(PacketSet)) /\ <<>> \in Seq(BytesOf(PacketSet)) /\ X \o <<>> = X
    BY KnownAre, EmptySeq, ConcatEmptySeq
  <1>2. Arrived = <<>>
    BY DEF Arrived, Nobody
  <1>3. complete' = complete \cup PacketsIn(X)
    BY DEF HandsIn
  <1>4. SourceInv' /\ SettingsAsAsked'
    BY <1>1, <1>2, InNone, HandingIn DEF SInv
  <1>5. LatestInv'
    BY <1>1, InNone, LatestHandedIn
  <1>6. MixedInv'
    BY <1>3, MixedStays DEF SInv, stored
  <1>7. GatheredInv'
    BY DEF SInv, GatheredInv
  <1> QED
    BY <1>4, <1>5, <1>6, <1>7 DEF SInv

LEMMA ClientWritesSettings ==
  ASSUME IInv, SInv, ClientWrites
  PROVE  SInv'
  <1>1. /\ client.way = "write" /\ client'.way = "none"
        /\ held = Nobody /\ held' = [by |-> "write", bytes |-> client.bytes]
        /\ split_enabled' = FALSE /\ HandsIn(client.bytes)
        /\ UNCHANGED <<settings, parsed, headLost, SppRecvDataBuff, spoiled, lost>>
    BY DEF ClientWrites, PacketReceived, Idle, effects, stored
  <1>2. Arrived' = client.bytes /\ held'.by = "write"
    BY <1>1 DEF Arrived
  <1>3. /\ client.bytes \in Seq(ByteSet) /\ Of(client.bytes, "write")
        /\ PacketsIn(client.bytes) \cap Parsed = {}
    BY <1>1 DEF IInv, TypeInv, SenderInv, FreshInv
  <1>4. \A p \in PacketsIn(client.bytes) : p.way # "long"
    BY <1>3 DEF Of, PacketsIn
  <1> QED
    BY <1>1, <1>2, <1>3, <1>4, WriteSettings

LEMMA UartReceivedSettings ==
  ASSUME IInv, SInv, UartReceived
  PROVE  SInv'
  <1>1. /\ held = Nobody /\ held' = [by |-> "uart", bytes |-> uart]
        /\ split_enabled' = FALSE /\ HandsIn(uart) /\ lost \subseteq lost'
        /\ UNCHANGED <<settings, parsed, headLost, SppRecvDataBuff, spoiled, client>>
    BY DEF UartReceived, PacketReceived, effects, stored
  <1>2. Arrived' = uart /\ held'.by = "uart"
    BY <1>1 DEF Arrived
  <1>3. /\ uart \in Seq(ByteSet) /\ Of(uart, "uart")
        /\ PacketsIn(uart) \cap Parsed = {}
    BY <1>1 DEF IInv, TypeInv, SenderInv, FreshInv
  <1>4. \A p \in PacketsIn(uart) : p.way # "long"
    BY <1>3 DEF Of, PacketsIn
  <1> QED
    BY <1>1, <1>2, <1>3, <1>4, WriteSettings

LEMMA ClientSplitsSettings ==
  ASSUME IInv, SInv, NEW ask \in Asks, ClientSplits(ask)
  PROVE  SInv'
  <1>. DEFINE p == Packet(packets + 1, ask, "parts") b == client.bytes n == Room - Len(b)
              head == SubSeq(Bytes(p), 1, n)
  <1>1. /\ client.way \in {"none", "write"} /\ packets' = packets + 1
        /\ n > HeaderSize /\ n < Length(p) /\ HandsIn(b)
        /\ client'.way = "parts" /\ client'.packet = p
        /\ UNCHANGED <<settings, parsed, SppRecvDataBuff, spoiled>>
    BY DEF ClientSplits, effects, stored
  <1>2. \/ /\ held = Nobody /\ held' = [by |-> "write", bytes |-> b \o head]
           /\ split_enabled' = FALSE /\ headLost' = FALSE /\ lost' = lost
        \/ /\ lost' = lost \cup PacketsIn(b) \cup {p}
           /\ UNCHANGED <<split_enabled, split_header, held>>
    BY DEF ClientSplits, PacketReceived, split
  <1>3. p \in PacketSet /\ p \notin Known /\ p.way = "parts"
    BY <1>1, NewPacket DEF IInv, TypeInv, Ways
  <1>. HIDE DEF p, b
  <1>4. /\ b \in Seq(BytesOf(PacketSet)) /\ PacketsIn(b) \subseteq Known
        /\ complete \subseteq Known /\ Len(b) \in Nat
    BY InKnown, KnownAre, LenProperties DEF IInv, TypeInv, b
  <1>5. Of(b, "write") /\ PacketsIn(b) \cap Parsed = {}
    BY <1>1, InNone DEF IInv, SenderInv, FreshInv, Idle, b
  <1>6. complete' = complete \cup PacketsIn(b)
    BY <1>1 DEF HandsIn
  <1>7. \A q \in PacketsIn(b) : q.way # "long"
    BY <1>5 DEF Of, PacketsIn
  <1>8. n \in 0..Length(p)
    BY <1>1, <1>3, <1>4, LengthIs, PacketReceiveConstants
  <1>9. Bytes(p) \in Seq(BytesOf(PacketSet)) /\ Len(Bytes(p)) = Length(p) /\ PacketsIn(Bytes(p)) = {p}
    BY <1>3, BytesIs
  <1>. HIDE DEF n
  <1>10. head \in Seq(BytesOf(PacketSet)) /\ PacketsIn(head) \subseteq {p}
    BY <1>8, <1>9, UpToIs, InParts
  <1>. HIDE DEF head
  <1>11. lost \subseteq lost' /\ client'.way # "long"
    BY <1>1, <1>2
  <1>12. CASE /\ held = Nobody /\ held' = [by |-> "write", bytes |-> b \o head]
              /\ split_enabled' = FALSE /\ headLost' = FALSE /\ lost' = lost
    <2>1. Arrived = <<>> /\ Arrived' = b \o head /\ held'.by = "write"
      BY <1>12 DEF Arrived, Nobody
    <2>2. PacketsIn(b) \subseteq PacketsIn(Arrived')
      <3>1. PacketsIn(b \o head) = PacketsIn(b) \cup PacketsIn(head)
        BY <1>4, <1>10, InJoin
      <3> QED
        BY <2>1, <3>1
    <2>3. SourceInv' /\ SettingsAsAsked'
      BY <1>1, <1>4, <1>5, <1>11, <2>1, <2>2, InNone, HandingIn DEF SInv
    <2>4. PacketsIn(head) \cap complete' = {}
      BY <1>3, <1>4, <1>6, <1>10
    <2>5. LatestInv'
      BY <1>1, <1>4, <1>10, <2>1, <2>4, LatestHandedIn
    <2>6. MixedInv'
      BY <1>1, <1>6, <1>7, <1>11, <2>1, MixedStays DEF SInv, stored
    <2>7. GatheredInv'
      BY <1>12 DEF GatheredInv
    <2> QED
      BY <2>3, <2>5, <2>6, <2>7 DEF SInv
  <1>13. CASE /\ lost' = lost \cup PacketsIn(b) \cup {p}
              /\ UNCHANGED <<split_enabled, split_header, held>>
    <2>1. Arrived' = Arrived
      BY <1>13 DEF Arrived
    <2>2. SourceInv' /\ SettingsAsAsked'
      BY <1>1, <1>4, <1>11, <1>13, <2>1, HandingIn DEF SInv
    <2>3. LatestInv'
      <3>1. ASSUME NEW s \in DOMAIN SettingSizes
            PROVE  asked'[s] = asked[s] \/ asked'[s] \in lost'
        <4>1. \/ asked'[s] = asked[s]
              \/ \E last \in 1..Len(b) : asked'[s] = b[last].packet
          BY <1>1, <1>4, HandsInIs
        <4> QED
          BY <1>4, <1>13, <4>1, PacketsInIs
      <3>2. \A q \in complete' \ lost' : q \in complete \ lost
        BY <1>6, <1>13
      <3> QED
        BY <1>11, <2>1, <3>1, <3>2 DEF SInv, LatestInv
    <2>4. MixedInv'
      BY <1>1, <1>6, <1>7, <1>11, <1>13, <2>1, MixedStays DEF SInv, stored
    <2>5. GatheredInv'
      BY <1>1, <1>6, <1>13 DEF SInv, GatheredInv
    <2> QED
      BY <2>2, <2>3, <2>4, <2>5 DEF SInv
  <1> QED
    BY <1>2, <1>12, <1>13

LEMMA ExecuteSettings ==
  ASSUME IInv, SInv, Execute
  PROVE  SInv'
  <1>. DEFINE b == SppRecvDataBuff.bytes p == client.packet
  <1>1. /\ client.way = "long" /\ client.bytes = <<>> /\ client'.way = "none"
        /\ held = Nobody /\ held' = [by |-> "long", bytes |-> Buffered]
        /\ split_enabled' = FALSE /\ HandsIn(Bytes(p))
        /\ UNCHANGED <<settings, parsed, SppRecvDataBuff, spoiled>>
        /\ lost' = IF spoiled \/ Buffered # b THEN lost \cup {p} ELSE lost
    BY DEF Execute, PacketReceived, Idle, effects, stored
  <1>2. Arrived = <<>> /\ Arrived' = Buffered /\ lost \subseteq lost'
    BY <1>1 DEF Arrived, Nobody
  <1>3. p \in PacketSet /\ p \notin complete /\ b \in Seq(ByteSet)
    BY <1>1, KnownAre DEF IInv, TypeInv, SInv, MixedInv
  <1>4. Bytes(p) \in Seq(BytesOf(PacketSet)) /\ PacketsIn(Bytes(p)) = {p}
    BY <1>3, BytesIs
  <1>5. PacketsIn(Buffered) \subseteq PacketsIn(b)
    <2>1. SppRecvDataBuff.fits \in 0..Len(b)
      BY LenProperties DEF IInv, TypeInv
    <2> QED
      BY <1>3, <2>1, InParts DEF Buffered
  <1>6. ~spoiled => b = Bytes(p) /\ p \notin Parsed
    <2> SUFFICES ASSUME ~spoiled PROVE b = Bytes(p) /\ p \notin Parsed
      OBVIOUS
    <2>1. b \o <<>> = Bytes(p) /\ p \notin Parsed
      BY <1>1 DEF IInv, StoredInv, FreshInv
    <2>2. b \o <<>> = b
      BY <1>3, ConcatEmptySeq
    <2> QED
      BY <2>1, <2>2
  <1>7. complete' = complete \cup {p}
    BY <1>1, <1>4 DEF HandsIn
  <1>8. spoiled => PacketsIn(b) \cap complete' \subseteq lost'
    BY <1>1, <1>7 DEF SInv, MixedInv
  <1>9. Arrived' = Bytes(p) \/ PacketsIn(Buffered) \cap complete' \subseteq lost'
    <2>1. CASE spoiled
      BY <1>5, <1>8, <2>1
    <2>2. CASE ~spoiled
      BY <1>1, <1>2, <1>4, <1>5, <1>6, <2>2
    <2> QED
      BY <2>1, <2>2
  <1>10. SourceInv' /\ SettingsAsAsked'
    <2>1. p \in lost' \/ Arrived' = Bytes(p)
      BY <1>1, <1>2, <1>6
    <2>2. p \in Parsed => p \in lost'
      BY <1>1, <1>6
    <2>3. PacketsIn(Arrived) = {}
      BY <1>2, InNone
    <2> QED
      BY <1>1, <1>2, <1>4, <2>1, <2>2, <2>3, HandingIn DEF SInv
  <1>11. LatestInv'
    <2>1. CASE Arrived' = Bytes(p)
      <3>1. Bytes(p) \o <<>> = Bytes(p) /\ <<>> \in Seq(BytesOf(PacketSet))
        BY <1>4, ConcatEmptySeq, EmptySeq
      <3> QED
        BY <1>1, <1>4, <2>1, <3>1, InNone, LatestHandedIn
    <2>2. CASE PacketsIn(Buffered) \cap complete' \subseteq lost'
      <3>1. Arrived' \in Seq(ByteSet)
        <4>1. SppRecvDataBuff.fits \in 0..Len(b)
          BY LenProperties DEF IInv, TypeInv
        <4> QED
          BY <1>2, <1>3, <4>1, UpToIs DEF Buffered
      <3>2. \A k \in 1..Len(Arrived') : Arrived'[k].packet \in PacketsIn(Buffered)
        BY <1>2, <3>1, PacketsInIs
      <3> QED
        BY <2>2, <3>2 DEF LatestInv
    <2> QED
      BY <1>9, <2>1, <2>2
  <1>12. MixedInv'
    BY <1>1, <1>2, <1>5, <1>8 DEF MixedInv
  <1>13. GatheredInv'
    BY <1>1 DEF GatheredInv
  <1> QED
    BY <1>10, <1>11, <1>12, <1>13 DEF SInv

(* What a packet sets, and what it does not.                               *)
LEMMA SetByIs ==
  ASSUME TypeInv, NEW p, settings' = SetBy(p), NEW s \in DOMAIN SettingSizes
  PROVE  \/ settings'[s] = p /\ p # NoPacket /\ (Misread(p) \/ Names(p, s))
         \/ settings'[s] = settings[s] /\ (Names(p, s) => Misread(p))
  <1>1. settings \in [DOMAIN SettingSizes -> Known]
    BY DEF TypeInv
  <1>2. CASE p.kind = "set" /\ MaySet(Flags(p), p.size) /\ Flags(p) = s
    <2>1. settings' = [settings EXCEPT ![s] = p]
      BY <1>2 DEF SetBy, Setting
    <2>2. p # NoPacket
      BY <1>2 DEF NoPacket
    <2>3. Misread(p) \/ Names(p, s)
      BY <1>2 DEF Misread, Names
    <2> QED
      BY <1>1, <2>1, <2>2, <2>3
  <1>3. CASE ~(p.kind = "set" /\ MaySet(Flags(p), p.size) /\ Flags(p) = s)
    <2>1. settings'[s] = settings[s]
      BY <1>1, <1>3 DEF SetBy, Setting
    <2>2. Names(p, s) => Misread(p)
      BY <1>3 DEF Misread, Names
    <2> QED
      BY <2>1, <2>2
  <1> QED
    BY <1>2, <1>3

LEMMA ClientPartSettings ==
  ASSUME IInv, SInv, ClientPart
  PROVE  SInv'
  <1>. DEFINE p == client.packet h == split_header
              rest == From(client.bytes, Lesser(Room - PartSize, Len(client.bytes)))
              X == IF rest = <<>> THEN Bytes(p) ELSE <<>>
  <1>1. /\ client.way = "parts" /\ held = Nobody /\ held' = held
        /\ client' = IF rest = <<>> THEN Idle
                     ELSE [client EXCEPT !.bytes = rest, !.number = (@ + 1) % CountMod]
        /\ HandsIn(X) /\ UNCHANGED <<SppRecvDataBuff, spoiled, packets, headLost>>
    BY DEF ClientPart, stored
  <1>2. \/ /\ settings' = settings /\ parsed' = parsed /\ lost \subseteq lost'
           /\ split_enabled' = FALSE \/ UNCHANGED <<split_enabled, split_header>>
        \/ /\ split_enabled /\ split_enabled' = FALSE /\ lost' = lost
           /\ \E all : Parses(h, all) /\ all = split_data \o
                           SubSeq(client.bytes, 1, Lesser(Room - PartSize, Len(client.bytes)))
    BY DEF ClientPart, PartReceived, ReceivePart, ReceivePartBad, SplitClear, effects, split
  <1>3. IInv'
    BY ClientPartKeeps
  <1>4. p \in PacketSet /\ p.way = "parts"
    BY <1>1, KnownAre DEF IInv, TypeInv, SenderInv
  <1>5. X \in Seq(BytesOf(PacketSet)) /\ PacketsIn(X) = IF rest = <<>> THEN {p} ELSE {}
    BY <1>4, BytesIs, EmptySeq, InNone
  <1>6. \/ client' = Idle /\ rest = <<>>
        \/ client'.way = "parts" /\ client'.packet = p /\ rest # <<>>
    BY <1>1 DEF IInv, TypeInv
  <1>. HIDE DEF p, h, rest, X
  <1>7. complete' = complete \cup PacketsIn(X)
    BY <1>1 DEF HandsIn
  <1>8. Arrived = <<>> /\ Arrived' = <<>> /\ held'.by = "none" /\ PacketsIn(Arrived') = {}
    BY <1>1, InNone DEF Arrived, Nobody
  <1>9. client'.way # "long"
    BY <1>6 DEF Idle
  <1>10. LatestInv'
    BY <1>2, <1>8, LatestStays DEF SInv
  <1>11. MixedInv'
    BY <1>1, <1>2, <1>4, <1>5, <1>7, <1>8, <1>9, MixedStays DEF SInv, stored
  <1>12. headLost => p \in lost
    BY <1>1 DEF SInv, GatheredInv, p
  <1>13. ~headLost => p \notin Parsed /\ (split_enabled => h = p)
    BY <1>1 DEF IInv, FreshInv, SplitInv, p, h
  <1>14. PacketsIn(X) \subseteq Parsed' \cup lost'
    BY <1>3, <1>7, <1>8 DEF IInv, CompleteInv
  <1>15. CASE /\ settings' = settings /\ parsed' = parsed /\ lost \subseteq lost'
              /\ split_enabled' = FALSE \/ UNCHANGED <<split_enabled, split_header>>
    <2>1. Parsed' = Parsed
      BY <1>15 DEF Parsed
    <2>2. PacketsIn(X) \subseteq lost'
      BY <1>5, <1>12, <1>13, <1>14, <1>15, <2>1
    <2>3. SourceInv' /\ SettingsAsAsked'
      BY <1>1, <1>5, <1>8, <1>15, <2>2, HandingIn DEF SInv
    <2>4. GatheredInv'
      BY <1>1, <1>6, <1>7, <1>12, <1>15, <2>2 DEF SInv, GatheredInv, Idle
    <2> QED
      BY <1>10, <1>11, <2>3, <2>4 DEF SInv
  <1>16. CASE /\ split_enabled /\ split_enabled' = FALSE /\ lost' = lost
              /\ settings' = SetBy(h) /\ Parsed' = Parsed \cup {h}
    <2>1. GatheredInv'
      <3>1. headLost' = headLost /\ (client'.way = "parts" => client'.packet = p)
        BY <1>1, <1>6 DEF Idle
      <3> QED
        BY <1>12, <1>16, <3>1 DEF GatheredInv
    (* Unless a head was lost, the client has written its last part.       *)
    <2>2. ~headLost => h = p /\ rest = <<>>
      <3>1. client'.way = "parts" /\ ~headLost => client'.packet \notin Parsed'
        BY <1>1, <1>3 DEF IInv, FreshInv
      <3> QED
        BY <1>6, <1>13, <1>16, <3>1
    <2>3. headLost => h \notin complete' \ lost'
      BY <1>5, <1>7, <1>12, <1>16 DEF SInv, GatheredInv, h
    <2>4. ASSUME NEW s \in DOMAIN SettingSizes
          PROVE  /\ \/ settings'[s] = settings[s] /\ (Names(h, s) => Misread(h))
                    \/ settings'[s] = h /\ h # NoPacket /\ (Misread(h) \/ Names(h, s))
                 /\ \/ asked'[s] = asked[s] /\ ~(rest = <<>> /\ Names(p, s))
                    \/ asked'[s] = p /\ p \in PacketsIn(X) /\ Names(p, s)
      <3>1. \/ settings'[s] = settings[s] /\ (Names(h, s) => Misread(h))
            \/ settings'[s] = h /\ h # NoPacket /\ (Misread(h) \/ Names(h, s))
        BY <1>16, SetByIs DEF IInv
      <3>2. \/ asked'[s] = asked[s] /\ \A k \in 1..Len(X) : ~Names(X[k].packet, s)
            \/ \E last \in 1..Len(X) : asked'[s] = X[last].packet /\ Names(X[last].packet, s)
        BY <1>1, <1>5, HandsInIs
      <3>3. \A q : q \in PacketsIn(X) <=> \E k \in 1..Len(X) : X[k].packet = q
        BY <1>5, PacketsInIs
      <3> QED
        BY <1>5, <3>1, <3>2, <3>3
    <2>5. SourceInv'
      BY <1>7, <1>16, <2>4 DEF SInv, SourceInv
    <2>6. ASSUME NEW s \in DOMAIN SettingSizes
          PROVE  \/ settings'[s] = asked'[s]
                 \/ asked'[s] \in lost'
                 \/ Misread(asked'[s]) \/ Astray(settings[s])'
      <3>1. CASE settings'[s] = h /\ h # NoPacket /\ (Misread(h) \/ Names(h, s))
        <4>1. Misread(h) \/ h \notin complete' \ lost' => Astray(settings[s])'
          BY <3>1 DEF Astray
        <4>2. ~headLost /\ Names(h, s) => asked'[s] = h
          BY <2>2, <2>4
        <4> QED
          BY <2>3, <3>1, <4>1, <4>2
      <3>2. CASE /\ asked'[s] = p /\ Names(p, s)
                 /\ settings'[s] = settings[s] /\ (Names(h, s) => Misread(h))
        <4>1. CASE headLost
          BY <1>12, <1>16, <3>2, <4>1
        <4>2. CASE ~headLost
          BY <2>2, <3>2, <4>2
        <4> QED
          BY <4>1, <4>2
      <3>3. CASE asked'[s] = asked[s] /\ settings'[s] = settings[s]
        <4>1. \/ settings[s] = asked[s] \/ asked[s] \in lost
              \/ Misread(asked[s]) \/ Astray(settings[s])
          BY <1>8, InNone DEF SInv, SettingsAsAsked
        <4>2. ASSUME Astray(settings[s]) PROVE Astray(settings[s])'
          <5>1. settings[s] # NoPacket /\ settings[s] \in Parsed
            BY <4>2 DEF Astray, SInv, SourceInv
          <5>2. settings[s] \notin complete \ lost => settings[s] \notin complete' \ lost'
            BY <1>5, <1>7, <1>12, <1>13, <1>16, <5>1
          <5> QED
            BY <3>3, <4>2, <5>1, <5>2 DEF Astray
        <4> QED
          BY <1>16, <3>3, <4>1, <4>2
      <3> QED
        BY <2>4, <3>1, <3>2, <3>3
    <2>7. SettingsAsAsked'
      BY <2>6 DEF SettingsAsAsked
    <2> QED
      BY <1>10, <1>11, <2>1, <2>5, <2>7 DEF SInv
  <1>17. ASSUME NEW all, Parses(h, all), lost' = lost, split_enabled, split_enabled' = FALSE,
                all = split_data \o
                    SubSeq(client.bytes, 1, Lesser(Room - PartSize, Len(client.bytes)))
         PROVE  settings' = SetBy(h) /\ Parsed' = Parsed \cup {h}
    <2>. DEFINE t == client.bytes n == Lesser(Room - PartSize, Len(client.bytes))
    <2>1. /\ t \in Seq(ByteSet) /\ split_data \in Seq(ByteSet) /\ h \in Known
          /\ packets' = packets
      BY <1>1 DEF IInv, TypeInv, h
    <2>2. n \in 0..Len(t)
      <3>1. Len(t) \in Nat /\ Room - PartSize \in Nat
        BY <2>1, LenProperties, PacketReceiveConstants
      <3> QED
        BY <3>1 DEF Lesser
    <2>. HIDE DEF t, n
    <2>3. SubSeq(t, 1, n) \in Seq(ByteSet)
      BY <2>1, <2>2, UpToIs
    <2>4. all \in Seq(ByteSet)
      BY <1>17, <2>1, <2>3, JoinIs DEF t, n
    <2> QED
      BY <1>17, <2>1, <2>4, ParsesIs DEF IInv
  <1> QED
    BY <1>2, <1>15, <1>16, <1>17

(* The packet in front sets what it names, unless it is misread; what      *)
(* named a setting after it is behind it.                                  *)
LEMMA ParsesNextSettings ==
  ASSUME IInv, SInv, ParsesNext
  PROVE  SInv'
  <1>. DEFINE p == Front n == Length(Front) d == SubSeq(Arrived, HeaderSize + 1, Length(Front))
  <1>1. /\ WholeComes /\ Parses(p, d)
        /\ \/ held' = [held EXCEPT !.bytes = Behind] /\ UNCHANGED <<stored, lost>>
           \/ Releases /\ lost' = lost \cup PacketsIn(Behind)
        /\ UNCHANGED <<split, client, packets, complete, asked, headLost>>
    BY DEF ParsesNext, StopsBehind, handedIn
  <1>2. /\ ~split_enabled /\ p \in Known /\ n \in 1..Len(Arrived) /\ n \in 0..Len(Arrived)
        /\ Behind \in Seq(ByteSet) /\ d \in Seq(ByteSet)
        /\ Arrived \in Seq(ByteSet) /\ Len(Arrived) \in Nat
    BY <1>1, WholeComesIs, ArrivedIs
  <1>3. settings' = SetBy(p) /\ Parsed' = Parsed \cup {p}
    BY <1>1, <1>2, ParsesIs DEF IInv
  <1>4. (held.by = "long" /\ spoiled) \/ PacketsIn(Arrived) = {p} \cup PacketsIn(Behind)
    BY <1>1, FrontClean, FrontSplits
  <1>5. held.by = "long" /\ spoiled => PacketsIn(Arrived) \cap complete \subseteq lost
    BY DEF SInv, MixedInv
  <1>6. 1 \in 1..Len(Arrived) /\ p = Arrived[1].packet /\ p \in PacketsIn(Arrived)
    <2>1. 1 \in 1..Len(Arrived)
      BY <1>2
    <2> QED
      BY <1>2, <2>1, PacketsInIs DEF Front
  <1>7. /\ PacketsIn(Behind) \subseteq PacketsIn(Arrived)
        /\ Len(Behind) = Len(Arrived) - n
        /\ \A k \in 1..(Len(Arrived) - n) : Behind[k] = Arrived[k + n]
    BY <1>2, InParts, FromIs DEF Behind
  <1>8. /\ lost \subseteq lost' /\ PacketsIn(Behind) \subseteq PacketsIn(Arrived') \cup lost'
        /\ \/ /\ held'.by = held.by /\ Arrived' = Behind /\ UNCHANGED stored /\ lost' = lost
           \/ /\ Arrived' = <<>> /\ held'.by = "none"
              /\ spoiled' = FALSE \/ UNCHANGED stored
    <2>1. CASE held' = [held EXCEPT !.bytes = Behind] /\ UNCHANGED <<stored, lost>>
      BY <2>1 DEF IInv, TypeInv, Arrived
    <2>2. CASE Releases /\ lost' = lost \cup PacketsIn(Behind)
      <3>1. Arrived' = <<>> /\ held'.by = "none"
        BY <1>1, <2>2, ReleasesIs
      <3>2. spoiled' = FALSE \/ UNCHANGED stored
        BY <2>2 DEF Releases
      <3> QED
        BY <2>2, <3>1, <3>2
    <2> QED
      BY <1>1, <2>1, <2>2
  <1>. HIDE DEF p, n, d
  <1>9. ASSUME NEW s \in DOMAIN SettingSizes
        PROVE  \/ settings'[s] = p /\ p # NoPacket /\ (Misread(p) \/ Names(p, s))
               \/ settings'[s] = settings[s] /\ (Names(p, s) => Misread(p))
    BY <1>3, SetByIs DEF IInv
  <1>10. SourceInv'
    BY <1>1, <1>3, <1>9 DEF SInv, SourceInv
  <1>11. ASSUME NEW s \in DOMAIN SettingSizes
         PROVE  \/ settings'[s] = asked'[s]
                \/ asked'[s] \in lost' \cup PacketsIn(Arrived')
                \/ Misread(asked'[s]) \/ Astray(settings[s])'
    <2>1. CASE settings'[s] = p /\ p # NoPacket /\ (Misread(p) \/ Names(p, s))
      <3>1. Misread(p) \/ p \notin complete \ lost => Astray(settings[s])'
        BY <1>1, <1>8, <2>1 DEF Astray
      <3>2. ASSUME p \in complete \ lost, Names(p, s)
            PROVE  asked[s] = p \/ asked[s] \in lost \cup PacketsIn(Behind)
        <4>1. \/ asked[s] = p \/ asked[s] \in lost
              \/ \E j \in 2..Len(Arrived) : Arrived[j].packet = asked[s]
          BY <1>6, <3>2 DEF SInv, LatestInv
        <4>2. \A j \in 2..Len(Arrived) : Arrived[j].packet \in PacketsIn(Arrived)
          <5>1. \A j \in 2..Len(Arrived) : j \in 1..Len(Arrived)
            BY <1>2
          <5> QED
            BY <1>2, <5>1, PacketsInIs
        <4>3. PacketsIn(Arrived) = {p} \cup PacketsIn(Behind)
          BY <1>4, <1>5, <1>6, <3>2
        <4> QED
          BY <4>1, <4>2, <4>3
      <3> QED
        BY <1>1, <1>8, <2>1, <3>1, <3>2
    <2>2. CASE settings'[s] = settings[s] /\ (Names(p, s) => Misread(p))
      <3>1. \/ settings[s] = asked[s] \/ asked[s] \in lost \cup PacketsIn(Arrived)
            \/ Misread(asked[s]) \/ Astray(settings[s])
        BY DEF SInv, SettingsAsAsked
      <3>2. ASSUME asked[s] \in PacketsIn(Arrived)
            PROVE  asked[s] \in lost \cup PacketsIn(Behind) \/ Misread(asked[s])
        <4>1. asked[s] \in complete /\ Names(asked[s], s)
          BY <3>2, SomebodyWrote DEF SInv, SourceInv
        <4> QED
          BY <1>4, <1>5, <2>2, <3>2, <4>1
      <3>3. Astray(settings[s]) => Astray(settings[s])'
        BY <1>1, <1>8, <2>2 DEF Astray
      <3> QED
        BY <1>1, <1>8, <2>2, <3>1, <3>2, <3>3
    <2> QED
      BY <1>9, <2>1, <2>2
  <1>12. SettingsAsAsked'
    BY <1>11 DEF SettingsAsAsked
  <1>13. LatestInv'
    <2>1. CASE Arrived' = <<>>
      BY <1>8, <2>1, LatestStays DEF SInv
    <2>2. CASE Arrived' = Behind /\ lost' = lost
      <3>1. ASSUME NEW s \in DOMAIN SettingSizes, NEW k \in 1..Len(Behind),
                   Behind[k].packet \in complete \ lost, Names(Behind[k].packet, s)
            PROVE  \/ asked[s] = Behind[k].packet \/ asked[s] \in lost
                   \/ \E j \in (k + 1)..Len(Behind) : Behind[j].packet = asked[s]
        <4>1. k + n \in 1..Len(Arrived) /\ Behind[k] = Arrived[k + n]
          BY <1>2, <1>7
        <4>2. \/ asked[s] = Arrived[k + n].packet \/ asked[s] \in lost
              \/ \E j \in (k + n + 1)..Len(Arrived) : Arrived[j].packet = asked[s]
          BY <3>1, <4>1 DEF SInv, LatestInv
        <4>3. ASSUME NEW j \in (k + n + 1)..Len(Arrived)
              PROVE  j - n \in (k + 1)..Len(Behind) /\ Behind[j - n] = Arrived[j]
          BY <1>2, <1>7
        <4> QED
          BY <4>1, <4>2, <4>3
      <3> QED
        BY <1>1, <2>2, <3>1 DEF LatestInv
    <2> QED
      BY <1>8, <2>1, <2>2
  <1>14. MixedInv'
    <2>1. CASE held'.by = held.by /\ Arrived' = Behind /\ UNCHANGED stored
      BY <1>1, <1>7, <1>8, <2>1, MixedStays DEF SInv
    <2>2. CASE held'.by = "none" /\ UNCHANGED stored
      BY <1>1, <1>8, <2>2, MixedStays DEF SInv
    <2>3. CASE held'.by = "none" /\ spoiled' = FALSE
      BY <1>1, <2>3 DEF SInv, MixedInv
    <2> QED
      BY <1>8, <2>1, <2>2, <2>3
  <1>15. GatheredInv'
    BY <1>1, <1>2, <1>8 DEF SInv, GatheredInv, split
  <1> QED
    BY <1>10, <1>12, <1>13, <1>14, <1>15 DEF SInv

(* The mutex is given back, and nothing complete is left behind.           *)
LEMMA GivenBackSettings ==
  ASSUME IInv, SInv, Releases, lost \subseteq lost',
         UNCHANGED <<settings, parsed, client, packets, complete, asked, headLost>>,
         \A q \in complete : q \in Parsed \cup lost
  PROVE  SourceInv' /\ SettingsAsAsked' /\ LatestInv' /\ MixedInv'
  <1>1. Arrived' = <<>> /\ held'.by = "none"
    BY ReleasesIs
  <1>2. SourceInv' /\ SettingsAsAsked'
    BY LookedAt, SomebodyWrote, LeavesSettings DEF SInv
  <1>3. LatestInv'
    BY <1>1, LatestStays DEF SInv
  <1>4. MixedInv'
    <2>1. CASE UNCHANGED stored
      BY <1>1, <2>1, MixedStays DEF SInv
    <2>2. CASE spoiled' = FALSE
      BY <1>1, <2>2 DEF SInv, MixedInv
    <2> QED
      BY <2>1, <2>2 DEF Releases
  <1> QED
    BY <1>2, <1>3, <1>4

LEMMA BeginsSplitSettings ==
  ASSUME IInv, SInv, BeginsSplit
  PROVE  SInv'
  <1>1. /\ HeaderComes /\ Length(Front) > Len(Arrived) /\ Releases
        /\ UNCHANGED <<settings, parsed, client, packets, complete, asked, headLost>>
    BY DEF BeginsSplit, SplitComes, effects, handedIn
  <1>2. \/ split_header' = Front /\ lost' = lost
        \/ split_enabled' = FALSE /\ lost \subseteq lost'
    BY DEF BeginsSplit, SplitClear
  <1>3. \A q \in complete : q \in Parsed \cup lost
    <2>1. ~Whole(Arrived) /\ (HeadHeld => PacketsIn(Arrived) \subseteq {client.packet})
      BY <1>1, HeaderAlone
    <2> QED
      BY <2>1 DEF IInv, CompleteInv
  <1>4. SourceInv' /\ SettingsAsAsked' /\ LatestInv' /\ MixedInv'
    BY <1>1, <1>2, <1>3, GivenBackSettings
  <1>5. GatheredInv'
    <2>1. Front \in PacketsIn(Arrived)
      <3>1. HeaderSize \in Nat /\ HeaderSize >= 1 /\ Len(Arrived) >= HeaderSize
        BY <1>1, PacketReceiveConstants DEF HeaderComes
      <3>2. Arrived \in Seq(ByteSet) /\ 1 \in 1..Len(Arrived)
        BY <3>1, ArrivedIs
      <3> QED
        BY <3>2, PacketsInIs DEF Front
    <2>2. PacketsIn(Arrived) \cap complete \subseteq lost
      BY <1>3, LookedAt DEF SInv
    <2> QED
      BY <1>1, <1>2, <2>1, <2>2 DEF SInv, GatheredInv
  <1> QED
    BY <1>4, <1>5 DEF SInv

LEMMA EndsSettings ==
  ASSUME IInv, SInv, Ends
  PROVE  SInv'
  <1>1. Releases /\ UNCHANGED <<split_enabled, split_header, settings, parsed, client, packets,
                                complete, asked, lost, headLost>>
    BY DEF Ends, split, effects, handedIn
  <1>2. Arrived' = <<>> /\ Parsed' = Parsed /\ IInv'
    BY <1>1, ReleasesIs, EndsKeeps DEF Parsed
  <1>3. \A q \in complete : q \in Parsed \cup lost
    BY <1>1, <1>2, InNone DEF IInv, CompleteInv
  <1>4. SourceInv' /\ SettingsAsAsked' /\ LatestInv' /\ MixedInv'
    BY <1>1, <1>3, GivenBackSettings
  <1>5. GatheredInv'
    BY <1>1 DEF SInv, GatheredInv
  <1> QED
    BY <1>4, <1>5 DEF SInv

(* A write is begun, or the client is left alone.                          *)
LEMMA BegunSettings ==
  ASSUME IInv, SInv, client' = client \/ client'.way = "write",
         UNCHANGED <<split_enabled, split_header, held, settings, parsed, complete, asked, lost,
                     headLost, stored>>
  PROVE  SInv'
  <1>1. client'.way = "parts" => client' = client
    OBVIOUS
  <1>2. client' = client \/ client'.way # "long"
    OBVIOUS
  <1>3. Arrived' = Arrived
    BY DEF Arrived
  <1>4. MixedInv'
    BY <1>2, <1>3, MixedStays DEF SInv
  <1> QED
    BY <1>1, <1>4, QuietSettings DEF SInv

LEMMA SettingsInit == Init => SInv
  <1> SUFFICES ASSUME Init PROVE SInv
    OBVIOUS
  <1>1. /\ split_enabled = FALSE /\ held = Nobody /\ client = Idle
        /\ settings = [s \in DOMAIN SettingSizes |-> NoPacket]
        /\ asked = [s \in DOMAIN SettingSizes |-> NoPacket]
        /\ spoiled = FALSE /\ headLost = FALSE
    BY DEF Init
  <1>2. Arrived = <<>> /\ Len(Arrived) = 0
    BY <1>1, EmptySeq DEF Arrived, Nobody
  <1>3. SourceInv /\ SettingsAsAsked
    BY <1>1 DEF SourceInv, SettingsAsAsked
  <1>4. LatestInv
    BY <1>2 DEF LatestInv
  <1>5. MixedInv /\ GatheredInv
    BY <1>1 DEF MixedInv, GatheredInv, Idle
  <1> QED
    BY <1>3, <1>4, <1>5 DEF SInv

LEMMA SettingsNext == IInv /\ SInv /\ [Next]_vars => SInv'
  <1> SUFFICES ASSUME IInv, SInv, [Next]_vars PROVE SInv'
    OBVIOUS
  <1>1. ASSUME NEW ask \in Asks, ClientAdds(ask) PROVE SInv'
    BY <1>1, BegunSettings DEF ClientAdds, split, history, stored, Idle
  <1>2. ASSUME Connects PROVE SInv'
    BY <1>2, BegunSettings DEF Connects, split, history, stored
  <1>3. ASSUME NEW ask \in Asks, UartLooks(ask) PROVE SInv'
    BY <1>3, BegunSettings DEF UartLooks, split, history, stored
  <1>4. ASSUME UNCHANGED vars PROVE SInv'
    BY <1>4, BegunSettings DEF vars, split, history, stored
  <1>5. ASSUME Cancel \/ Disconnects PROVE SInv'
    BY <1>5, LeftoverSettings DEF Cancel, Disconnects
  <1> QED
    BY <1>1, <1>2, <1>3, <1>4, <1>5, ClientSplitsSettings, PreparesSettings, ClientWritesSettings,
       ClientPartSettings, FragmentSettings, ExecuteSettings, UartReceivedSettings,
       ParsesNextSettings, BeginsSplitSettings, EndsSettings DEF Next

(* What the variables are: above all, that each byte under way is one of a *)
(* packet a client has written, and what fits the buffer of prepared       *)
(* writes is no more than what is stored.                                  *)
THEOREM TypesHold == Spec => []TypeInv
  <1>1. IInv => TypeInv
    BY DEF IInv
  <1> QED
    BY <1>1, AlwaysInv, PTL

(* What packet_received hands to parse_packet is one packet, whole, and    *)
(* for the first time, whichever way it came and whatever came between its *)
(* parts.                                                                  *)
THEOREM ParsedWholeHolds == Spec => ParsedWhole
  <1>1. IInv /\ [Next]_vars => [parsed' # parsed /\ ~Mixed => WholeOnce]_vars
    BY NextHolds
  <1> QED
    BY <1>1, AlwaysInv, PTL DEF Spec, ParsedWhole

(* No packet handed in to its last byte is forgotten.                      *)
THEOREM CompleteIsParsedHolds == Spec => []CompleteIsParsed
  <1>1. IInv => CompleteIsParsed
    BY DEF IInv, CompleteInv, CompleteIsParsed
  <1> QED
    BY <1>1, AlwaysInv, PTL

(* Each setting ends as what the last packet handed in that names it asked *)
(* for, unless something happened to that packet, the flag of packets in   *)
(* parts makes another number of its own, or what set it last was misread  *)
(* so, lost or never handed in whole: through packets that share a write,  *)
(* heads behind them, prepared writes and the UART.                        *)
THEOREM SettingsAsAskedHolds == Spec => []SettingsAsAsked
  <1>1. Init => SInv
    BY SettingsInit
  <1>2. IInv /\ SInv /\ [Next]_vars => SInv'
    BY SettingsNext
  <1>3. SInv => SettingsAsAsked
    BY DEF SInv
  <1> QED
    BY <1>1, <1>2, <1>3, AlwaysInv, PTL DEF Spec
=============================================================================
