------------------------------ MODULE LinkTasks ------------------------------
(***************************************************************************)
(* The tasks around one IsoTpLinkContainer: isotp_send_queue_task puts a   *)
(* message into the link, twai_receive_task and mcp2515_rx_task put CAN    *)
(* frames into it, isotp_processing_task polls it and takes out what is    *)
(* complete, and sleeps on wait_for_isotp_data_sem when there is nothing   *)
(* to do; app_main stops them.                                             *)
(*                                                                         *)
(* Of the link itself (IsoTpSend, IsoTpReceive) only what these tasks look *)
(* at is kept: the two statuses, how many frames of a message are left and *)
(* whether the peer's flow control let them go.  A frame that arrives may  *)
(* put the receiving half into any status; a poll may find a time-out.     *)
(*                                                                         *)
(* The sections under data_mutex are single steps, but for the one of      *)
(* isotp_send_queue_task, which gives the semaphore inside it.             *)
(***************************************************************************)
EXTENDS Integers, Sequences

CONSTANTS
    QueueSize,     \* ISOTP_QUEUE_SIZE
    MaxFrames,     \* bound: frames of a message
    MaxMessages,   \* bound: messages queued in a behaviour
    MaxArrivals    \* bound: frames that arrive in a behaviour

ASSUME TaskConstants ==
    /\ QueueSize \in Nat \ {0} /\ MaxFrames \in Nat \ {0}
    /\ MaxMessages \in Nat /\ MaxArrivals \in Nat

VARIABLES
    isotp_run_tasks,
    queue,             \* isotp_send_message_queue
    send_status, receive_status,
    current,           \* the message in the send buffer
    left,              \* its frames not sent yet
    granted,           \* the peer let frames of it go
    use_conv_can,      \* the link sends over the MCP2515
    sem,               \* wait_for_isotp_data_sem
    processing,        \* where isotp_processing_task is
    sending,           \* where isotp_send_queue_task is
    taken,             \* the message it took from the queue
    receiving,         \* where each receive task is
    main,              \* where app_main is in isotp_stop_task
    messages, arrivals,
    misrouted,         \* history: messages with a frame on the wrong bus
    disturbed          \* history: messages in progress when one was refused

link_vars  == <<send_status, receive_status, current, left, granted, use_conv_can>>
route_vars == <<misrouted, disturbed>>
tasks_vars == <<isotp_run_tasks, queue, link_vars, sem, processing, sending, taken,
          receiving, main, messages, arrivals, route_vars>>

Receivers == {"twai", "mcp2515"}

\* What the queue holds: a message, or what isotp_stop_task wakes the task with.
Message(id, conv, frames) == [id |-> id, conv |-> conv, frames |-> frames]
Sentinel == [id |-> 0, conv |-> FALSE, frames |-> 0]
Nothing  == Sentinel

TasksInit ==
    /\ isotp_run_tasks = TRUE /\ main = "running"
    /\ queue = <<>> /\ taken = Nothing
    /\ send_status = "IDLE" /\ receive_status = "IDLE"
    /\ current = Nothing /\ left = 0 /\ granted = FALSE
    /\ use_conv_can = FALSE
    /\ sem = FALSE
    /\ processing = "loop" /\ sending = "loop"
    /\ receiving = [t \in Receivers |-> "wait"]
    /\ messages = 0 /\ arrivals = 0
    /\ misrouted = {} /\ disturbed = {}

\* data_mutex.
Unlocked == sending # "give"

\* isotp_user_send_can, a frame of message m while use_conv_can is conv.
Route(m, conv) == misrouted' = IF m.conv = conv THEN misrouted
                                                ELSE misrouted \cup {m.id}

-----------------------------------------------------------------------------
(* parse_packet or persist_send queue a message.                           *)
Enqueue(conv, frames) ==
    /\ main = "running"
    /\ messages < MaxMessages /\ messages' = messages + 1
    /\ Len(queue) < QueueSize
    /\ queue' = Append(queue, Message(messages', conv, frames))
    /\ UNCHANGED <<isotp_run_tasks, link_vars, sem, processing, sending, taken,
                   receiving, main, arrivals, route_vars>>

-----------------------------------------------------------------------------
(* isotp_send_queue_task.                                                  *)
SendLoop ==
    /\ sending = "loop"
    /\ sending' = IF isotp_run_tasks THEN "receive" ELSE "stopped"
    /\ UNCHANGED <<isotp_run_tasks, queue, link_vars, sem, processing, taken,
                   receiving, main, messages, arrivals, route_vars>>

\* A message taken after the tasks were told to stop is not sent.
SendReceive ==
    /\ sending = "receive" /\ queue # <<>>
    /\ taken' = Head(queue) /\ queue' = Tail(queue)
    /\ sending' = "check"
    /\ UNCHANGED <<isotp_run_tasks, link_vars, sem, processing, receiving, main,
                   messages, arrivals, route_vars>>

SendTimesOut ==
    /\ sending = "receive" /\ queue = <<>>
    /\ sending' = "loop"
    /\ UNCHANGED <<isotp_run_tasks, queue, link_vars, sem, processing, taken,
                   receiving, main, messages, arrivals, route_vars>>

SendCheck ==
    /\ sending = "check"
    /\ sending' = IF isotp_run_tasks THEN "send" ELSE "loop"
    /\ taken' = IF isotp_run_tasks THEN taken ELSE Nothing
    /\ UNCHANGED <<isotp_run_tasks, queue, link_vars, sem, processing, receiving,
                   main, messages, arrivals, route_vars>>

\* Wrong: a message of one frame is waited for like any other.
IsotpSendWaits(m) ==
    IF send_status = "INPROGRESS"
    THEN /\ disturbed' = disturbed \cup {current.id}
         /\ UNCHANGED <<send_status, current, left, granted, misrouted>>
    ELSE /\ current' = m /\ left' = m.frames - 1 /\ granted' = FALSE
         /\ send_status' = "INPROGRESS"
         /\ Route(m, use_conv_can')
         /\ UNCHANGED disturbed

\* isotp_send: refused while a message is in progress, else the first frame
\* goes out, and with it the whole message if it has no other.
IsotpSend(m) ==
    IF send_status = "INPROGRESS"
    THEN /\ disturbed' = disturbed \cup {current.id}
         /\ UNCHANGED <<send_status, current, left, granted, misrouted>>
    ELSE /\ current' = m /\ left' = m.frames - 1 /\ granted' = FALSE
         /\ send_status' = IF m.frames > 1 THEN "INPROGRESS" ELSE send_status
         /\ Route(m, use_conv_can')
         /\ UNCHANGED disturbed

\* Wrong: the route is set after the message was handed to the link.
SendLockedLate ==
    /\ sending = "send"
    /\ IF send_status = "INPROGRESS"
       THEN /\ disturbed' = disturbed \cup {current.id}
            /\ UNCHANGED <<send_status, current, left, granted, misrouted>>
       ELSE /\ current' = taken /\ left' = taken.frames - 1 /\ granted' = FALSE
            /\ send_status' = IF taken.frames > 1 THEN "INPROGRESS" ELSE send_status
            /\ Route(taken, use_conv_can)
            /\ UNCHANGED disturbed
    /\ use_conv_can' = taken.conv
    /\ sending' = "give"
    /\ UNCHANGED <<isotp_run_tasks, queue, receive_status, sem, processing,
                   taken, receiving, main, messages, arrivals>>

\* The route is set first, whether or not the link takes the message.
SendLocked ==
    /\ sending = "send"
    /\ use_conv_can' = taken.conv
    /\ IsotpSend(taken)
    /\ sending' = "give"
    /\ UNCHANGED <<isotp_run_tasks, queue, receive_status, sem, processing,
                   taken, receiving, main, messages, arrivals>>

SendGives ==
    /\ sending = "give"
    /\ sem' = TRUE
    /\ sending' = "loop" /\ taken' = Nothing
    /\ UNCHANGED <<isotp_run_tasks, queue, link_vars, processing, receiving, main,
                   messages, arrivals, route_vars>>

SendTask == SendLoop \/ SendReceive \/ SendCheck \/ SendLocked \/ SendGives

-----------------------------------------------------------------------------
(* twai_send_isotp_message and mcp2515_deliver_frame: a frame for the link *)
(* goes into it under data_mutex, the semaphore is given after that.  The  *)
(* peer grants a block, asks to wait or refuses the message.               *)
FlowControlArrives(t) ==
    /\ receiving[t] = "wait" /\ Unlocked
    /\ arrivals < MaxArrivals /\ arrivals' = arrivals + 1
    /\ \/ send_status = "INPROGRESS" /\ granted' = TRUE /\ UNCHANGED send_status
       \/ send_status' = "IDLE" /\ UNCHANGED granted
       \/ UNCHANGED <<send_status, granted>>
    /\ receiving' = [receiving EXCEPT ![t] = "give"]
    /\ UNCHANGED <<isotp_run_tasks, queue, receive_status, current, left,
                   use_conv_can, sem, processing, sending, taken, main, messages,
                   route_vars>>

DataArrives(t) ==
    /\ receiving[t] = "wait" /\ Unlocked
    /\ arrivals < MaxArrivals /\ arrivals' = arrivals + 1
    /\ receive_status' \in {"IDLE", "INPROGRESS", "FULL"}
    /\ receiving' = [receiving EXCEPT ![t] = "give"]
    /\ UNCHANGED <<isotp_run_tasks, queue, send_status, current, left, granted,
                   use_conv_can, sem, processing, sending, taken, main, messages,
                   route_vars>>

ReceiveGives(t) ==
    /\ receiving[t] = "give"
    /\ sem' = TRUE
    /\ receiving' = [receiving EXCEPT ![t] = "wait"]
    /\ UNCHANGED <<isotp_run_tasks, queue, link_vars, processing, sending, taken,
                   main, messages, arrivals, route_vars>>

-----------------------------------------------------------------------------
(* isotp_processing_task.  It looks at the two statuses without data_mutex *)
(* and one after the other.                                                *)
Goes(from, to) ==
    /\ processing = from /\ processing' = to
    /\ UNCHANGED <<isotp_run_tasks, queue, sending, taken, receiving, main,
                   messages, arrivals, disturbed>>

ProcessLoop ==
    /\ Goes("loop", IF isotp_run_tasks THEN "look_send" ELSE "stopped")
    /\ UNCHANGED <<link_vars, sem, misrouted>>

\* Wrong: it sleeps unless both are in progress.
LookSendEither ==
    /\ Goes("look_send", IF send_status = "INPROGRESS" THEN "look_receive" ELSE "sleep")
    /\ UNCHANGED <<link_vars, sem, misrouted>>

LookSend ==
    /\ Goes("look_send", IF send_status = "INPROGRESS" THEN "poll" ELSE "look_receive")
    /\ UNCHANGED <<link_vars, sem, misrouted>>

\* Wrong: the semaphore is reset before it is waited for.
LookReceiveResets ==
    /\ Goes("look_receive", IF receive_status = "INPROGRESS" THEN "poll" ELSE "sleep")
    /\ sem' = FALSE
    /\ UNCHANGED <<link_vars, misrouted>>

LookReceive ==
    /\ Goes("look_receive", IF receive_status = "INPROGRESS" THEN "poll" ELSE "sleep")
    /\ UNCHANGED <<link_vars, sem, misrouted>>

Wakes ==
    /\ sem /\ sem' = FALSE
    /\ Goes("sleep", "poll")
    /\ UNCHANGED <<link_vars, misrouted>>

SleepTimesOut ==
    /\ ~sem
    /\ Goes("sleep", "poll")
    /\ UNCHANGED <<link_vars, sem, misrouted>>

\* isotp_poll, its two halves, and isotp_receive.  A frame may use up the
\* block the peer granted.
PollSendsFrame ==
    /\ send_status = "INPROGRESS" /\ granted
    /\ granted' \in BOOLEAN
    /\ left' = left - 1
    /\ send_status' = IF left' = 0 THEN "IDLE" ELSE send_status
    /\ Route(current, use_conv_can)

\* Nothing may go yet, for want of a grant or of the separation time, or the
\* peer's answer is late, or the driver takes no frame.
PollSend ==
    \/ PollSendsFrame
    \/ /\ send_status = "INPROGRESS"
       /\ send_status' \in {"INPROGRESS", "IDLE"}
       /\ UNCHANGED <<left, granted, misrouted>>
    \/ /\ send_status = "IDLE"
       /\ UNCHANGED <<send_status, left, granted, misrouted>>

PollReceive ==
    \/ receive_status = "INPROGRESS" /\ receive_status' \in {"INPROGRESS", "IDLE"}
    \/ receive_status \in {"IDLE", "FULL"} /\ receive_status' = "IDLE"

Polls ==
    /\ Unlocked
    /\ PollSend /\ PollReceive
    /\ Goes("poll", IF receive_status = "FULL" THEN "forward" ELSE "loop")
    /\ UNCHANGED <<current, use_conv_can, sem>>

Forwards ==
    /\ Goes("forward", "loop")
    /\ UNCHANGED <<link_vars, sem, misrouted>>

ProcessingTask ==
    ProcessLoop \/ LookSend \/ LookReceive \/ Wakes \/ Polls \/ Forwards

-----------------------------------------------------------------------------
(* isotp_stop_task, called by app_main when nothing queues messages any    *)
(* more: the client is gone, the UART and persist tasks have stopped.      *)
Stops(from, to) ==
    /\ main = from /\ main' = to
    /\ UNCHANGED <<link_vars, processing, sending, taken, receiving, messages,
                   arrivals, route_vars>>

StopBegins ==
    /\ Stops("running", "give")
    /\ isotp_run_tasks' = FALSE
    /\ UNCHANGED <<queue, sem>>

\* Wrong: the task is not woken.
StopGivesNot == Stops("give", "join") /\ UNCHANGED <<isotp_run_tasks, queue, sem>>

StopGives == Stops("give", "join") /\ sem' = TRUE /\ UNCHANGED <<isotp_run_tasks, queue>>

StopJoins ==
    /\ processing = "stopped"
    /\ Stops("join", "queue")
    /\ UNCHANGED <<isotp_run_tasks, queue, sem>>

StopQueues ==
    /\ Len(queue) < QueueSize
    /\ Stops("queue", "join_send")
    /\ queue' = Append(queue, Sentinel)
    /\ UNCHANGED <<isotp_run_tasks, sem>>

StopEndsHere ==
    /\ sending = "stopped"
    /\ Stops("join_send", "stopped")
    /\ UNCHANGED <<isotp_run_tasks, queue, sem>>

StopTask == StopGives \/ StopJoins \/ StopQueues \/ StopEndsHere

-----------------------------------------------------------------------------
TasksNext ==
    \/ \E conv \in BOOLEAN, frames \in 1..MaxFrames : Enqueue(conv, frames)
    \/ SendTask \/ SendTimesOut
    \/ \E t \in Receivers : FlowControlArrives(t) \/ DataArrives(t) \/ ReceiveGives(t)
    \/ ProcessingTask \/ SleepTimesOut
    \/ StopBegins \/ StopTask

(* The tasks run whenever they can; no time-out of a wait is relied on, so *)
(* what must happen happens because a task is woken for it.  A task that   *)
(* polls again and again does so past the separation time in the end.      *)
Fairness ==
    /\ SF_tasks_vars(Polls /\ PollSendsFrame)
    /\ WF_tasks_vars(SendTask) /\ WF_tasks_vars(ProcessingTask) /\ WF_tasks_vars(StopTask)
    /\ \A t \in Receivers : WF_tasks_vars(ReceiveGives(t))

TasksSpec == TasksInit /\ [][TasksNext]_tasks_vars /\ Fairness

-----------------------------------------------------------------------------
Messages == [id : Nat, conv : BOOLEAN, frames : Nat]

(* A message in progress has frames left to send: left never counts below  *)
(* zero, whatever is refused or given up in between.                       *)
TypeOK ==
    /\ isotp_run_tasks \in BOOLEAN /\ sem \in BOOLEAN
    /\ queue \in Seq(Messages) /\ Len(queue) <= QueueSize
    /\ send_status \in {"IDLE", "INPROGRESS"}
    /\ receive_status \in {"IDLE", "INPROGRESS", "FULL"}
    /\ current \in Messages /\ taken \in Messages
    /\ left \in Nat /\ (send_status = "INPROGRESS" => left > 0)
    /\ granted \in BOOLEAN /\ use_conv_can \in BOOLEAN
    /\ processing \in {"loop", "look_send", "look_receive", "sleep", "poll",
                       "forward", "stopped"}
    /\ sending \in {"loop", "receive", "check", "send", "give", "stopped"}
    /\ receiving \in [Receivers -> {"wait", "give"}]
    /\ main \in {"running", "give", "join", "queue", "join_send", "stopped"}
    /\ messages \in Nat /\ arrivals \in Nat
    /\ misrouted \subseteq Nat /\ disturbed \subseteq Nat

(* The processing task never sleeps on work: when it waits and the link    *)
(* has a transfer in progress or a complete message, the semaphore has     *)
(* been given or the task that made the work is about to give it.          *)
HasWork == send_status = "INPROGRESS" \/ receive_status # "IDLE"

Alarm == sem \/ sending = "give" \/ \E t \in Receivers : receiving[t] = "give"

AwakeForWork == processing = "sleep" /\ HasWork => Alarm

(* So a complete message is taken out and the frames of a granted block    *)
(* are sent, without a time-out, while the tasks run.                      *)
WorkIsDone ==
    /\ (receive_status = "FULL") ~> (receive_status # "FULL" \/ ~isotp_run_tasks)
    /\ (send_status = "INPROGRESS" /\ granted)
           ~> (send_status # "INPROGRESS" \/ ~granted \/ ~isotp_run_tasks)

(* isotp_stop_task returns, without a time-out, unless the send task is    *)
(* gone and has left the queue full: then xQueueSend waits for ever.       *)
StopEnds ==
    (main = "give") ~> (main = "stopped" \/ (sending = "stopped" /\ Len(queue) = QueueSize))

(* A message goes over the bus its packet asked for, whole, unless another *)
(* one is refused while it is in progress.                                 *)
RoutedUnlessDisturbed == misrouted \subseteq disturbed
=============================================================================
