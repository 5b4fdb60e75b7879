--------------------------------- MODULE Twai --------------------------------
(***************************************************************************)
(* The CAN driver and the tasks that use it (twai.c), while the bus goes   *)
(* off and recovers and app_main stops everything (main.c).                *)
(*                                                                         *)
(* A task that sends a frame holds the data_mutex of its link, passes the  *)
(* gate twai_bus_off_mutex and calls twai_transmit until the controller    *)
(* has room, for the driver has no queue.  The alert task closes the gate  *)
(* while the bus recovers.  twai_receive_task hands frames to the links,   *)
(* under their data_mutex, and sends flow control from there.              *)
(***************************************************************************)
EXTENDS Naturals

CONSTANTS
    Links,         \* links, and the task that sends for each
    Nobody,          \* no holder
    MaxFrames,     \* bound: frames sent
    MaxBusOffs     \* bound: times the bus goes off

Rx == "twai_receive_task"
Alert == "twai_alert_task"
Tasks == Links \cup {Rx}

ASSUME TwaiConstants ==
    /\ Rx \notin Links /\ Alert \notin Tasks /\ Nobody \notin Tasks \cup {Alert}
    /\ MaxFrames \in Nat /\ MaxBusOffs \in Nat

VARIABLES
    driver,               \* the state twai_get_status_info would show
    busy,                 \* the controller has a frame to send
    alerts,               \* alerts not read yet
    twai_bus_off_mutex,   \* its holder
    data_mutex,           \* of each link, its holder
    doing,                \* where each sending task is
    link,                 \* the link each is at work for
    alerting,             \* where the alert task is
    told,                 \* the alerts it has read
    isotp_run_tasks, twai_run_task,
    main,                 \* where app_main is
    frames, bus_offs

mutexes == <<twai_bus_off_mutex, data_mutex>>
senders == <<doing, link, frames>>
alert   == <<alerting, told>>
stop    == <<isotp_run_tasks, twai_run_task, main>>
bus     == <<driver, busy, alerts, bus_offs>>
twai_vars == <<bus, mutexes, senders, alert, stop>>

TwaiInit ==
    /\ driver = "running" /\ busy = FALSE /\ alerts = {} /\ bus_offs = 0
    /\ twai_bus_off_mutex = Nobody /\ data_mutex = [l \in Links |-> Nobody]
    /\ doing = [t \in Tasks |-> "loop"]
    /\ link \in [Tasks -> Links] /\ \A l \in Links : link[l] = l
    /\ frames = 0
    /\ alerting = "loop" /\ told = {}
    /\ isotp_run_tasks = TRUE /\ twai_run_task = TRUE /\ main = "running"

-----------------------------------------------------------------------------
(* The controller and the bus.                                             *)
FrameGoes ==
    /\ driver = "running" /\ busy /\ busy' = FALSE
    /\ UNCHANGED <<driver, alerts, bus_offs, mutexes, senders, alert, stop>>

GoesOff ==
    /\ driver = "running" /\ bus_offs < MaxBusOffs
    /\ driver' = "bus_off" /\ bus_offs' = bus_offs + 1
    /\ alerts' = alerts \cup {"BUS_OFF"}
    /\ UNCHANGED <<busy, mutexes, senders, alert, stop>>

Recovers ==
    /\ driver = "recovering" /\ driver' = "stopped"
    /\ alerts' = alerts \cup {"BUS_RECOVERED"}
    /\ UNCHANGED <<busy, bus_offs, mutexes, senders, alert, stop>>

-----------------------------------------------------------------------------
(* A sending task.  The link tasks run until isotp_stop_task (and the      *)
(* MCP2515's until mcp2515_stop_task), the receive task until              *)
(* twai_stop_task.                                                         *)
Runs(t) == IF t = Rx THEN twai_run_task ELSE isotp_run_tasks

Steps(t, from, to) == doing[t] = from /\ doing' = [doing EXCEPT ![t] = to]

Loops(t) ==
    /\ Steps(t, "loop", IF Runs(t) THEN "wait" ELSE "stopped")
    /\ UNCHANGED <<bus, mutexes, link, frames, alert, stop>>

WaitTimesOut(t) ==
    /\ Steps(t, "wait", "loop")
    /\ UNCHANGED <<bus, mutexes, link, frames, alert, stop>>

\* A link has something to send, or a frame for link l comes.
Begins(t, l) ==
    /\ frames < MaxFrames
    /\ t = Rx \/ l = t
    /\ Steps(t, "wait", "lock")
    /\ link' = [link EXCEPT ![t] = l] /\ frames' = frames + 1
    /\ UNCHANGED <<bus, mutexes, alert, stop>>

Locks(t) ==
    /\ data_mutex[link[t]] = Nobody
    /\ Steps(t, "lock", "gate")
    /\ data_mutex' = [data_mutex EXCEPT ![link[t]] = t]
    /\ UNCHANGED <<bus, twai_bus_off_mutex, link, frames, alert, stop>>

\* twai_send: tMUTEX, rMUTEX.
TakesGate(t) ==
    /\ twai_bus_off_mutex = Nobody
    /\ Steps(t, "gate", "pass")
    /\ twai_bus_off_mutex' = t
    /\ UNCHANGED <<bus, data_mutex, link, frames, alert, stop>>

GivesGate(t) ==
    /\ Steps(t, "pass", "transmit")
    /\ twai_bus_off_mutex' = Nobody
    /\ UNCHANGED <<bus, data_mutex, link, frames, alert, stop>>

\* ESP_FAIL while the controller is busy: try again.  Any other error drops
\* the frame.
Transmits(t) ==
    /\ \/ driver = "running" /\ ~busy /\ busy' = TRUE
       \/ driver # "running" /\ UNCHANGED busy
    /\ Steps(t, "transmit", "unlock")
    /\ UNCHANGED <<driver, alerts, bus_offs, mutexes, link, frames, alert, stop>>

Unlocks(t) ==
    /\ Steps(t, "unlock", "loop")
    /\ data_mutex' = [data_mutex EXCEPT ![link[t]] = Nobody]
    /\ UNCHANGED <<bus, twai_bus_off_mutex, link, frames, alert, stop>>

Sends(t) ==
    \/ Loops(t) \/ WaitTimesOut(t) \/ Locks(t) \/ TakesGate(t) \/ GivesGate(t)
    \/ Transmits(t) \/ Unlocks(t)

-----------------------------------------------------------------------------
(* twai_alert_task.                                                        *)
Goes(from, to) == alerting = from /\ alerting' = to

AlertLoop ==
    /\ Goes("loop", IF twai_run_task THEN "read" ELSE "stopped")
    /\ UNCHANGED <<bus, mutexes, senders, told, stop>>

\* No alert for TIMEOUT_LONG: nothing else wakes the task for twai_stop_task.
ReadTimesOut ==
    /\ alerts = {} /\ Goes("read", "loop")
    /\ UNCHANGED <<bus, mutexes, senders, told, stop>>

Reads ==
    /\ alerts # {} /\ Goes("read", "bus_off")
    /\ told' = alerts /\ alerts' = {}
    /\ UNCHANGED <<driver, busy, bus_offs, mutexes, senders, stop>>

\* Closes the gate, for which it waits TIMEOUT_NORMAL at most.
TakesBusOff ==
    /\ "BUS_OFF" \in told /\ twai_bus_off_mutex = Nobody
    /\ Goes("bus_off", "initiate")
    /\ twai_bus_off_mutex' = Alert
    /\ UNCHANGED <<bus, data_mutex, senders, told, stop>>

TakeTimesOut ==
    /\ "BUS_OFF" \in told /\ twai_bus_off_mutex \in Tasks
    /\ Goes("bus_off", "recovered")
    /\ UNCHANGED <<bus, mutexes, senders, told, stop>>

NotOff ==
    /\ "BUS_OFF" \notin told /\ Goes("bus_off", "recovered")
    /\ UNCHANGED <<bus, mutexes, senders, told, stop>>

\* twai_initiate_recovery forgets the frame the controller had.
Initiates ==
    /\ Goes("initiate", "recovered")
    /\ driver' = "recovering" /\ busy' = FALSE
    /\ UNCHANGED <<alerts, bus_offs, mutexes, senders, told, stop>>

NotRecovered ==
    /\ "BUS_RECOVERED" \notin told /\ Goes("recovered", "loop")
    /\ UNCHANGED <<bus, mutexes, senders, told, stop>>

\* Wrong: the gate opens before the driver runs.
StartsOpen ==
    /\ "BUS_RECOVERED" \in told /\ Goes("recovered", "give")
    /\ driver' = "running" /\ twai_bus_off_mutex' = Nobody
    /\ UNCHANGED <<busy, alerts, bus_offs, data_mutex, senders, told, stop>>

Starts ==
    /\ "BUS_RECOVERED" \in told /\ Goes("recovered", "give")
    /\ driver' = "running"
    /\ UNCHANGED <<busy, alerts, bus_offs, mutexes, senders, told, stop>>

\* Wrong: the gate is given only while no sender waits at it.
GivesIdle ==
    /\ Goes("give", "loop")
    /\ twai_bus_off_mutex' =
         IF \A t \in Tasks : doing[t] # "gate" THEN Nobody ELSE Alert
    /\ UNCHANGED <<bus, data_mutex, senders, told, stop>>

Gives ==
    /\ Goes("give", "loop")
    /\ twai_bus_off_mutex' = Nobody
    /\ UNCHANGED <<bus, data_mutex, senders, told, stop>>

AlertTask ==
    \/ AlertLoop \/ ReadTimesOut \/ Reads \/ TakesBusOff \/ NotOff \/ Initiates
    \/ NotRecovered \/ Starts \/ Gives

-----------------------------------------------------------------------------
(* app_main: isotp_stop_task and mcp2515_stop_task join the tasks of the   *)
(* links, then twai_stop_task joins its own two.                           *)
StopBegins ==
    /\ main = "running" /\ main' = "join_links"
    /\ isotp_run_tasks' = FALSE
    /\ UNCHANGED <<bus, mutexes, senders, alert, twai_run_task>>

JoinsLinks ==
    /\ main = "join_links" /\ \A l \in Links : doing[l] = "stopped"
    /\ main' = "join_rx" /\ twai_run_task' = FALSE
    /\ UNCHANGED <<bus, mutexes, senders, alert, isotp_run_tasks>>

JoinsRx ==
    /\ main = "join_rx" /\ doing[Rx] = "stopped"
    /\ main' = "join_alert"
    /\ UNCHANGED <<bus, mutexes, senders, alert, isotp_run_tasks, twai_run_task>>

JoinsAlert ==
    /\ main = "join_alert" /\ alerting = "stopped"
    /\ main' = "uninstall"
    /\ UNCHANGED <<bus, mutexes, senders, alert, isotp_run_tasks, twai_run_task>>

\* twai_stop and twai_driver_uninstall, which fails while recovering.
Uninstalls ==
    /\ main = "uninstall" /\ main' = "stopped"
    /\ driver' = IF driver = "recovering" THEN driver ELSE "uninstalled"
    /\ UNCHANGED <<busy, alerts, bus_offs, mutexes, senders, alert, isotp_run_tasks, twai_run_task>>

Stop == JoinsLinks \/ JoinsRx \/ JoinsAlert \/ Uninstalls

-----------------------------------------------------------------------------
TwaiNext ==
    \/ FrameGoes \/ GoesOff \/ Recovers
    \/ \E t \in Tasks : Sends(t) \/ \E l \in Links : Begins(t, l)
    \/ AlertTask \/ TakeTimesOut
    \/ StopBegins \/ Stop

(* The tasks go on, a frame goes out while the bus runs, and a bus that is *)
(* being recovered does recover.                                           *)
TwaiFairness ==
    /\ \A t \in Tasks : WF_twai_vars(Sends(t))
    /\ WF_twai_vars(AlertTask) /\ WF_twai_vars(Stop)
    /\ WF_twai_vars(FrameGoes) /\ WF_twai_vars(Recovers)

TwaiSpec == TwaiInit /\ [][TwaiNext]_twai_vars /\ TwaiFairness

-----------------------------------------------------------------------------
(* Every call finds the driver in the state it needs, though the state     *)
(* changes under the tasks: recovery is initiated on a bus that is off and *)
(* the driver started when it is stopped (ESP_ERROR_CHECK restarts the     *)
(* bridge otherwise), nobody passes the gate before the driver runs again, *)
(* and the driver is not uninstalled under a task that uses it.            *)
RecoveryIsLegal ==
    /\ alerting = "initiate" => driver = "bus_off"
    /\ alerting = "recovered" /\ "BUS_RECOVERED" \in told => driver = "stopped"
    /\ alerting = "give" => twai_bus_off_mutex = Alert

GateIsClosed ==
    \A t \in Tasks : doing[t] = "pass" => driver \in {"running", "bus_off"}

InstalledInUse ==
    driver = "uninstalled" => \A t \in Tasks : doing[t] = "stopped"

CallsFindTheirState == RecoveryIsLegal /\ GateIsClosed /\ InstalledInUse

(* A frame that is being sent is sent or dropped, and the stop ends, given *)
(* that the bus recovers; unless the alert task, stopped before the bus    *)
(* recovered, has left the gate closed.                                    *)
LeftClosed == alerting = "stopped" /\ twai_bus_off_mutex = Alert

TasksGoOn ==
    /\ \A t \in Tasks : (doing[t] = "lock") ~> (doing[t] = "loop" \/ LeftClosed)
    /\ (main = "join_links") ~> (main = "stopped" \/ LeftClosed)
=============================================================================
