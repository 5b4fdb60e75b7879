------------------------------ MODULE Clients ------------------------------
(***************************************************************************)
(* Who may use the bridge: a BLE client or a UART client.  Packets of the  *)
(* UART count only while no BLE client is connected; the first of them     *)
(* opens a session, in which the bridge does not advertise, and ch_task    *)
(* (connection_handler.c) ends the session when the UART was silent for    *)
(* TIMEOUT_UARTCONNECTION ticks.                                           *)
(*                                                                         *)
(* Three tasks share this: uart_receive_task, ch_task and the Bluetooth    *)
(* task, which calls the GATT handler.  uart_connection_timer is set under *)
(* ch_settings_mutex but counted down without it; the flags have           *)
(* ble_settings_mutex, but no lock joins a flag to the call that follows.  *)
(***************************************************************************)
EXTENDS Integers, Sequences

CONSTANTS
    Timeout,       \* TIMEOUT_UARTCONNECTION
    MaxLinks,      \* BLE connections the stack can hold
    MaxEvents      \* bound: GATT events not handled yet

ASSUME ClientsConstants ==
    Timeout \in Nat \ {0} /\ MaxLinks \in Nat \ {0} /\ MaxEvents \in Nat \ {0}

VARIABLES
    uart_connection_timer, allow_connection, is_connected,
    advertising, links, events,     \* the Bluetooth stack
    receiving, ticking, handling,   \* where the three tasks are
    counted,                        \* the timer as ch_task read it
    overtaken,                      \* history: it was set meanwhile, last
    silent                          \* history: ticks since a packet set the timer

stack   == <<advertising, links, events>>
tasks   == <<receiving, ticking, handling>>
history == <<overtaken, silent>>
vars == <<uart_connection_timer, allow_connection, is_connected, stack, tasks,
          counted, history>>

Init ==
    /\ uart_connection_timer = 0
    /\ allow_connection = TRUE /\ is_connected = FALSE
    /\ advertising = TRUE /\ links = 0 /\ events = <<>>
    /\ receiving = "wait" /\ ticking = "wait" /\ handling = "wait"
    /\ counted = 0
    /\ overtaken = FALSE /\ silent = 0

-----------------------------------------------------------------------------
(* The Bluetooth stack.  A connection ends advertising.                    *)
StartsAdvertising ==
    \/ links < MaxLinks /\ advertising' = TRUE
    \/ links = MaxLinks /\ UNCHANGED advertising

StopsAdvertising == advertising' = FALSE

Connects ==
    /\ advertising /\ Len(events) < MaxEvents
    /\ advertising' = FALSE /\ links' = links + 1
    /\ events' = Append(events, "connect")
    /\ UNCHANGED <<uart_connection_timer, allow_connection, is_connected, tasks,
                   counted, history>>

Disconnects ==
    /\ links > 0 /\ Len(events) < MaxEvents
    /\ links' = links - 1
    /\ events' = Append(events, "disconnect")
    /\ UNCHANGED <<uart_connection_timer, allow_connection, is_connected,
                   advertising, tasks, counted, history>>

-----------------------------------------------------------------------------
(* uart_receive_task: uart_data_received and ch_reset_uart_timer.          *)
PacketArrives ==
    /\ receiving = "wait" /\ ~is_connected
    /\ receiving' = "look"
    /\ UNCHANGED <<uart_connection_timer, allow_connection, is_connected, stack,
                   ticking, handling, counted, history>>

LooksAtTimer ==
    /\ receiving = "look"
    /\ receiving' = IF uart_connection_timer = 0 THEN "forbid" ELSE "set"
    /\ UNCHANGED <<uart_connection_timer, allow_connection, is_connected, stack,
                   ticking, handling, counted, history>>

\* ble_stop_advertising, and ch_on_uart_connect after it.
Forbids ==
    /\ receiving = "forbid" /\ receiving' = "stop"
    /\ allow_connection' = FALSE
    /\ UNCHANGED <<uart_connection_timer, is_connected, stack, ticking, handling,
                   counted, history>>

Stops ==
    /\ receiving = "stop" /\ receiving' = "set"
    /\ StopsAdvertising
    /\ UNCHANGED <<uart_connection_timer, allow_connection, is_connected, links,
                   events, ticking, handling, counted, history>>

\* Wrong: the timer is set when the session opens, not by every packet.
SetsTimerOnce ==
    /\ receiving = "set" /\ receiving' = "wait"
    /\ uart_connection_timer' =
           IF uart_connection_timer = 0 THEN Timeout ELSE uart_connection_timer
    /\ overtaken' = (ticking = "count") /\ silent' = 0
    /\ UNCHANGED <<allow_connection, is_connected, stack, ticking, handling, counted>>

SetsTimer ==
    /\ receiving = "set" /\ receiving' = "wait"
    /\ uart_connection_timer' = Timeout
    /\ overtaken' = (ticking = "count") /\ silent' = 0
    /\ UNCHANGED <<allow_connection, is_connected, stack, ticking, handling, counted>>

Receives == LooksAtTimer \/ Forbids \/ Stops \/ SetsTimer

-----------------------------------------------------------------------------
(* ch_task: ch_uart_connection_countdown, once a second unless a BLE client*)
(* is connected.                                                           *)
Reads ==
    /\ ticking = "wait" /\ ticking' = "count"
    /\ ~is_connected
    /\ counted' = uart_connection_timer
    /\ silent' = silent + 1
    /\ UNCHANGED <<uart_connection_timer, allow_connection, is_connected, stack,
                   receiving, handling, overtaken>>

\* Wrong: a timer that has run out is counted on.
TickOn == Reads

Tick == uart_connection_timer > 0 /\ Reads

\* Wrong: the end is found when the timer was 0 before.
CountsDownLate ==
    /\ ticking = "count"
    /\ uart_connection_timer' = counted - 1
    /\ ticking' = IF counted = 0 THEN "allow" ELSE "wait"
    /\ UNCHANGED <<allow_connection, is_connected, stack, receiving, handling,
                   counted, history>>

CountsDown ==
    /\ ticking = "count"
    /\ uart_connection_timer' = counted - 1
    /\ ticking' = IF counted = 1 THEN "allow" ELSE "wait"
    /\ UNCHANGED <<allow_connection, is_connected, stack, receiving, handling,
                   counted, history>>

\* Wrong: the bridge is visible again, but the flag stays.
AllowsNot ==
    /\ ticking = "allow" /\ ticking' = "start"
    /\ UNCHANGED <<uart_connection_timer, allow_connection, is_connected, stack,
                   receiving, handling, counted, history>>

\* ble_start_advertising, and ch_on_uart_disconnect after it.
Allows ==
    /\ ticking = "allow" /\ ticking' = "start"
    /\ allow_connection' = TRUE
    /\ UNCHANGED <<uart_connection_timer, is_connected, stack, receiving, handling,
                   counted, history>>

Starts ==
    /\ ticking = "start" /\ ticking' = "wait"
    /\ StartsAdvertising
    /\ UNCHANGED <<uart_connection_timer, allow_connection, is_connected, links,
                   events, receiving, handling, counted, history>>

Handles == Tick \/ CountsDown \/ Allows \/ Starts

-----------------------------------------------------------------------------
(* The Bluetooth task: gatts_profile_event_handler.                        *)
TakesEvent(event) ==
    /\ handling = "wait"
    /\ events # <<>> /\ Head(events) = event /\ events' = Tail(events)

HandlesConnect ==
    /\ TakesEvent("connect")
    /\ is_connected' = TRUE
    /\ UNCHANGED <<uart_connection_timer, allow_connection, advertising, links,
                   tasks, counted, history>>

HandlesDisconnect ==
    /\ TakesEvent("disconnect")
    /\ is_connected' = FALSE
    /\ handling' = "ask"
    /\ UNCHANGED <<uart_connection_timer, allow_connection, advertising, links,
                   receiving, ticking, counted, history>>

Asks ==
    /\ handling = "ask"
    /\ handling' = IF allow_connection THEN "start" ELSE "wait"
    /\ UNCHANGED <<uart_connection_timer, allow_connection, is_connected, stack,
                   receiving, ticking, counted, history>>

HandlerStarts ==
    /\ handling = "start" /\ handling' = "wait"
    /\ StartsAdvertising
    /\ UNCHANGED <<uart_connection_timer, allow_connection, is_connected, links,
                   events, receiving, ticking, counted, history>>

HandlesGatt == HandlesConnect \/ HandlesDisconnect \/ Asks \/ HandlerStarts

-----------------------------------------------------------------------------
Next ==
    \/ Connects \/ Disconnects
    \/ PacketArrives \/ Receives
    \/ Handles
    \/ HandlesGatt

(* The tasks go on; clients come and go as they like.                      *)
Fairness == WF_vars(Receives) /\ WF_vars(Handles) /\ WF_vars(HandlesGatt)

Spec == Init /\ [][Next]_vars /\ Fairness

-----------------------------------------------------------------------------
TypeOK ==
    /\ uart_connection_timer \in 0..Timeout /\ counted \in 0..Timeout
    /\ allow_connection \in BOOLEAN /\ is_connected \in BOOLEAN
    /\ advertising \in BOOLEAN /\ links \in 0..MaxLinks
    /\ events \in Seq({"connect", "disconnect"})
    /\ receiving \in {"wait", "look", "forbid", "stop", "set"}
    /\ ticking \in {"wait", "count", "allow", "start"}
    /\ handling \in {"wait", "ask", "start"}
    /\ overtaken \in BOOLEAN /\ silent \in Nat

AtRest == receiving = "wait" /\ ticking = "wait" /\ handling = "wait" /\ events = <<>>

(* Whatever order the three tasks took, once they rest without a session   *)
(* and without a client the bridge advertises and lets a client in.        *)
ReachableWhenIdle ==
    AtRest /\ uart_connection_timer = 0 =>
        allow_connection /\ (links = 0 => advertising)

(* A session ends only when no packet set the timer for Timeout ticks.  The*)
(* exception: the last packet set it while ch_task was counting, and what  *)
(* ch_task had read was written over it.                                   *)
EndsInSilence ==
    [][ticking = "count" /\ ticking' = "allow" => overtaken \/ silent >= Timeout]_vars

(* A session whose client went silent ends, unless a BLE client keeps the  *)
(* bridge: it never stays invisible for good.                              *)
VisibleAgain ==
    (<>[](receiving = "wait")) => []<>(advertising \/ links > 0)
=============================================================================
