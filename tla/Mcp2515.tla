------------------------------- MODULE Mcp2515 -------------------------------
(***************************************************************************)
(* The second CAN controller, over SPI (mcp2515.c).                        *)
(*                                                                         *)
(* The controller keeps two received frames: one goes to RXB0, the next    *)
(* to RXB1 while RXB0 is full (BUKT).  mcp2515_rx_task takes one at each   *)
(* round: it looks which buffers are full, reads one and clears its flag,  *)
(* each in an SPI transaction of its own, under s_mutex; then it hands the *)
(* frame to the link of its identifier, under that link's data_mutex, and  *)
(* may send flow control from there.  Others send under a data_mutex too:  *)
(* the tasks of the links, the send task, the receive task of the other    *)
(* bus.  The mutex lets in one of them at a time, which the model knows by *)
(* its link.  A frame for this bus goes through TXB0, one for the other    *)
(* bus through the gate of twai_send, as use_conv_can says: whoever waits  *)
(* at a closed gate keeps the data_mutex it holds.                         *)
(* Frames are numbered, those received as they come over the bus and those *)
(* sent as they are loaded.                                                *)
(***************************************************************************)
EXTENDS Naturals

CONSTANTS
    Links,         \* links, and the sender that holds the data_mutex of each
    None,          \* no holder
    MaxArrivals,   \* bound: frames received
    MaxSends       \* bound: frames sent when the last send begins

Rx == "mcp2515_rx_task"
Tasks == Links \cup {Rx}
Buffers == {0, 1}

ASSUME Mcp2515Constants ==
    /\ Rx \notin Links /\ None \notin Tasks
    /\ MaxArrivals \in Nat /\ MaxSends \in Nat

VARIABLES
    rxb, rxif,                 \* the receive buffers, and those whose flag is set
    txb, txreq,                \* the transmit buffer, and the request to send it
    arrived,                   \* frames received so far
    loaded,                    \* frames loaded into TXB0 so far
    gate, passed,              \* whether TWAI takes frames, and those it took
    doing,                     \* where each task is
    buffer,                    \* the receive buffer being read
    target,                    \* the link of the frame that was read
    s_mutex, data_mutex,       \* their holders
    s_run,
    taken,                     \* history: frames the task has read
    overflowed,                \* history: frames that found both buffers full
    cleared,                   \* history: frames that came between a read and its clear
    sent, twice,               \* history: frames that went out, and those that did again
    replaced, over             \* history: frames loaded over while pending, and by which

receive_history == <<taken, overflowed, cleared>>
send_history    == <<sent, twice, replaced, over>>
receiving == <<rxb, rxif, arrived, buffer, receive_history>>
transmitting == <<txb, txreq, loaded, send_history>>
twai == <<gate, passed>>
mcp_vars == <<receiving, transmitting, twai, doing, target, s_mutex, data_mutex, s_run>>

McpInit ==
    /\ rxb = [b \in Buffers |-> 0] /\ rxif = {} /\ txb = 0 /\ txreq = FALSE
    /\ arrived = 0 /\ loaded = 0 /\ gate = TRUE /\ passed = 0
    /\ doing = [t \in Tasks |-> "loop"] /\ buffer = 0 /\ target = None
    /\ s_mutex = None /\ data_mutex = [l \in Links |-> None]
    /\ s_run = TRUE
    /\ taken = {} /\ overflowed = {} /\ cleared = {}
    /\ sent = {} /\ twice = {} /\ replaced = {} /\ over = {}

Steps(t, from, to) == doing[t] = from /\ doing' = [doing EXCEPT ![t] = to]

-----------------------------------------------------------------------------
(* The controller.                                                         *)
Stored(b) ==
    /\ rxb' = [rxb EXCEPT ![b] = arrived + 1]
    /\ rxif' = rxif \cup {b}
    /\ UNCHANGED overflowed

FrameArrives ==
    /\ arrived < MaxArrivals /\ arrived' = arrived + 1
    /\ \/ 0 \notin rxif /\ Stored(0)
       \/ 0 \in rxif /\ 1 \notin rxif /\ Stored(1)
       \/ /\ rxif = Buffers /\ overflowed' = overflowed \cup {arrived + 1}
          /\ UNCHANGED <<rxb, rxif>>
    /\ UNCHANGED <<transmitting, twai, doing, buffer, target, s_mutex, data_mutex, s_run>>
    /\ UNCHANGED <<taken, cleared>>

FrameGoes ==
    /\ txreq /\ txreq' = FALSE
    /\ sent' = sent \cup {txb}
    /\ twice' = twice \cup (sent \cap {txb})
    /\ UNCHANGED <<receiving, txb, loaded, replaced, over, twai>>
    /\ UNCHANGED <<doing, target, s_mutex, data_mutex, s_run>>

\* The alert task of twai.c closes the gate while its bus recovers, and a
\* sender that is past it waits while the driver is busy.
GateMoves ==
    /\ gate' = ~gate
    /\ UNCHANGED <<receiving, transmitting, passed, doing, target, s_mutex, data_mutex, s_run>>

-----------------------------------------------------------------------------
(* mcp2515_rx_task.                                                        *)
RxLoop ==
    /\ Steps(Rx, "loop", IF s_run THEN "look" ELSE "stopped")
    /\ UNCHANGED <<receiving, transmitting, twai, target, s_mutex, data_mutex, s_run>>

\* The interrupt pin is low while a flag is set.
RxLooks ==
    /\ Steps(Rx, "look", IF rxif # {} THEN "lock" ELSE "loop")
    /\ UNCHANGED <<receiving, transmitting, twai, target, s_mutex, data_mutex, s_run>>

RxLocks ==
    /\ s_mutex = None /\ s_mutex' = Rx /\ Steps(Rx, "lock", "flags")
    /\ UNCHANGED <<receiving, transmitting, twai, target, data_mutex, s_run>>

\* Wrong: RXB1 is preferred.
ChosenLast == IF 1 \in rxif THEN 1 ELSE 0

Chosen == IF 0 \in rxif THEN 0 ELSE 1

\* Only this task clears flags, so the one the pin showed is still set and
\* the branch for no flag (174-176) is never taken.
RxReadsFlags ==
    /\ Steps(Rx, "flags", "read") /\ buffer' = Chosen
    /\ UNCHANGED <<rxb, rxif, arrived, receive_history, transmitting, twai>>
    /\ UNCHANGED <<target, s_mutex, data_mutex, s_run>>

\* READ RX BUFFER clears the flag when it ends.
RxReads ==
    /\ Steps(Rx, "read", "clear")
    /\ taken' = taken \cup {rxb[buffer]} /\ rxif' = rxif \ {buffer}
    /\ UNCHANGED <<rxb, arrived, buffer, overflowed, cleared, transmitting, twai>>
    /\ UNCHANGED <<target, s_mutex, data_mutex, s_run>>

\* The frame's identifier names the link it is for, or none.
Clear ==
    /\ rxif' = rxif \ {buffer}
    /\ cleared' = cleared \cup {rxb[b] : b \in rxif \cap {buffer}}
    /\ \/ Steps(Rx, "clear", "deliver") /\ target' \in Links
       \/ Steps(Rx, "clear", "loop") /\ UNCHANGED target
    /\ UNCHANGED <<rxb, arrived, buffer, taken, overflowed, transmitting, twai>>
    /\ UNCHANGED <<data_mutex, s_run>>

\* Wrong: s_mutex is not given before the frame is handed on.
RxClearsHolding == Clear /\ UNCHANGED s_mutex

RxClears == Clear /\ s_mutex' = None

\* mcp2515_deliver_frame waits for the data_mutex of that link, whoever
\* holds it.  The link may answer, on either bus.
RxDelivers ==
    /\ doing[Rx] = "deliver" /\ data_mutex[target] = None
    /\ data_mutex' = [data_mutex EXCEPT ![target] = Rx] /\ target' = None
    /\ \E d \in {"take", "gate", "leave"} : Steps(Rx, "deliver", d)
    /\ UNCHANGED <<receiving, transmitting, twai, s_mutex, s_run>>

RxTask ==
    RxLoop \/ RxLooks \/ RxLocks \/ RxReadsFlags \/ RxReads \/ RxClears \/ RxDelivers

-----------------------------------------------------------------------------
(* Sending, under the data_mutex of a link.  The receive task of the other *)
(* bus does so until after mcp2515_stop_task.                              *)
Begins(l) ==
    /\ loaded + passed < MaxSends
    /\ data_mutex[l] = None /\ data_mutex' = [data_mutex EXCEPT ![l] = l]
    /\ Steps(l, "loop", "take") \/ Steps(l, "loop", "gate")
    /\ UNCHANGED <<receiving, transmitting, twai, target, s_mutex, s_run>>

\* twai_send.
PassesGate(t) ==
    /\ gate /\ passed' = passed + 1 /\ Steps(t, "gate", "leave")
    /\ UNCHANGED <<receiving, transmitting, gate, target, s_mutex, data_mutex, s_run>>

\* mcp2515_send.
Takes(t) ==
    /\ s_mutex = None /\ s_mutex' = t /\ Steps(t, "take", "load")
    /\ UNCHANGED <<receiving, transmitting, twai, target, data_mutex, s_run>>

\* TXB0 is written without a look at TXREQ.
Loads(t) ==
    /\ Steps(t, "load", "rts")
    /\ loaded' = loaded + 1 /\ txb' = loaded + 1
    /\ replaced' = IF txreq THEN replaced \cup {txb} ELSE replaced
    /\ over' = IF txreq THEN over \cup {loaded + 1} ELSE over
    /\ UNCHANGED <<receiving, txreq, sent, twice, twai, target, s_mutex, data_mutex, s_run>>

Requests(t) ==
    /\ Steps(t, "rts", "leave")
    /\ txreq' = TRUE /\ s_mutex' = None
    /\ UNCHANGED <<receiving, txb, loaded, send_history, twai, target, data_mutex, s_run>>

Leaves(t) ==
    /\ Steps(t, "leave", "loop")
    /\ data_mutex' = [l \in Links |-> IF data_mutex[l] = t THEN None ELSE data_mutex[l]]
    /\ UNCHANGED <<receiving, transmitting, twai, target, s_mutex, s_run>>

Sends(t) == PassesGate(t) \/ Takes(t) \/ Loads(t) \/ Requests(t) \/ Leaves(t)

\* mcp2515_stop_task.
StopBegins ==
    /\ s_run /\ s_run' = FALSE
    /\ UNCHANGED <<receiving, transmitting, twai, doing, target, s_mutex, data_mutex>>

-----------------------------------------------------------------------------
McpNext ==
    \/ FrameArrives \/ FrameGoes \/ GateMoves \/ RxTask
    \/ \E l \in Links : Begins(l)
    \/ \E t \in Tasks : Sends(t)
    \/ StopBegins

(* The tasks go on; nothing makes TWAI's gate open.                        *)
McpFairness == WF_mcp_vars(RxTask) /\ \A t \in Tasks : WF_mcp_vars(Sends(t))

McpSpec == McpInit /\ [][McpNext]_mcp_vars /\ McpFairness

-----------------------------------------------------------------------------
(* Every frame that came over the bus is taken out or still in a buffer,   *)
(* its flag set, and not both, unless both buffers were full when it came, *)
(* or it came between the read of its buffer and the second clearing of    *)
(* its flag (mcp2515.c:165-166).                                           *)
InBuffers == {rxb[b] : b \in rxif}

ReceivedOnce ==
    /\ 1..arrived = taken \cup InBuffers \cup overflowed \cup cleared
    /\ InBuffers \cap (taken \cup overflowed \cup cleared) = {}

(* Only a frame of RXB1 is overtaken by later ones.                        *)
OldestFirst == 0 \in rxif => \A f \in taken : f < rxb[0]

(* Every frame loaded goes out, unless another was loaded while it was     *)
(* pending (mcp2515.c:129-132), and goes out once, unless it was loaded    *)
(* itself over one pending and went before its own request.                *)
SentOnce ==
    /\ \A f \in 1..loaded :
          \/ f \in sent \cup replaced
          \/ f = txb /\ (txreq \/ \E t \in Tasks : doing[t] = "rts")
    /\ twice \subseteq over

FramesKept == ReceivedOnce /\ OldestFirst /\ SentOnce

(* A frame in a buffer is taken out, a task that sends or delivers comes   *)
(* to an end and the stop returns: no task waits for one that waits for    *)
(* it, whichever link's data_mutex each of them is bound to.  Unless TWAI  *)
(* goes on closing its gate, or leaves it closed: a sender that waits      *)
(* there (twai.c:236) keeps its link's data_mutex, and a frame of this bus *)
(* for that link holds up all that follow.                                 *)
TasksGoOn ==
    <>[]gate =>
    /\ \A b \in Buffers : (b \in rxif) ~> (b \notin rxif \/ doing[Rx] = "stopped")
    /\ \A t \in Tasks : (doing[t] \in {"take", "gate", "deliver"}) ~> (doing[t] = "loop")
    /\ ~s_run ~> (doing[Rx] = "stopped")
=============================================================================
