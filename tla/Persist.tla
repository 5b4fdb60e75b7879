------------------------------- MODULE Persist -------------------------------
(***************************************************************************)
(* Persist mode (persist.c): the messages a client had stored for a link   *)
(* are sent to it again and again, one task per slot, until the client, a  *)
(* new connection or a lost one stops it.  The module composes             *)
(*                                                                         *)
(*   - the lists and the persist_task of every slot,                       *)
(*   - parse_packet (isotp_bridge.c), which adds to, clears and enables    *)
(*     them packet by packet; isotp_receive_mutex makes it one at a time,  *)
(*   - bridge_connect and bridge_disconnect, which clear them from another *)
(*     task and without that mutex,                                        *)
(*   - the queue of isotp_send_queue_task, at its taking end.              *)
(*                                                                         *)
(* A slot i holds what is sent over link i; the links past PersistCount    *)
(* have none.  The time a task waits is left out: any is allowed.          *)
(***************************************************************************)
EXTENDS Integers, Sequences, FiniteSets

CONSTANTS
    PersistCount,  \* PERSIST_COUNT
    LinkCount,     \* NUM_ISOTP_LINK_CONTAINERS
    MaxMessage,    \* PERSIST_MAX_MESSAGE
    QueueSize,     \* ISOTP_QUEUE_SIZE
    Payloads,      \* what a packet may carry
    Routes,        \* what its flags may ask for, TRUE is the MCP2515
    Offered,       \* the packets a client may send
    NoData,        \* a packet of size 0, a message malloc had no memory for
    None,
    MaxPackets,    \* bound: packets in a behaviour
    MaxSessions,   \* bound: connects and disconnects in a behaviour
    MaxFaults      \* bound: failed malloc, full BLE queue, timed-out xQueueSend

Slots == 0..(PersistCount - 1)
Links == 0..(LinkCount - 1)

Packets  == [clear : BOOLEAN, add : BOOLEAN, enable : BOOLEAN, conv : Routes,
             link : Links, data : Payloads \cup {NoData}]

ASSUME PersistConstants ==
    /\ PersistCount \in Nat /\ LinkCount \in Nat /\ PersistCount <= LinkCount
    /\ MaxMessage \in Nat \ {0} /\ QueueSize \in Nat \ {0}
    /\ NoData \notin Payloads
    /\ Routes \subseteq BOOLEAN
    /\ Offered \subseteq Packets
    /\ MaxPackets \in Nat /\ MaxSessions \in Nat /\ MaxFaults \in Nat

VARIABLES
    persist_msg_enabled,
    messages,      \* slot -> the stored messages, count of them
    position,      \* slot -> the one to send next
    task,          \* slot -> where its persist_task is
    held,          \* slot -> the copy it is about to queue
    send_sema,     \* slot -> an answer came, or a send failed
    queue,         \* isotp_send_message_queue
    packet,        \* the packet in parse_packet
    step,          \* where parse_packet is with it
    clear_at,      \* who clears -> the slot it clears next, -1: not clearing
    packets, sessions, faults,
    calm,          \* history: did a session clear without a packet beside it?
    late           \* history: slot -> messages queued since then

list_vars == <<messages, position>>
task_vars == <<task, held, send_sema>>
bounds    == <<packets, sessions, faults>>
vars == <<persist_msg_enabled, list_vars, task_vars, queue, packet, step,
          clear_at, bounds, calm, late>>

Clearers == {"packet", "session"}
\* `asked' is a history of the route its packet asked for.
Stored(data, conv)              == [data |-> data, asked |-> conv]
Queued(link, data, conv, asked) ==
    [link |-> link, data |-> data, conv |-> conv, asked |-> asked]

Init ==
    /\ persist_msg_enabled = FALSE
    /\ messages = [i \in Slots |-> <<>>]
    /\ position = [i \in Slots |-> 0]
    /\ task = [i \in Slots |-> "wait"]
    /\ held = [i \in Slots |-> None]
    /\ send_sema = [i \in Slots |-> FALSE]
    /\ queue = <<>>
    /\ packet = None /\ step = "idle"
    /\ clear_at = [c \in Clearers |-> -1]
    /\ packets = 0 /\ sessions = 0 /\ faults = 0
    /\ calm = "no" /\ late = [i \in Slots |-> 0]

\* Wrong: the slot's data_mutex is not taken.
UnlockedAlways(i) == i \in Slots

\* data_mutex of the slot: its task keeps it from `check' to the copy.
Unlocked(i) == task[i] # "send"

Fault    == faults < MaxFaults /\ faults' = faults + 1
HasRoom  == Len(queue) < QueueSize

-----------------------------------------------------------------------------
(* persist_clear, by whoever called it: persist mode off, then the slots   *)
(* one after the other.                                                    *)
BeginClear(c) ==
    /\ persist_msg_enabled' = FALSE
    /\ clear_at' = [clear_at EXCEPT ![c] = 0]

\* Wrong: the messages are freed, their count is kept.
EmptySlotKeepsCount(i) ==
    /\ messages' = [messages EXCEPT ![i] = [k \in DOMAIN @ |-> Stored(NoData, FALSE)]]
    /\ position' = [position EXCEPT ![i] = 0]

EmptySlot(i) ==
    /\ messages' = [messages EXCEPT ![i] = <<>>]
    /\ position' = [position EXCEPT ![i] = 0]

ClearSlot(c) ==
    /\ clear_at[c] \in Slots
    /\ Unlocked(clear_at[c])
    /\ EmptySlot(clear_at[c])
    /\ clear_at' = [clear_at EXCEPT ![c] = @ + 1]
    /\ UNCHANGED <<persist_msg_enabled, task_vars, queue, packet, step, bounds,
                   calm, late>>

Cleared(c) == clear_at[c] = PersistCount

-----------------------------------------------------------------------------
(* parse_packet, a packet that is no setting.                              *)
PacketArrives(p) ==
    /\ step = "idle"
    /\ packets < MaxPackets /\ packets' = packets + 1
    /\ packet' = p
    /\ step' = IF persist_msg_enabled THEN "clear_on" ELSE "clear_off"
    /\ calm' = "no"
    /\ UNCHANGED <<persist_msg_enabled, list_vars, task_vars, queue, clear_at,
                   sessions, faults, late>>

\* BLE_COMMAND_FLAG_PER_CLEAR, in either mode.
PacketClears ==
    /\ step \in {"clear_on", "clear_off"}
    /\ \/ /\ packet.clear /\ clear_at["packet"] = -1
          /\ BeginClear("packet")
          /\ UNCHANGED step
       \/ /\ packet.clear => Cleared("packet")
          /\ clear_at' = [clear_at EXCEPT !["packet"] = -1]
          /\ step' = IF step = "clear_on" THEN "leave" ELSE "add"
          /\ UNCHANGED persist_msg_enabled
    /\ UNCHANGED <<list_vars, task_vars, queue, packet, bounds, calm, late>>

\* In persist mode a packet only goes on when it ends the mode.
PacketLeaves ==
    /\ step = "leave"
    /\ IF packet.enable
       THEN step' = "idle" /\ packet' = None /\ UNCHANGED persist_msg_enabled
       ELSE step' = "send" /\ persist_msg_enabled' = FALSE /\ UNCHANGED packet
    /\ UNCHANGED <<list_vars, task_vars, queue, clear_at, bounds, calm, late>>

\* Wrong: off by one.
IsFullLate(i) == Len(messages[i]) > MaxMessage

IsFull(i) == Len(messages[i]) >= MaxMessage

\* persist_add looks for the slot and at its count under data_mutex ...
PacketAdds ==
    /\ step = "add"
    /\ IF packet.add /\ packet.data # NoData /\ packet.link \in Slots
       THEN /\ Unlocked(packet.link)
            /\ step' = IF IsFull(packet.link) THEN "enable" ELSE "insert"
       ELSE step' = "enable"
    /\ UNCHANGED <<persist_msg_enabled, list_vars, task_vars, queue, packet,
                   clear_at, bounds, calm, late>>

\* ... and adds after taking it again, a message without data if malloc fails.
PacketInserts ==
    /\ step = "insert" /\ Unlocked(packet.link)
    /\ \/ /\ messages' = [messages EXCEPT
                              ![packet.link] = Append(@, Stored(packet.data, packet.conv))]
          /\ UNCHANGED faults
       \/ /\ Fault
          /\ messages' = [messages EXCEPT
                              ![packet.link] = Append(@, Stored(NoData, packet.conv))]
    /\ step' = "enable"
    /\ UNCHANGED <<persist_msg_enabled, position, task_vars, queue, packet,
                   clear_at, packets, sessions, calm, late>>

PacketEnables ==
    /\ step = "enable"
    /\ IF packet.enable
       THEN step' = "idle" /\ packet' = None /\ persist_msg_enabled' = TRUE
       ELSE step' = "send" /\ UNCHANGED <<packet, persist_msg_enabled>>
    /\ UNCHANGED <<list_vars, task_vars, queue, clear_at, bounds, calm, late>>

\* The message itself goes to the queue, unless persist mode is on again; it
\* is lost when there is no memory, or no room within TIMEOUT_NORMAL.
PacketSends ==
    /\ step = "send"
    /\ \/ /\ packet.data # NoData /\ ~persist_msg_enabled /\ HasRoom
          /\ queue' = Append(queue, Queued(packet.link, packet.data,
                                           packet.conv, packet.conv))
          /\ UNCHANGED faults
       \/ packet.data # NoData /\ ~persist_msg_enabled /\ Fault /\ UNCHANGED queue
       \/ /\ packet.data = NoData \/ persist_msg_enabled
          /\ UNCHANGED <<queue, faults>>
    /\ step' = "idle" /\ packet' = None
    /\ UNCHANGED <<persist_msg_enabled, list_vars, task_vars, clear_at, packets,
                   sessions, calm, late>>

Packet ==
    \/ PacketClears \/ PacketLeaves \/ PacketAdds \/ PacketInserts
    \/ PacketEnables \/ PacketSends \/ ClearSlot("packet")

-----------------------------------------------------------------------------
(* bridge_connect, bridge_disconnect: a client comes or goes.              *)
SessionBegins ==
    /\ sessions < MaxSessions /\ sessions' = sessions + 1
    /\ clear_at["session"] = -1
    /\ BeginClear("session")
    /\ calm' = IF step = "idle" THEN "clearing" ELSE "no"
    /\ UNCHANGED <<list_vars, task_vars, queue, packet, step, packets, faults, late>>

SessionEnds ==
    /\ Cleared("session")
    /\ clear_at' = [clear_at EXCEPT !["session"] = -1]
    /\ calm' = IF calm = "clearing" THEN "yes" ELSE "no"
    /\ late' = [i \in Slots |-> 0]
    /\ UNCHANGED <<persist_msg_enabled, list_vars, task_vars, queue, packet,
                   step, bounds>>

Session == ClearSlot("session") \/ SessionEnds

-----------------------------------------------------------------------------
(* persist_task.  It wakes for send_sema or after TIMEOUT_NORMAL.          *)
Wake(i) ==
    /\ task[i] = "wait"
    /\ task' = [task EXCEPT ![i] = "check"]
    /\ send_sema' = [send_sema EXCEPT ![i] = FALSE]
    /\ UNCHANGED <<persist_msg_enabled, list_vars, held, queue, packet, step,
                   clear_at, bounds, calm, late>>

Check(i) ==
    /\ task[i] = "check"
    /\ task' = [task EXCEPT ![i] =
                    IF persist_msg_enabled /\ messages[i] # <<>> THEN "send"
                                                                 ELSE "wait"]
    /\ UNCHANGED <<persist_msg_enabled, list_vars, held, send_sema, queue,
                   packet, step, clear_at, bounds, calm, late>>

\* Wrong: the first message is always the one to send.
TurnFirst(i) == IF messages[i] = <<>> THEN position[i] ELSE 0

Turn(i) == IF position[i] >= Len(messages[i]) THEN 0 ELSE position[i]

HasData(m) == m.data # NoData

\* What the task does when it cannot send now: it tries again at once.
TryAgain(i) ==
    /\ task' = [task EXCEPT ![i] = "wait"]
    /\ send_sema' = [send_sema EXCEPT ![i] = TRUE]

QueuesAreFull(i) ==
    /\ task[i] = "send"
    /\ \/ ~HasRoom /\ UNCHANGED faults
       \/ Fault                          \* no space in the BLE queue
    /\ TryAgain(i)
    /\ UNCHANGED <<persist_msg_enabled, list_vars, held, queue, packet, step,
                   clear_at, packets, sessions, calm, late>>

\* The message whose turn it is, is copied; if it has no data, or there is no
\* memory for the copy, its turn is over all the same.
TakeTurn(i) ==
    /\ task[i] = "send" /\ HasRoom
    /\ position' = [position EXCEPT ![i] = Turn(i) + 1]
    /\ LET m == messages[i][Turn(i) + 1] IN
       \/ /\ HasData(m)
          /\ held' = [held EXCEPT ![i] = m]
          /\ task' = [task EXCEPT ![i] = "queue"]
          /\ UNCHANGED <<send_sema, faults>>
       \/ ~HasData(m) /\ TryAgain(i) /\ UNCHANGED <<held, faults>>
       \/ HasData(m) /\ Fault /\ TryAgain(i) /\ UNCHANGED held
    /\ UNCHANGED <<persist_msg_enabled, messages, queue, packet, step, clear_at,
                   packets, sessions, calm, late>>

\* Wrong: the result of the queue is read the wrong way round, a copy that was
\* queued is queued again.
QueueCopyAgain(i) ==
    /\ task[i] = "queue" /\ HasRoom
    /\ \E conv \in Routes :
           queue' = Append(queue, Queued(i, held[i].data, conv, held[i].asked))
    /\ late' = [late EXCEPT ![i] = IF calm = "yes" THEN @ + 1 ELSE @]
    /\ UNCHANGED <<persist_msg_enabled, list_vars, task_vars, packet, step,
                   clear_at, bounds, calm>>

\* bridge_send_isotp.  persist_send sets every field of the message but its
\* flags, and any flags but 0 send it over the MCP2515.
QueueCopy(i) ==
    /\ task[i] = "queue" /\ HasRoom
    /\ \E conv \in Routes :
           queue' = Append(queue, Queued(i, held[i].data, conv, held[i].asked))
    /\ held' = [held EXCEPT ![i] = None]
    /\ task' = [task EXCEPT ![i] = "wait"]
    /\ late' = [late EXCEPT ![i] = IF calm = "yes" THEN @ + 1 ELSE @]
    /\ UNCHANGED <<persist_msg_enabled, list_vars, send_sema, packet, step,
                   clear_at, bounds, calm>>

DropCopy(i) ==
    /\ task[i] = "queue" /\ ~HasRoom /\ Fault
    /\ held' = [held EXCEPT ![i] = None]
    /\ TryAgain(i)
    /\ UNCHANGED <<persist_msg_enabled, list_vars, queue, packet, step, clear_at,
                   packets, sessions, calm, late>>

PersistTask(i) == Wake(i) \/ Check(i) \/ QueuesAreFull(i) \/ TakeTurn(i)
                          \/ QueueCopy(i) \/ DropCopy(i)

-----------------------------------------------------------------------------
(* isotp_send_queue_task takes a message; isotp_processing_task has an     *)
(* answer on link i and calls persist_allow_send.                          *)
TakeMessage ==
    /\ queue # <<>> /\ queue' = Tail(queue)
    /\ UNCHANGED <<persist_msg_enabled, list_vars, task_vars, packet, step,
                   clear_at, bounds, calm, late>>

Answer(i) ==
    /\ persist_msg_enabled
    /\ send_sema' = [send_sema EXCEPT ![i] = TRUE]
    /\ UNCHANGED <<persist_msg_enabled, list_vars, task, held, queue, packet,
                   step, clear_at, bounds, calm, late>>

Next ==
    \/ \E p \in Offered : PacketArrives(p)
    \/ Packet
    \/ SessionBegins
    \/ Session
    \/ \E i \in Slots : PersistTask(i)
    \/ TakeMessage
    \/ \E i \in Slots : Answer(i)

(* Every task that can go on does; nobody has to connect or send packets,  *)
(* and no fault has to happen.                                             *)
Fairness ==
    /\ WF_vars(Packet) /\ WF_vars(Session) /\ WF_vars(TakeMessage)
    /\ \A i \in Slots : WF_vars(PersistTask(i))

Spec == Init /\ [][Next]_vars /\ Fairness

-----------------------------------------------------------------------------
StoredMessage == [data : Payloads \cup {NoData}, asked : Routes]
QueuedMessage == [link : Links, data : Payloads, conv : Routes, asked : Routes]

(* The lists never outgrow the array they are kept in, though persist_add  *)
(* counts and adds under two separate locks; only messages with data are   *)
(* copied and queued.                                                      *)
TypeOK ==
    /\ persist_msg_enabled \in BOOLEAN
    /\ messages \in [Slots -> Seq(StoredMessage)]
    /\ \A i \in Slots : Len(messages[i]) <= MaxMessage
    /\ position \in [Slots -> 0..MaxMessage]
    /\ task \in [Slots -> {"wait", "check", "send", "queue"}]
    /\ held \in [Slots -> StoredMessage \cup {None}]
    /\ send_sema \in [Slots -> BOOLEAN]
    /\ queue \in Seq(QueuedMessage) /\ Len(queue) <= QueueSize
    /\ packet \in Packets \cup {None}
    /\ step \in {"idle", "clear_on", "clear_off", "leave", "add", "insert",
                 "enable", "send"}
    /\ clear_at \in [Clearers -> -1..PersistCount]
    /\ packets \in Nat /\ sessions \in Nat /\ faults \in Nat
    /\ calm \in {"no", "clearing", "yes"} /\ late \in [Slots -> Nat]

(* persist_send never reads past the messages stored, whatever was cleared *)
(* or added while it waited for the lock.                                  *)
TurnInList == \A i \in Slots : task[i] = "send" => Turn(i) < Len(messages[i])

(* A client that connects finds persist mode off and the lists empty, when *)
(* no packet was being parsed while they were cleared.  (With one beside   *)
(* it, the packet's last calls may undo the clearing.)                     *)
SessionStartsClean ==
    calm = "yes" => ~persist_msg_enabled /\ \A i \in Slots : messages[i] = <<>>

(* After that, a slot queues at most the one copy it had already made: a   *)
(* message of the last client reaches the car at most once more.           *)
OneStraggler == calm = "yes" => \A i \in Slots : late[i] <= 1

(* Persist mode serves every stored message again and again, however many  *)
(* stand before it, with data or without; unless none of its slot finds    *)
(* room in the queue any more, for another slot's go on taking it.         *)
IsStored(i, d) == \E k \in DOMAIN messages[i] : messages[i][k].data = d
IsSent(i, d) == \E k \in DOMAIN queue : queue[k].link = i /\ queue[k].data = d
SendsAny(i) == \E d \in Payloads : IsSent(i, d)

EveryMessageIsSent ==
    \A i \in Slots, d \in Payloads :
        <>[](persist_msg_enabled /\ IsStored(i, d)) =>
            \/ []<>IsSent(i, d)
            \/ <>[]~SendsAny(i) /\ \E j \in Slots \ {i} : []<>SendsAny(j)

(* docs/HARDWARE.md:23: a command with flag 0x10 goes to the MCP2515, one  *)
(* without it does not.                                                    *)
RoutedAsAsked == \A k \in DOMAIN queue : queue[k].conv = queue[k].asked
=============================================================================
