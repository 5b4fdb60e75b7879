------------------------------- MODULE BleSend -------------------------------
(***************************************************************************)
(* Messages sent to a BLE client (ble_server.c).  ble_send queues them;    *)
(* send_task takes one, waits while the stack is congested, adds others    *)
(* that fit the same notification, and sends the notification, cut into a  *)
(* head and numbered parts if it is larger than the MTU allows.  The       *)
(* Bluetooth task changes the MTU, the subscription and the semaphore      *)
(* ble_congested at any time; app_main stops the server.                   *)
(*                                                                         *)
(* A byte is known by its message, its place in the message with its       *)
(* header, and the length the header announces.  The stack delivers in     *)
(* order what it accepts, and refuses what it is given while congested or  *)
(* without a link: nobody looks at what esp_ble_gatts_send_indicate says.  *)
(* The client takes a notification apart the way packet_received does, one *)
(* packet a step, and looks at the next when it is done.                   *)
(***************************************************************************)
EXTENDS Integers, Sequences

CONSTANTS
    HeaderSize,      \* sizeof(ble_header_t)
    PartSize,        \* BLE_PARTIAL_ID and the part's number
    DefaultRoom,     \* DEFAULT_MTU_SIZE less the 3 bytes of ATT
    Rooms,           \* the same for the MTUs clients ask for
    Sizes,           \* lengths of messages
    QueueSize,       \* BLE_QUEUE_SIZE
    MaxMessages,     \* bound: messages queued
    MaxLinks,        \* bound: connections
    MaxCongestions,  \* bound: times the stack is congested
    MaxFaults        \* bound: failed mallocs

ASSUME BleSendConstants ==
    /\ HeaderSize \in Nat \ {0} /\ PartSize \in Nat
    /\ DefaultRoom \in Nat /\ DefaultRoom > HeaderSize /\ DefaultRoom > PartSize
    /\ Rooms \subseteq Nat /\ \A n \in Rooms : n >= DefaultRoom
    /\ Sizes \subseteq Nat \ {0} /\ QueueSize \in Nat \ {0}
    /\ MaxMessages \in Nat /\ MaxLinks \in Nat
    /\ MaxCongestions \in Nat /\ MaxFaults \in Nat

VARIABLES
    ble_run_tasks, spp_send_queue,
    ble_congested,            \* the semaphore: TRUE when it can be taken
    room,                     \* spp_mtu_size - 3
    enable_data_ntf, is_connected,
    handling,                 \* where the Bluetooth task is
    sending,                  \* where send_task is
    data, data_pos, pack_size, chunk_num,
    main,                     \* where app_main is
    calling,                  \* send_packet saw a client and calls ble_send
    congested, news,          \* the stack, and what it has not told yet
    client,                   \* what the client puts together, and what it has not looked at
    messages, links, congestions, faults,
    got, received,            \* history: the last message the client got, the ids of all
    headLost,                 \* history: a head was refused since the client's last
    shrunk,                   \* history: the MTU was reset since a message was taken
    lost                      \* history: messages dropped, refused or cut

queueing == <<spp_send_queue, calling, messages>>
task     == <<sending, data, data_pos, pack_size, chunk_num>>
gatt     == <<room, enable_data_ntf, is_connected, handling, links>>
stack    == <<congested, news, congestions>>
stopping == <<ble_run_tasks, main>>
history  == <<got, received, headLost>>
vars == <<queueing, task, gatt, stack, stopping, ble_congested, client, faults,
          history, shrunk, lost>>

Nothing == [data |-> <<>>, next |-> 0, rest |-> <<>>]

Init ==
    /\ ble_run_tasks = TRUE /\ spp_send_queue = <<>> /\ ble_congested = FALSE
    /\ room = DefaultRoom /\ enable_data_ntf = FALSE /\ is_connected = FALSE
    /\ handling = "wait" /\ sending = "loop" /\ main = "running"
    /\ data = <<>> /\ data_pos = 0 /\ pack_size = 0 /\ chunk_num = 0
    /\ calling = FALSE /\ congested = FALSE /\ news = FALSE
    /\ client = Nothing
    /\ messages = 0 /\ links = 0 /\ congestions = 0 /\ faults = 0
    /\ got = <<>> /\ received = {}
    /\ headLost = FALSE /\ shrunk = FALSE /\ lost = {}

Fault == faults < MaxFaults /\ faults' = faults + 1

Message(id, size) == [id |-> id, size |-> size]
Sentinel == Message(0, 0)     \* ble_server_stop's: only its buffer is set

\* A message behind its header.
Packet(m) == [k \in 1..(HeaderSize + m.size) |-> [id |-> m.id, place |-> k, size |-> m.size]]

IdsIn(bytes) == {bytes[k].id : k \in DOMAIN bytes}

-----------------------------------------------------------------------------
(* The client.  A packet it can use begins with a header and is as long as *)
(* the header says; it takes a notification apart from the front.          *)
Length(bytes) == HeaderSize + bytes[1].size

ClientGets(bytes) == got' = bytes /\ received' = received \cup {bytes[1].id}

ClientWaits == UNCHANGED <<got, received>>

ClientTakesHead(bytes) ==
    /\ headLost' = FALSE /\ ClientWaits
    /\ client' = IF Length(bytes) > Len(bytes)
                 THEN [data |-> bytes, next |-> 1, rest |-> <<>>]
                 ELSE [Nothing EXCEPT !.rest = bytes]

ClientTakesPart(number, bytes) ==
    /\ UNCHANGED headLost
    /\ LET all == client.data \o bytes
           expected == client.next # 0 /\ number = client.next
       IN \/ /\ expected /\ Len(all) = Length(all)
             /\ client' = Nothing /\ ClientGets(all)
          \/ /\ expected /\ Len(all) < Length(all)
             /\ client' = [client EXCEPT !.data = all, !.next = number + 1] /\ ClientWaits
          \/ /\ ~(expected /\ Len(all) <= Length(all))
             /\ client' = Nothing /\ ClientWaits

ClientTakesWhole(bytes) ==
    /\ client' = [Nothing EXCEPT !.rest = bytes]
    /\ UNCHANGED headLost /\ ClientWaits

ClientReady == client.rest = <<>>

ClientReads ==
    /\ ~ClientReady
    /\ LET rest == client.rest
           whole == rest[1].place = 1 /\ Length(rest) <= Len(rest)
       IN \/ /\ whole /\ ClientGets(SubSeq(rest, 1, Length(rest)))
             /\ client' = [client EXCEPT !.rest = SubSeq(rest, Length(rest) + 1, Len(rest))]
          \/ ~whole /\ client' = Nothing /\ ClientWaits
    /\ UNCHANGED <<queueing, task, gatt, stack, stopping, ble_congested, faults, headLost,
                   shrunk, lost>>

(* esp_ble_gatts_send_indicate: the notification reaches the client or is  *)
(* refused.  Nothing but a lost link depends on when a client reads, so it *)
(* is waited for.                                                          *)
Accepts == is_connected /\ ~congested

Refused(head) ==
    /\ lost' = lost \cup IdsIn(data)
    /\ headLost' = (headLost \/ head)
    /\ UNCHANGED <<client, got, received>>

-----------------------------------------------------------------------------
(* send_packet and ble_send, from any task.  A malloc that fails in         *)
(* ble_send ends the program, and is left out.                             *)
SendPacket ==
    /\ ~calling /\ is_connected /\ messages < MaxMessages
    /\ calling' = TRUE
    /\ UNCHANGED <<spp_send_queue, messages, task, gatt, stack, stopping, ble_congested,
                   client, faults, history, shrunk, lost>>

\* Wrong: the message jumps the queue.
QueuedFirst(m) == <<m>> \o spp_send_queue

Queued(m) == Append(spp_send_queue, m)

BleSends(size) ==
    /\ calling /\ calling' = FALSE
    /\ messages' = messages + 1
    /\ IF Len(spp_send_queue) < QueueSize
       THEN spp_send_queue' = Queued(Message(messages + 1, size)) /\ UNCHANGED lost
       ELSE UNCHANGED spp_send_queue /\ lost' = lost \cup {messages + 1}
    /\ UNCHANGED <<task, gatt, stack, stopping, ble_congested, client, faults, history, shrunk>>

-----------------------------------------------------------------------------
(* send_task.                                                              *)
Goes(from, to) == sending = from /\ sending' = to

\* Wrong: does not look whether the server is stopping.
SendLoopAlways ==
    /\ Goes("loop", "receive")
    /\ UNCHANGED <<queueing, data, data_pos, pack_size, chunk_num, gatt, stack, stopping,
                   ble_congested, client, faults, history, shrunk, lost>>

SendLoop ==
    /\ Goes("loop", IF ble_run_tasks THEN "receive" ELSE "stopped")
    /\ UNCHANGED <<queueing, data, data_pos, pack_size, chunk_num, gatt, stack, stopping,
                   ble_congested, client, faults, history, shrunk, lost>>

\* The queue is empty for TIMEOUT_LONG.
ReceiveTimesOut ==
    /\ spp_send_queue = <<>> /\ Goes("receive", "loop")
    /\ UNCHANGED <<queueing, data, data_pos, pack_size, chunk_num, gatt, stack, stopping,
                   ble_congested, client, faults, history, shrunk, lost>>

\* The message is dropped if the server is stopping or nobody listens.
SendReceives ==
    /\ spp_send_queue # <<>>
    /\ spp_send_queue' = Tail(spp_send_queue)
    /\ LET used == ble_run_tasks /\ enable_data_ntf
       IN /\ Goes("receive", IF used THEN "congestion" ELSE "loop")
          /\ data' = IF used THEN Packet(Head(spp_send_queue)) ELSE <<>>
          /\ lost' = IF used THEN lost ELSE lost \cup {Head(spp_send_queue).id}
    /\ shrunk' = FALSE
    /\ UNCHANGED <<calling, messages, data_pos, pack_size, chunk_num, gatt, stack, stopping,
                   ble_congested, client, faults, history>>

\* Wrong: waits as long as the stack is congested.
TakesCongestedWaits ==
    /\ ble_congested /\ Goes("congestion", "give")
    /\ ble_congested' = FALSE
    /\ UNCHANGED <<queueing, data, data_pos, pack_size, chunk_num, gatt, stack, stopping,
                   client, faults, history, shrunk, lost>>

(* xSemaphoreTake(ble_congested), for BLE_CONGESTION_MAX at most: taken or *)
(* not, it is not there afterwards.  Then xSemaphoreGive in either case.   *)
TakesCongested ==
    /\ Goes("congestion", "give")
    /\ ble_congested' = FALSE
    /\ UNCHANGED <<queueing, data, data_pos, pack_size, chunk_num, gatt, stack, stopping,
                   client, faults, history, shrunk, lost>>

GivesCongested ==
    /\ ble_congested' = TRUE
    /\ \/ Goes("give", "pack") /\ UNCHANGED <<data, faults, lost>>
       \/ Goes("give", "stopped") /\ Fault /\ data' = <<>> /\ lost' = lost \cup IdsIn(data)
    /\ UNCHANGED <<queueing, data_pos, pack_size, chunk_num, gatt, stack, stopping,
                   client, history, shrunk>>

(* Other messages are added while one more header fits; the wait for the   *)
(* next one ends after ble_delay_multi.                                    *)
MayAdd == Len(data) < room - HeaderSize

FitsToo(m) == HeaderSize + m.size + Len(data) <= room

PackAdds ==
    /\ sending = "pack" /\ MayAdd
    /\ spp_send_queue # <<>> /\ Head(spp_send_queue) # Sentinel
    /\ FitsToo(Head(spp_send_queue))
    /\ spp_send_queue' = Tail(spp_send_queue)
    /\ \/ /\ data' = data \o Packet(Head(spp_send_queue))
          /\ UNCHANGED <<sending, faults, lost>>
       \/ /\ Fault /\ sending' = "choose"
          /\ lost' = lost \cup {Head(spp_send_queue).id}
          /\ UNCHANGED data
    /\ UNCHANGED <<calling, messages, data_pos, pack_size, chunk_num, gatt, stack, stopping,
                   ble_congested, client, history, shrunk>>

(* ble_server_stop's message has no length that was ever set and no data.  *)
(* What the stack held may be too large to add, or nothing; else the copy  *)
(* reads from address 0 and the chip restarts.                             *)
PackMeetsSentinel ==
    /\ sending = "pack" /\ MayAdd
    /\ spp_send_queue # <<>> /\ Head(spp_send_queue) = Sentinel
    /\ \/ sending' = "choose" /\ UNCHANGED <<data, spp_send_queue>>
       \/ /\ FitsToo(Sentinel) /\ UNCHANGED sending
          /\ data' = data \o Packet(Sentinel)
          /\ spp_send_queue' = Tail(spp_send_queue)
       \/ sending' = "crashed" /\ UNCHANGED <<data, spp_send_queue>>
    /\ UNCHANGED <<calling, messages, data_pos, pack_size, chunk_num, gatt, stack, stopping,
                   ble_congested, client, faults, history, shrunk, lost>>

PackEnds ==
    /\ Goes("pack", "choose")
    /\ \/ ~MayAdd \/ spp_send_queue = <<>>
       \/ spp_send_queue # <<>> /\ ~FitsToo(Head(spp_send_queue))
    /\ UNCHANGED <<queueing, data, data_pos, pack_size, chunk_num, gatt, stack, stopping,
                   ble_congested, client, faults, history, shrunk, lost>>

SendWhole ==
    /\ ClientReady /\ Len(data) <= room /\ Goes("choose", "loop")
    /\ data' = <<>>
    /\ IF Accepts THEN ClientTakesWhole(data) /\ UNCHANGED lost ELSE Refused(FALSE)
    /\ UNCHANGED <<queueing, data_pos, pack_size, chunk_num, gatt, stack, stopping,
                   ble_congested, faults, shrunk>>

(* The first chunk, its header marked with BLE_COMMAND_FLAG_SPLIT_PK.  The *)
(* MTU is read once here, and twice in the code, with no lock between.  If *)
(* the MTU shrank after packing, the client does without the rest.         *)
SendHead ==
    /\ ClientReady /\ Len(data) > room /\ Goes("choose", "parts")
    /\ pack_size' = room /\ data_pos' = room /\ chunk_num' = 1
    /\ IF Accepts
       THEN /\ ClientTakesHead(SubSeq(data, 1, room))
            /\ lost' = IF shrunk THEN lost \cup IdsIn(data) ELSE lost
       ELSE Refused(TRUE)
    /\ UNCHANGED <<queueing, data, gatt, stack, stopping, ble_congested, faults, shrunk>>

SendHeadFails ==
    /\ Len(data) > room /\ Goes("choose", "stopped")
    /\ Fault /\ data' = <<>> /\ lost' = lost \cup IdsIn(data)
    /\ UNCHANGED <<queueing, data_pos, pack_size, chunk_num, gatt, stack, stopping,
                   ble_congested, client, history, shrunk>>

Lesser(a, b) == IF a < b THEN a ELSE b

PartLength == Lesser(Len(data) - data_pos, pack_size - PartSize)

SendPart ==
    /\ ClientReady /\ sending = "parts"
    /\ data_pos' = data_pos + PartLength /\ chunk_num' = chunk_num + 1
    /\ IF data_pos' < Len(data) THEN UNCHANGED <<sending, data>>
       ELSE sending' = "loop" /\ data' = <<>>
    /\ IF Accepts
       THEN /\ ClientTakesPart(chunk_num, SubSeq(data, data_pos + 1, data_pos'))
            /\ UNCHANGED lost
       ELSE Refused(FALSE)
    /\ UNCHANGED <<queueing, pack_size, gatt, stack, stopping, ble_congested, faults, shrunk>>

SendTask ==
    \/ SendLoop \/ SendReceives \/ TakesCongested \/ GivesCongested
    \/ PackAdds \/ PackMeetsSentinel \/ PackEnds
    \/ SendWhole \/ SendHead \/ SendHeadFails \/ SendPart

-----------------------------------------------------------------------------
(* The Bluetooth task: gatts_profile_event_handler.                        *)
Connects ==
    /\ handling = "wait" /\ main = "running" /\ ~is_connected /\ links < MaxLinks
    /\ is_connected' = TRUE /\ links' = links + 1
    /\ ble_congested' = TRUE
    /\ UNCHANGED <<queueing, task, room, enable_data_ntf, handling, stack, stopping, client,
                   faults, history, shrunk, lost>>

MtuChanges(n) ==
    /\ is_connected /\ room = DefaultRoom
    /\ room' = n
    /\ UNCHANGED <<queueing, task, enable_data_ntf, is_connected, handling, links, stack,
                   stopping, ble_congested, client, faults, history, shrunk, lost>>

Subscribes ==
    /\ is_connected
    /\ enable_data_ntf' = ~enable_data_ntf
    /\ UNCHANGED <<queueing, task, room, is_connected, handling, links, stack, stopping,
                   ble_congested, client, faults, history, shrunk, lost>>

\* bridge_disconnect is called before the MTU is reset.
Disconnects ==
    /\ is_connected /\ ~news /\ handling = "wait"
    /\ is_connected' = FALSE /\ enable_data_ntf' = FALSE /\ handling' = "reset"
    /\ congested' = FALSE /\ client' = Nothing
    /\ lost' = lost \cup IdsIn(client.data) \cup IdsIn(client.rest)
    /\ UNCHANGED <<queueing, task, room, links, news, congestions, stopping, ble_congested,
                   faults, history, shrunk>>

ResetsMtu ==
    /\ handling = "reset" /\ handling' = "wait"
    /\ room' = DefaultRoom /\ shrunk' = TRUE
    /\ UNCHANGED <<queueing, task, enable_data_ntf, is_connected, links, stack, stopping,
                   ble_congested, client, faults, history, lost>>

(* The stack is congested, or no longer; the event that says so comes      *)
(* later.  The handler waits one tick for the semaphore: taken or not, it  *)
(* is not there afterwards, unless send_task gives it back.                *)
Congests ==
    /\ is_connected /\ ~news
    /\ \/ ~congested /\ congestions < MaxCongestions /\ congestions' = congestions + 1
       \/ congested /\ UNCHANGED congestions
    /\ congested' = ~congested /\ news' = TRUE
    /\ UNCHANGED <<queueing, task, gatt, stopping, ble_congested, client, faults, history,
                   shrunk, lost>>

HandlesCongest ==
    /\ news /\ news' = FALSE
    /\ ble_congested' = ~congested
    /\ UNCHANGED <<queueing, task, gatt, congested, congestions, stopping, client, faults,
                   history, shrunk, lost>>

-----------------------------------------------------------------------------
(* app_main: once no client is connected, ble_server_stop.                 *)
StopWaits ==
    /\ main = "running" /\ main' = "wait"
    /\ UNCHANGED <<queueing, task, gatt, stack, ble_run_tasks, ble_congested, client, faults,
                   history, shrunk, lost>>

StopForbids ==
    /\ main = "wait" /\ ~is_connected
    /\ main' = "queue" /\ ble_run_tasks' = FALSE
    /\ UNCHANGED <<queueing, task, gatt, stack, ble_congested, client, faults, history,
                   shrunk, lost>>

StopQueues ==
    /\ main = "queue" /\ Len(spp_send_queue) < QueueSize
    /\ main' = "join"
    /\ spp_send_queue' = Append(spp_send_queue, Sentinel)
    /\ UNCHANGED <<calling, messages, task, gatt, stack, ble_run_tasks, ble_congested, client,
                   faults, history, shrunk, lost>>

StopJoins ==
    /\ main = "join" /\ sending = "stopped"
    /\ main' = "stopped" /\ spp_send_queue' = <<>>
    /\ UNCHANGED <<calling, messages, task, gatt, stack, ble_run_tasks, ble_congested, client,
                   faults, history, shrunk, lost>>

Stop == StopForbids \/ StopQueues \/ StopJoins

Next ==
    \/ SendPacket \/ \E size \in Sizes : BleSends(size)
    \/ SendTask \/ ReceiveTimesOut \/ ClientReads
    \/ Connects \/ Subscribes \/ Disconnects \/ ResetsMtu
    \/ \E n \in Rooms : MtuChanges(n)
    \/ Congests \/ HandlesCongest
    \/ StopWaits \/ Stop

(* send_task, app_main and the Bluetooth task go on.  The client reads     *)
(* what it gets and owes nothing else; the stack may stay congested.       *)
Fairness ==
    /\ WF_vars(SendTask) /\ WF_vars(Stop) /\ WF_vars(ClientReads)
    /\ WF_vars(ResetsMtu) /\ WF_vars(HandlesCongest)

Spec == Init /\ [][Next]_vars /\ Fairness

-----------------------------------------------------------------------------
(* A message the client gets is one that was queued, whole, with nothing   *)
(* of another in it, and later than those it got before: whatever was      *)
(* refused, whichever MTU came and went in between.  The exception: the    *)
(* head of a split message was refused while the client put another        *)
(* together, which then ends in the wrong parts, since they do not say     *)
(* whose they are.                                                         *)
IsWhole(bytes) == bytes = Packet([id |-> bytes[1].id, size |-> bytes[1].size])

Newest == IF got = <<>> THEN 0 ELSE got[1].id

Mixed == headLost /\ client.next # 0

InOrder == got'[1].id > Newest /\ (IsWhole(got') \/ Mixed)

WholeInOrder == [][got' # got => InOrder]_vars

(* A message given to ble_send reaches the client, unless it was dropped   *)
(* for want of room or of a client, refused by the stack or cut by another *)
(* client's MTU, or the task is gone.                                      *)
ReachesClient ==
    \A id \in 1..MaxMessages :
        (messages >= id) ~> (id \in received \cup lost \/ sending \in {"stopped", "crashed"})

(* ble_server_stop returns, unless the task is gone and has left the queue *)
(* full, or the chip restarted.                                            *)
StopEnds ==
    (main = "queue") ~>
        \/ main = "stopped" \/ sending = "crashed"
        \/ sending = "stopped" /\ Len(spp_send_queue) = QueueSize
=============================================================================
