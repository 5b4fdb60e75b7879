# Verification of the ISO-TP / BLE bridge

TLA+ models of the firmware under `src/main`, their TLC configurations and TLAPS
proofs. The firmware runs on an ESP32 under FreeRTOS: a client on Bluetooth LE or on
the UART sends packets, the bridge turns them into ISO-TP messages on one of two CAN
buses (the TWAI controller of the chip, and an MCP2515 for the convenience bus) and
returns the answers.

To check a module, in this directory: `tlc -config persist.cfg MCPersist`. To check a
proof: `tlapm PersistProofs.tla`. `PROJECT.json` lists the runs, and for every modelled
definition the source lines it stands for. A definition marked `Wrong:` is not part of
a specification: it is a plausible bug put beside the definition it replaces, and the
property it must break is named in `PROJECT.json` ("mutants").

## 1. The system

| Part | State | Operations | Talks to |
| --- | --- | --- | --- |
| ISO-TP link (`isotp.c`) | per direction: buffer, size, offset, sequence number, block counter, timers, status | `isotp_send_with_id`, `isotp_on_can_message`, `isotp_receive`, `isotp_poll` | the bus through `isotp_user_send_can`; called by the link tasks under the link's `data_mutex` |
| Link tasks (`isotp_bridge.c`, `isotp_link_containers.c`) | per link: semaphore `wait_for_isotp_data_sem`, `use_conv_can`; one queue of messages | `isotp_send_queue_task`, `isotp_processing_task`, `isotp_start_task`, `isotp_stop_task` | links, CAN tasks, BLE/UART senders |
| CAN (`twai.c`, `mcp2515.c`) | driver queues, bus-off mutex; two receive buffers of the MCP2515 | receive tasks, `twai_send_isotp_message`, `mcp2515_send`, alert task | links; frames of both buses |
| Packets (`isotp_bridge.c`) | the split packet being put together, settings | `packet_received`, `parse_packet`, the settings | every other part |
| Persist (`persist.c`) | a list per slot, position, enabled flag, semaphore | `persist_add`, `persist_clear`, `persist_set`, `persist_send`, `persist_task` | the queue of the link tasks; `bridge_connect`, `bridge_disconnect` |
| BLE (`ble_server.c`) | connection, MTU, congestion, send queue, prepared writes | GATT and GAP handlers, `send_task`, advertising | packets |
| UART (`uart.c`) | ring buffer, `uart_packet_started`, driver events | receive task and parser, send task | packets, connection handler |
| Connection handler (`connection_handler.c`) | UART session timer, packet timer, two semaphores | `ch_task`, `ch_reset_uart_timer` | UART, BLE advertising |
| Lifecycle (`main.c`) | the order of init, start, stop, sleep | `app_main` | all |
| LEDs, settings storage, build files | | | |

What is hard here, and hard to test:

- *ISO-TP*: flow control, blocks, wrap-around of the sequence number, time-outs at both
  ends, frames lost when a queue overflows, and a message given up half-way after which
  the link goes on with the next one.
- *Concurrency*: each link has a sending task, a processing task and two receive tasks.
  The processing task reads two status fields without the lock and then sleeps; the
  route of a message is a field of the container, not of the message; a stop can come
  between any two steps.
- *Packets*: what the client writes comes whole, several to a write, in numbered parts
  or as a prepared write, and is interrupted anywhere; the parts do not name their
  packet, in either direction.
- *The two CAN controllers*: every sender waits at one gate while the bus recovers; the
  MCP2515 is read and written in several SPI transactions, between which it goes on.
- *Sessions*: a client may come or go while its last packet is parsed, and while a
  persist task is between copying and queuing a message. The UART session is counted
  down by one task without the lock the other takes, and each change of the session is
  a flag and a call that no lock joins.
- *Failure*: `malloc` fails, queues are full, `xQueueSend` times out.

Section 3 says which properties answer to which of these; `PROJECT.json` ("hazards")
has the list line by line.

What makes each part correct:

- link: a frame is sent only inside a granted block, later than the separation time,
  in order; a received message is put together only from frames that belong to it and
  never leaves its buffer; end to end, messages arrive whole, in order, at most once.
- link tasks: work in a link never waits for a time-out; a message goes over the bus
  its packet asked for; a stop ends.
- persist: lists stay in their arrays, every message has its turn, and a new client
  inherits nothing from the last one.
- UART: what the parser takes out is one whole packet; a client that stops within a
  packet does not block the ring.
- packets: what is parsed is one packet as it was written, and parsed once; a setting is
  the one its packet named.
- BLE: the client puts together only whole messages, in order; what is not refused gets
  there, and the server can be stopped.
- CAN: every call of the TWAI driver finds the state it needs; a frame of the MCP2515 is
  taken and sent once, or lost in a way that is known; no task waits for ever.
- clients: the bridge can be reached whenever nobody uses it.

## 2. Modules

```
IsoTpSend --------- IsoTpSender ---- MCIsoTpSender      IsoTpSenderProofs
        \
         IsoTpTransfer -- MCIsoTpTransfer --(refines)--> MessageTransfer
        /
IsoTpReceive ------ IsoTpReceiver -- MCIsoTpReceiver    IsoTpReceiverProofs

LinkTasks -- MCLinkTasks        BridgeProofs
Persist -- MCPersist            PersistProofs
PersistPace -- MCPersistPace    PersistProofs
Clients -- MCClients            ClientsProofs
PacketReceive -- MCPacketReceive  BridgeProofs
BleSend -- MCBleSend            DeliveryProofs
UartReceive -- MCUartReceive    DriverProofs
Twai -- MCTwai                  DriverProofs
Mcp2515 -- MCMcp2515            DeliveryProofs
```

**IsoTpSend**, **IsoTpReceive** are the two halves of an `IsoTpLink`: one operator per
branch of the code, with the field names of the struct. The halves share no field, so
they are modelled apart. A byte is known by its message and its position in it, which
makes "the right byte in the right place" something a state can be asked. A deadline is
the time left until it. The branches for a frame that could not be sent are left out:
`isotp_user_send_can` returns `ISOTP_RET_OK` always (`isotp_bridge.c:60`).

**IsoTpSender** sets a sending link against a peer that may send any flow control at
any time; **IsoTpReceiver** feeds a receiving link any frame: all types, sequence
numbers, lengths and announced sizes. In both, messages are abandoned and followed by
others on the same link. `Process` in IsoTpReceiver is one round of
`isotp_processing_task` (`isotp_poll`, then `isotp_receive`): on the receiving half a
time-out and a hand-over exclude each other, so one action has the effect of both.

**IsoTpTransfer** puts the halves at two ends of a bus that keeps the order and may
lose any frame. **MessageTransfer** is the promise: a channel that may drop a message,
never changes, repeats or reorders one. `ImplementsTransfer` is the refinement.

**LinkTasks** has the tasks around one container, step by step between their lock and
queue operations: `isotp_send_queue_task`, `isotp_processing_task` with its unlocked
reads, the frames that `twai.c` and `mcp2515.c` deliver, and `isotp_stop_task`. The
link itself is cut down to two statuses, the frames left to send and whether a block
was granted. ERROR is folded into IDLE: no task tells the two apart.

**Persist** composes the persist tasks, the packet being parsed, the session that
clears the lists from another task and without the packet's mutex, and the queue. The
time a task waits is left out: a task may take any time.

**PersistPace** is that time: one persist task (`persist.c:317-344`), the clock it reads,
cut to 32 bits, and the `next_packet` it counts with. `Wrap` stands for 2^32. A delay is
any up to `MaxDelay` (65 535 ms and as much for each of 64 messages in the BLE queue),
another at every turn; whether the message was queued, how long that took, and when the
semaphore let the task go on are free. `vTaskDelay` counts ticks of 10 ms, the first of
which has begun: it may be short of what it was told by less than two, `Slack`.

**UartReceive** has the receive task and the packet timer of `ch_task` around the ring
buffer. A byte is known by its packet, its place and the length its header announces;
only the first byte of a packet looks like `BLE_HEADER_ID`. The driver is external: it
stores bytes and queues an event for them. Assumed: a packet that fits the ring fits
together with one event (packets of at most 6 kB; the ring has 8 kB and the driver 2),
no packet announces less than its header (`cmdSize` below 65528), and the queue of 96
events has room.

**Clients** has the UART session against BLE connections: `uart_data_received` and
`ch_reset_uart_timer`, the countdown of `ch_task` as a read and a write, and the GATT
handler. Every flag and every call of the stack is a step of its own. The stack is
external and takes calls in the order they are made.

**PacketReceive** takes what a client writes to what `parse_packet` does with it:
`packet_received` with its split packets (`split_enabled`, `split_header`, `split_data`,
`split_count`), the list of prepared fragments of `ble_server.c`, and the parsing loop
with the settings and persist mode. The loop looks at one packet a step while it holds
`isotp_receive_mutex`; `held` is who is in it and the bytes it has not looked at. The
Bluetooth task and the UART's meet at that mutex, so other handlers of the Bluetooth task
wait while it is in the loop, and the UART's steps do not. A packet is known by what it
asks, the number in its flags and its size; a byte by its packet and place. `BufSize` is
the buffer that prepared fragments are gathered in, of which those that do not fit are
left out (`ble_server.c:319`). The clients are external: they keep to the framing of the
protocol, split only what does not fit into what is left of a write, be the head alone
in it or behind other packets, and leave anywhere. They may split any packet: the flag of
split packets stays in the number a setting is looked up by (`isotp_bridge.c:452`), and
`Setting` reads it so. `asked` keeps what was handed in for each setting, by the number
the client meant. The UART's look at BLE (`isotp_bridge.c:768`) and the parsing are two
steps. `PASSWORD_CHECK` is not defined in this build; its branches are left out.

**BleSend** has `ble_send`, `send_task` step by step (loop, receive, wait for
`ble_congested`, give it back, pack, choose, head, parts), the handlers of the Bluetooth
task that change the MTU, the subscription and the semaphore at any time, and
`ble_server_stop`. The stack is external: it delivers in order or refuses, and nobody
looks at the answer. So is the client, which takes a notification apart the way
`packet_received` does, one packet a step, and gets the next when it is done: when a
client reads makes a difference to a lost link only, which may come between two packets.

**Twai** has the gate `twai_bus_off_mutex` between the tasks that send (one for each
link and `twai_receive_task`, each under the `data_mutex` of a link), the alert task that
closes it while the bus recovers, and the stop of all of them in the order of
`app_main`. The driver is external and known by its state, by whether it has a frame and
by its alerts; it has no queue of frames to send, as `twai_init` asks.

**Mcp2515** has the two receive buffers with rollover, the one transmit buffer, and the
tasks that read and write them with one SPI transaction a step, under `s_mutex` where
the code is. A frame is for one link, fixed when it is read, and `mcp2515_rx_task` waits for
the `data_mutex` of that one. The others that send under it are one task for each link:
the mutex admits one. A sender goes by TXB0 or by the gate of `twai_send`, which opens and
closes as it likes (Twai has why), and keeps its `data_mutex` there. Frames are numbered;
what a delivered frame does to a link is LinkTasks'. Left out: senders that hold a
`data_mutex` for a moment and send nothing, and the branch for an interrupt without a flag
(`mcp2515.c:174-176`), which cannot be taken because no other task clears flags.

## 3. Runs

| Run | Properties | What it shows |
| --- | --- | --- |
| `sender` | TypeOK, BlockRespected, WireInOrder, StMinRespected | against any peer, frames keep to blocks, order and separation time, also after an abandoned message |
| `receiver` | TypeOK, InBounds, Assembled, BlocksAcknowledged | fed any frames, the link stays in its buffer, hands over only messages made of frames that continue each other, numbers and all, acknowledges each block once |
| `transfer` | BlockHonoured, ImplementsTransfer, TransferEnds, LastIsDelivered | over a bus that loses frames: whole messages, in order; both ends leave a transfer; and where nothing was lost, every message that fits arrives |
| `tasks` | TypeOK, AwakeForWork, RoutedUnlessDisturbed, WorkIsDone, StopEnds | no sleep on work, no frame count below zero, the route of a message; without a time-out work is done and a stop ends |
| `persist` | TypeOK, TurnInList, SessionStartsClean, OneStraggler, EveryMessageIsSent | packets, sessions, tasks and faults interleaved, two slots on one queue; no stored message is starved by those of its own slot |
| `persist_route` (violation) | RoutedAsAsked | the route of a persist message is never set |
| `uart` | TypeOK, DeliveredWhole, GetsThrough, StalePacketEnds | pieces of any size, lost bytes, failed memory, cleared packets: still only whole packets; packets get through, stale ones end |
| `clients` | TypeOK, ReachableWhenIdle, EndsInSilence, VisibleAgain | the session against BLE connections, in any order |
| `packets` | CompleteIsParsed, SettingsAsAsked, ParsedWhole | writes of all three kinds, interrupted anywhere: only whole packets are parsed, each once; none is forgotten; settings end as they were last asked for, but for numbers the split flag changes |
| `ble_send` | WholeInOrder, ReachesClient, StopEnds | messages through packing, splitting, congestion, MTU changes and a stop |
| `twai` | CallsFindTheirState, TasksGoOn | the bus goes off and recovers under three senders and a stop |
| `mcp2515` | FramesKept, TasksGoOn | frames come between any two SPI transactions while three tasks send on either bus; nobody waits for ever unless the TWAI gate goes on closing or stays closed |

PersistPace is proved and has no run in `PROJECT.json`. `tlc -config persist_pace.cfg
MCPersistPace` checks it on a clock of 8 ms that wraps once (3.3 million states): no wait
is longer than its delay, and a late task makes up for one message and no more (Paced,
NoLongWait). Paced fails there if a task that is behind keeps the moment it should have
sent at, NoLongWait if the wait has no limit.

Bounds, and why they are enough:

- *ISO-TP*: consecutive frames carry 2 or 3 bytes and sequence numbers wrap at 2 or 3,
  so messages of 7 to 12 bytes have a short last frame and an exactly full one, wrap
  the sequence number and need several blocks. Block sizes 0, 1 and 2 are "no limit",
  "every frame" and "ends within the message". Two or three messages in a row are what
  it takes for one to meet what another left behind. The bus loses two frames,
  enough to lose both a frame and the answer to what follows it. In `transfer` both
  buffers hold as much as the size field can count (4096 against 12 bits in the code),
  and the sizes offered are none, a single frame, one that ends within a block, one that
  ends exactly with a frame, and the largest, which cannot be announced.
- *Tasks*: a queue of two, messages of one or two frames, two arrivals: the queue
  gets full, a message is refused within another, frames come in every state of the
  processing task. One stop, at any point.
- *Persist*: two slots of two messages on a queue of one, two payloads, three packets,
  one session, one fault. A message waits behind another with data, behind one without,
  and behind those of the other slot; EveryMessageIsSent fails if the first message is
  always the one to send, without any fault too, and fails without its exception. The
  packets offered (`MCOffered`) are those that tell slots and payloads apart: b is only
  added, and only to slot 0, slot 1 gets one message that competes for the queue. Only
  `persist_route` has both routes: no other property looks at one. The safety properties
  are proved for any number of slots, payloads and packets; EveryMessageIsSent is not.
- *UART*: a ring of six bytes and a header of two: three packets wrap it on reading and
  writing, within a piece and at the exact end; a piece of three bytes holds the end of
  one packet and the start of the next.
  The time-out is 1, as in the code. The exception of DeliveredWhole, an overflow
  while the queue is reset for another, takes two faults and two events, which were
  tried for the invariants alone, and so was a packet larger than the ring.
- *Clients*: a time-out of three ticks tells the last tick from the others, two links
  let one end while the other lasts, two events may wait at once.
- *Packets*: writes hold six bytes, so two short packets share one and a long one takes
  a head and two parts or three fragments; `split_count` wraps at four in place of 256,
  past the parts there are. The buffer of prepared writes holds ten bytes, which is less
  than the longest packet. Three packets are the interrupted one, what interrupts it and
  what follows; two faults lose a part and a head. Setting 1 in parts reads as 9, which
  takes its size, as in the code; 8 has the bit and reads as itself. Without the exception
  for such a number SettingsAsAsked fails here.
- *BLE*: a header of two bytes and room for four, or for seven after the client asked:
  two short messages share a notification, a long one takes up to three. A queue of two
  gets full with three messages; the second link meets what the first one left. One
  congestion begins and ends at any point, one allocation fails.
- *TWAI*: two links and the receive task meet at the gate, with four frames; the bus
  goes off twice, so the second time meets what the first left.
- *MCP2515*: three arrivals are what it takes for an overflow, for the flag-clear race
  and for RXB1 to be overtaken; the links begin to send until a frame has gone, so both
  may, and the receive task answers each arrival: up to five frames, enough for one to be
  loaded over one pending and to go twice. `TasksGoOn` fails without its exception.

`CHECK_DEADLOCK FALSE` is set where a behaviour ends when its bounded packets, frames
or messages are used up and nothing is left to do.

### Fairness

Only what the scheduler gives: a task that can go on does (weak fairness of the task,
all of its steps together). Clients, cars, losses and faults owe nothing. In
`LinkTasks` the time-outs of `xSemaphoreTake` and `xQueueReceive` are actions without
fairness, so what is shown to happen happens because a task is woken; a processing task
that polls again and again does so past the separation time in the end, and sends. In
`IsoTpTransfer` the bus delivers and time passes. `EveryMessageIsSent` asks that
persist mode stays on and excepts a slot that never finds room in the queue because
another's messages go on taking it: a task looks for room and sleeps if there is none
(`persist.c:251`), so nothing makes the two take turns; `GetsThrough` and `StalePacketEnds`
need the driver and both tasks. In `BleSend` the client owes nothing and the stack may
stay congested for good: `send_task` waits for `ble_congested` 5 s at most, so the end
of that wait is its own step. In `Twai` the bus that is being recovered does recover, a
frame goes out while the bus runs, and the time-out of `twai_read_alerts` is fair,
because nothing else wakes the alert task for `twai_stop_task`; the time-out of its
wait for the gate is not. In `Mcp2515` only the tasks are fair: nothing needs the
controller to send, and TWAI's gate owes nothing: TasksGoOn speaks of behaviours in which
it is open in the end.

## 4. What is proved

TLAPS, for every value of the constants that satisfies the named assumptions (those of
PersistPace, `PaceConstants`, are a hypothesis of its theorems):

| Module | Theorem | Property |
| --- | --- | --- |
| IsoTpSenderProofs | SenderTypeCorrect, SenderKeepsOrder, SenderRespectsBlocks, SenderRespectsStMin | TypeOK, WireInOrder, BlockRespected, StMinRespected |
| IsoTpReceiverProofs | ReceiverTypeCorrect, ReceiverInBounds, ReceiverAssembles, ReceiverAcknowledges | TypeOK, InBounds, Assembled, BlocksAcknowledged |
| IsoTpTransferProofs | TransferKeepsPromise, TransferHonoursBlocks | ImplementsTransfer, BlockHonoured |
| PersistProofs | PersistTypeCorrect, PersistTurnInList, PersistSessionStartsClean, PersistOneStraggler | TypeOK, TurnInList, SessionStartsClean, OneStraggler |
| PersistProofs, on PersistPace | PaceIsKept, PaceHasNoLongWait | (Paced, NoLongWait) |
| BridgeProofs, on LinkTasks | TasksTypeCorrect, ProcessingStaysAwake, RouteKept | TypeOK, AwakeForWork, RoutedUnlessDisturbed |
| BridgeProofs, on PacketReceive | TypesHold, ParsedWholeHolds, CompleteIsParsedHolds, SettingsAsAskedHolds | (TypeInv), ParsedWhole, CompleteIsParsed, SettingsAsAsked |
| ClientsProofs | ClientsTypeCorrect, IdleIsReachable, SessionEndsInSilence | TypeOK, ReachableWhenIdle, EndsInSilence |
| DriverProofs | UartTypes, UartDeliversWhole, DriverCallsAreLegal | TypeOK, DeliveredWhole, CallsFindTheirState |
| DeliveryProofs, on Mcp2515 | FramesAreKept | FramesKept |
| DeliveryProofs, on BleSend | MessagesArriveWhole | WholeInOrder |

The inductive invariants, and why they are needed:

- *Sender*. `TypeInv` adds to TypeOK what the size arithmetic needs (a message in
  progress has data left). `OrderInv` ties the last frame on the wire to `send_offset`
  and `send_sn`. `BlockInv` is a budget: the frames sent since the last grant and
  `send_bs_remain` make its block size. `GapInv` relates the separation timer to the
  time since the last frame.
- *Receiver*. Bytes received and bytes missing make the announced size, which fits.
  `FilledInv` says of every byte received which part it is from and that the next part's
  place is where the offset stands; `CountInv` that whole blocks, one grant behind each,
  and what `receive_bs_count` has counted down of the next make the frames received.
  Both rest on one lemma about `\div`, so they hold for every frame and block size.
  `NumberInv` ties the sequence numbers of the parts, and the one waited for, to their
  count.
- *Transfer*. The two links and the bus together, for every number of messages and
  losses. `WireInv`, `LastInv` and `PhaseInv` say what the bus can hold: consecutive
  frames of one message first, each at the place after the one before, the last where
  the sender stands; then what begins later messages, of which a first frame is the last
  and alone with its answer. `CurrentInv`: the buffer holds a message later than any
  delivered and earlier than any that begins on the bus. `ProgressInv` is the heart: the
  next frame comes exactly to its place and the bytes so far are right, or a frame was
  lost, and then the receiver is at least a frame behind and counts more of its block
  than the sender may still send. So a message with a hole never fills up and never
  earns another block; the sequence numbers are not needed for it. What is needed is
  that time passes only while the bus is empty (section 5). StepRefines then maps
  `Offer` and the delivering `ReceiverPoll` to the steps of MessageTransfer, the others
  to none.
- *Persist*. `PacketInv` says what parse_packet has checked at each of its steps,
  `TaskInv` what a persist task holds at each of its, `CalmInv` how far the clearing of
  a session has come and which slots may still queue the copy they hold.
- *PersistPace*. `DueInv` gives `next_packet` the moment it stands for, one that is not
  before the last message and not after the wait; only then can what was cut to 32 bits
  be compared with a time that was. `SecondInv` is Paced for a message that may still
  come. That the cut comparison is right for such a moment is the lemma `NotEarly`: it is
  where "not just before a wrap" is needed.
- *LinkTasks*. `MessageInv` (only real messages reach the link: the uninitialised
  message of the stop is taken only when the tasks must not run), `AwakeInv` (at each
  point of the processing task's two unlocked reads, work it has not seen comes with an
  alarm), `RouteInv` (container, message in progress and history agree).
- *PacketReceive*. The invariant says of the bytes in each place they can be in whose
  they are. `ArrivedInv`: what the loop has not looked at yet is packets one behind the
  other, each whole and none twice; or such packets and the head of the one its client is
  splitting (`HeadHeld`: with what is left to write they are whole); or the beginning of
  one prepared packet. `SenderInv` says the same of what a client is about
  to write, `StoredInv` that the stored fragments and what the client has left make its
  packet, unless they are spoiled. `SplitInv` is a budget: what is gathered of a split
  packet and what is left of it make at most its size, and if they make all of it they are
  its payload; so a missing part can never be made up for. `FreshInv`: nothing under way
  has been parsed. `CompleteInv`: a packet handed in to its last byte is parsed, lost or
  still before the loop, and the parts of one not lost are gathered in order. A step moves
  bytes from the front of one place to the end of another. The loop takes one packet a
  step, as the code does, so there is no induction over the bytes of a write: "packets
  one behind the other" is said place by place, without a recursive definition. `SInv` is
  for the settings alone and needs `IInv`: `LatestInv` says of a packet before the loop
  that names a setting that the last one to name it is behind it, unless it was lost;
  `MixedInv` and `GatheredInv` that mixed fragments, and parts that follow a lost head,
  are never those of a packet that counts as handed in and not lost.
- *Clients*. `AllowInv` and `VisibleInv` say, for a bridge that lets nobody in or
  cannot be seen, which task is about to change that; `SilenceInv` is a budget again:
  timer and passed ticks make the time-out unless the count overtook a packet.
- *UART*. The bytes under way, in the ring, in the driver's queue and in the hardware,
  are one `Stream`. `OrderInv`: it is in the client's order, up to the last byte sent and
  past the packet handed over last. `GapInv`: nothing is missing in it, but for what was
  lost between the driver and the hardware, where an overflow event says so.
  `MarkInv` says which bytes each event announces: the events cut the driver's bytes into
  pieces, and up to the first overflow event none is missing, so the task clears the ring
  before it meets the gap. The pieces' ends are a function that exists, not a sum, so a
  step only has to give the next one. `RoomInv`: a task that takes an event has parsed so
  far that the event's bytes fit. What is said of the stream's order and of missing
  bytes ends when an overflow event is dropped with the queue (`unnoticed`, the exception
  of DeliveredWhole), and is not needed if no packet fits the ring, for then none is
  handed over.
- *TWAI*. `GateInv`: whoever passes the gate or closed it holds it, and while the driver
  recovers or is stopped it is the alert task. `AlertInv`: an alert not acted on is still
  true, and is not raised again meanwhile. `StopInv`: what `app_main` joined has stopped.
- *MCP2515*. `LockInv`: a task between two SPI transactions holds `s_mutex`. `ReadInv`:
  the buffer being read is full, and RXB1 is read only if RXB0 was empty, so what is in
  RXB0 by now is younger. `SendInv`: TXB0 has the frame loaded last, and one that is
  asked for again was loaded over another.
- *BLE sending*. `Flow` says of a notification, of any two of its bytes, that bytes of one
  message agree where it begins and ends, that no other's is between, and that a later
  message is behind an earlier one. Then the packet in front is whole if there are as many
  bytes as its header says, the rest is such a row again (RestFlows), and so is a row of
  whole packets with a later one behind it (JoinFlows). `OrderInv` puts the places a
  message can be in one before the other: what the client has got, what it reads or puts
  together, the notification until its head is sent, the queue. `PartsInv`: a client that
  waits for a part has exactly what was sent before it, or waits for one that is past, or
  a head was refused. `OrderInv` ends when `ble_server_stop` queues its message, which has
  no number; by then no client is connected (`LinkInv`).

They rest on the `ASSUME`s of the modules, which bound constants by what the `#define`s
have (sizes positive, buffers larger than a frame), and TLC evaluates them in each run.

Every invariant and every action property that a run checks is a theorem. Model-checked
only: liveness, which needs ENABLED. Where the code takes a write or a notification apart
in a loop, the models take a step for each packet. So no proof needs an induction over
data, which the provers cannot do; what is said of a row of packets is said of any two of
its bytes.

## 5. Findings, and limits of the code the models show

One disagreement with a document, a violation run: `persist_send` never sets `flags`, so
a persist message's bus is whatever the stack held (`persist.c:273-285`), where
`docs/HARDWARE.md:23` says that flag 0x10 routes a command to the MCP2515
(`persist_route`).

Limits that are exceptions of a property, or assumptions of a module:

*ISO-TP*

- `isotp_send_with_id` accepts 4096 bytes (`isotp.c:245`), a first frame can announce
  4095 (`isotp.h:102`): 4096 is announced as 0 and ignored. LastIsDelivered excepts it.
- `ImplementsTransfer` needs a bus that delivers a flow control before the sender's
  100 ms time-out: time passes in IsoTpTransfer only when the bus is empty and the
  sender has no frame it may send (the task polls without blocking while a transfer is
  in progress, `isotp_bridge.c:157`). Without this, a late flow control taken for the
  next message's, together with a lost first frame, makes a mixed message.
- A whole message is lost if the next single or first frame comes before
  `isotp_processing_task` took it out. MessageTransfer allows the loss.
- A peer that asks for a separation time of 100 ms or more runs into the sender's own
  100 ms time-out (`isotp.c:496-521`): multi-frame messages to it never get through.
- `ISO_TP_DEFAULT_BLOCK_SIZE` is not used; the block size is 0x20 (`isotp.c:481`). A
  multiple of 16, so a lost block of frames cannot be told by its sequence numbers;
  the bus must not lose all of one, which the time-out ensures in IsoTpTransfer.

*Link tasks and persist mode*

- `isotp_send_queue_task` sets the route before it knows whether the link takes the
  message (`isotp_bridge.c:228`): a refused message diverts the rest of the one in
  progress. RoutedUnlessDisturbed excepts it.
- `isotp_stop_task` hangs if the sending task has left and the queue is full
  (`isotp_bridge.c:340`); StopEnds names it.
- A packet still being parsed when its session ends may undo the clearing of the lists.
- Two containers may share an answer's identifier (0x7E8); which one gets it is decided
  by the unlocked `isotp_link_container_id`. No module has more than one container.
- The milliseconds of `persist_task` are cut to 32 bits (`persist.c:321`). Just before
  they wrap, for as long as the delay, `next_packet` has wrapped already and is taken for
  the past: a task whose messages are answered at once sends them without pause. Paced
  excepts those turns. It recovers by itself, and NoLongWait has no exception.
- A persist task that finds the queue full sleeps and looks again (`persist.c:251`), while
  another's messages may take the room each time: EveryMessageIsSent excepts it.

*Clients, UART and packets*

- A UART packet whose header completes between the tick's look at the packet timer and
  its clearing of the buffer (`connection_handler.c:205`) is cleared at once, though
  `uart.c:318` takes the semaphore to restart its time-out.
- After a failed `malloc` for a UART event, or bytes that arrive between the flush and
  the queue reset of an overflow, every later packet lags an event behind.
- A session that opens while another ends may leave the bridge advertising during it,
  and a count may overwrite the timer a packet has just set.
- Prepared fragments stay when the client cancels or leaves (`ble_server.c:558`), and
  whether a fragment was stored is not looked at (552): the next prepared write is
  appended to what is there. ParsedWhole excepts it.
- The flag of split packets is bit 3 of `cmdFlags` and stays in the number a setting is
  looked up by (`isotp_bridge.c:452`). GAP (8) and RAW_SNIFF (9) have the bit. STMIN (1),
  split behind other packets of a write, is read as RAW_SNIFF, which takes any size of at
  least one (555-557); the numbers 2 to 7 are no setting then, so a PASSWORD (528-530) too
  long for its write is ignored. SettingsAsAsked names this exception, and the run
  reaches it.
- `store_wr_buffer` does not look whether the second `malloc` gave it memory
  (`ble_server.c:256-258`): the copy through a null pointer is left out; what PacketReceive
  has is the fragment that is not stored. STMIN for identifiers of no link
  (`isotp_bridge.c:458-477`) ends the loop like a size that is not taken, and is modelled
  as one.
- A prepared write longer than the 4096 bytes of `buf` is cut (`ble_server.c:319`), and
  what is left is not a packet; PacketReceive counts it as lost. If nothing was stored,
  `packet_received` looks at the first byte of a `buf` that was never written. Assumed of
  that byte, and of the first one of a fragment: it does not look like `BLE_PARTIAL_ID`.

*BLE sending*

- A failed `malloc` ends `send_task` for good (`ble_server.c:362`); the queue fills, and
  `ble_server_stop` waits for ever if it is full. The task may meet the message of the
  stop, whose length was never set, while it packs (382).
- A notification packed for a large MTU is split when a disconnect has reset the MTU
  meanwhile, and the client makes only its first message out of it. The end of a
  congestion is learnt an event late, `ble_congested` is given back by `send_task`
  whether it took it or not, and nobody looks at what the stack refused.
- `spp_mtu_size` is read without a lock where `send_task` chooses to split and again where
  it sizes the head (429, 434). BleSend reads it once: an MTU raised between the two, for
  which `send_task` would copy more than the message has, is left out. So is the crash of
  a `malloc` in `ble_send` (764) that fails.
- The parts of a split message do not say whose they are: if the stack refuses the head
  while the client puts another message together, that one gets the wrong parts.

*CAN*

- An alert task stopped while the bus recovers leaves the gate closed: the senders and
  the stop of their tasks hang. TasksGoOn names it. If the alert task does not get the
  gate in time, bus-off is forgotten and the bus stays off.
- A frame that comes to a receive buffer of the MCP2515 between the read, which clears
  the flag, and the second clearing (`mcp2515.c:165-166`) is lost. RXB0 is always read
  first: a frame in RXB1 is overtaken, and waits as long as RXB0 fills again.
- TXB0 is loaded without a look at TXREQ (`mcp2515.c:129`): a frame not sent yet is lost,
  the one loaded over it may go twice.
- A sender at the closed gate of TWAI (`twai.c:236`) keeps the `data_mutex` of its link. A
  frame from the MCP2515 for that link (`isotp_bridge.c:842`) then holds up all that
  follow until the first bus has recovered; if it never does, for good, and
  `mcp2515_stop_task` with them. TasksGoOn of Mcp2515 names it.

Everything about stopping is reachable in the default build, though `ALLOW_SLEEP` is not
defined: setting the GAP name gives the sleep semaphore (`isotp_bridge.c:551`), and
`app_main` then stops every part and goes into deep sleep.

## 6. Not modelled, and the plan

Order of what follows, the most important first:

1. **Containers**: several links, some of which share identifier 0x7E8, and the
   unlocked `isotp_link_container_id`; the link of LinkTasks refined by IsoTpSend.
2. The UART's sending task, and the stops of the UART, the connection handler and
   persist mode, whose tasks are in UartReceive, Clients and Persist without their ends.
3. **Lifecycle** as a whole: the order of initialisation, start and stop in `app_main`
   over abstract parts. Today each stop is in the module of its part.

Left out for good: LEDs and their driver (output only), the wrappers of the settings
storage, build files, the attribute table of the BLE service (registered before a client
can connect), the registers `mcp2515_init` sets, and the password branches, which this
build does not have.
