----------------------------- MODULE UartReceive -----------------------------
(***************************************************************************)
(* Packets received over the UART (uart.c): the driver stores the bytes    *)
(* and queues an event for them, uart_receive_task moves them into the     *)
(* ring buffer uart_buffer and takes out every packet that is complete,    *)
(* and ch_task (connection_handler.c) clears the buffer of a packet that   *)
(* does not go on.  The two tasks meet in uart_buffer_mutex and in         *)
(* ch_uart_packet_timer_sem, which the receive task takes when a packet    *)
(* starts so that the next tick of ch_task does not count.                 *)
(*                                                                         *)
(* A byte is known by its packet, its place in it and the length the       *)
(* packet's header announces; the first byte of a packet, and no other,    *)
(* looks like BLE_HEADER_ID.  The client sends whole packets, as slowly as *)
(* it likes, and may stop anywhere.                                        *)
(***************************************************************************)
EXTENDS Integers, Sequences, SequencesExt

CONSTANTS
    BufferSize,    \* UART_BUFFER_SIZE
    HeaderSize,    \* sizeof(ble_header_t)
    Timeout,       \* TIMEOUT_UARTPACKET
    Lengths,       \* lengths of packets, header included
    FifoSize,      \* bytes of an event
    MaxEvents,     \* bound: events waiting, below UART_QUEUE_SIZE
    MaxPackets,    \* bound: packets in a behaviour
    MaxFaults,     \* bound: hardware overflows and failed mallocs
    None           \* a place of the ring never written

\* The last: a packet the program can use and an event behind it fit the
\* buffer, which leaves 2 kB for the event when packets have at most 6 kB.
ASSUME UartConstants ==
    /\ BufferSize \in Nat \ {0} /\ HeaderSize \in 1..BufferSize
    /\ Timeout \in Nat \ {0}
    /\ FifoSize \in Nat \ {0} /\ MaxEvents \in Nat \ {0}
    /\ MaxPackets \in Nat /\ MaxFaults \in Nat
    /\ Lengths \subseteq Nat /\ \A n \in Lengths : n >= HeaderSize
    /\ \A n \in Lengths : n > BufferSize \/ n + FifoSize <= BufferSize

VARIABLES
    uart_buffer, uart_buffer_pos, uart_buffer_length, uart_packet_started,
    fifo, input,               \* bytes in the hardware and in the driver
    events,                    \* uart_receive_queue
    receiving,                 \* where uart_receive_task is
    ticking,                   \* where ch_task is
    uart_packet_timer,
    ch_uart_packet_timer_sem,
    connected,                 \* uart_connection_timer # 0
    packet, place, length,     \* the last byte the client sent
    faults,
    handed, before,            \* history: the last packet handed over, the one before
    cut,                       \* history: bytes were cleared from the buffer
    unnoticed                  \* history: an overflow event was dropped

ring    == <<uart_buffer, uart_buffer_pos, uart_buffer_length, uart_packet_started>>
handler == <<ticking, uart_packet_timer>>
client  == <<packet, place, length>>
history == <<handed, before, cut, unnoticed>>
vars == <<ring, fifo, input, events, receiving, handler, ch_uart_packet_timer_sem,
          connected, client, faults, history>>

Init ==
    /\ uart_buffer = [k \in 0..(BufferSize - 1) |-> None]
    /\ uart_buffer_pos = 0 /\ uart_buffer_length = 0
    /\ uart_packet_started = FALSE
    /\ fifo = <<>> /\ input = <<>> /\ events = <<>>
    /\ receiving = "wait" /\ ticking = "wait"
    /\ uart_packet_timer = 0 /\ ch_uart_packet_timer_sem = FALSE
    /\ connected = FALSE
    /\ packet = 0 /\ place = 0 /\ length = 0
    /\ faults = 0
    /\ handed = <<>> /\ before = 0
    /\ cut = FALSE /\ unnoticed = FALSE

Fault == faults < MaxFaults /\ faults' = faults + 1

-----------------------------------------------------------------------------
(* The client's next byte: one more of its packet or the first of the next.*)
Byte(p, k, n) == [packet |-> p, place |-> k, length |-> n]

ClientSends(n) ==
    /\ Len(fifo) < FifoSize
    /\ \/ /\ place < length /\ n = length
          /\ place' = place + 1 /\ UNCHANGED <<packet, length>>
       \/ /\ place = length /\ packet < MaxPackets
          /\ packet' = packet + 1 /\ place' = 1 /\ length' = n
    /\ fifo' = Append(fifo, Byte(packet', place', length'))
    /\ UNCHANGED <<ring, input, events, receiving, handler,
                   ch_uart_packet_timer_sem, connected, faults, history>>

(* The driver's interrupt stores what came and reports how much; or the    *)
(* hardware overflowed, and what came is lost.                             *)
Overflow == 0

DriverStores ==
    /\ fifo # <<>> /\ Len(events) < MaxEvents
    /\ fifo' = <<>>
    /\ \/ /\ input' = input \o fifo /\ events' = Append(events, Len(fifo))
          /\ UNCHANGED faults
       \/ /\ Fault
          /\ events' = Append(events, Overflow)
          /\ UNCHANGED input
    /\ UNCHANGED <<ring, receiving, handler, ch_uart_packet_timer_sem, connected,
                   client, history>>

-----------------------------------------------------------------------------
(* The ring buffer.                                                        *)
Lesser(a, b) == IF a < b THEN a ELSE b

Place(k) == (uart_buffer_pos + k) % BufferSize

Content(k) == uart_buffer[Place(k)]

\* uart_buffer_add: what has no room is dropped.
BufferAdd(bytes) ==
    LET size == Lesser(Len(bytes), BufferSize - uart_buffer_length)
        added == {k \in 1..size : TRUE}
    IN /\ uart_buffer' =
              [j \in 0..(BufferSize - 1) |->
                  IF \E k \in added : Place(uart_buffer_length + k - 1) = j
                  THEN bytes[CHOOSE k \in added : Place(uart_buffer_length + k - 1) = j]
                  ELSE uart_buffer[j]]
       /\ uart_buffer_length' = uart_buffer_length + size
       /\ UNCHANGED <<uart_buffer_pos, uart_packet_started>>

\* Wrong: the position is not wrapped.
AfterGetFlat(end) == end

\* uart_buffer_get leaves the position at the end of the array, if that is
\* where the bytes end.
AfterGet(end) == IF end > BufferSize THEN end - BufferSize ELSE end

BufferGet(size) ==
    /\ uart_buffer_pos' = AfterGet(uart_buffer_pos + size)
    /\ uart_buffer_length' = uart_buffer_length - size
    /\ UNCHANGED uart_buffer

BufferClear ==
    /\ uart_packet_started' = FALSE
    /\ uart_buffer_length' = 0 /\ uart_buffer_pos' = 0
    /\ cut' = (cut \/ uart_buffer_length > 0)
    /\ UNCHANGED uart_buffer

-----------------------------------------------------------------------------
(* uart_receive_task.  It keeps uart_buffer_mutex until it waits again.    *)
Unlocked == receiving = "wait"

TakesEvent == receiving = "wait" /\ events # <<>> /\ events' = Tail(events)

TakeData ==
    /\ TakesEvent /\ Head(events) # Overflow
    /\ BufferAdd(SubSeq(input, 1, Head(events)))
    /\ input' = SubSeq(input, Head(events) + 1, Len(input))
    /\ receiving' = "parse"
    /\ UNCHANGED <<fifo, handler, ch_uart_packet_timer_sem, connected, client,
                   faults, history>>

\* Without memory the bytes stay in the driver: from then on every event reads
\* what an earlier one announced.
TakeDataFails ==
    /\ TakesEvent /\ Head(events) # Overflow
    /\ Fault
    /\ UNCHANGED <<ring, fifo, input, receiving, handler,
                   ch_uart_packet_timer_sem, connected, client, history>>

\* Wrong: the packet in the buffer is kept, though bytes of it were lost.
TakeOverflowKeeps ==
    /\ TakesEvent /\ Head(events) = Overflow
    /\ input' = <<>>
    /\ receiving' = "reset"
    /\ UNCHANGED <<ring, fifo, handler, ch_uart_packet_timer_sem, connected,
                   client, faults, history>>

\* uart_flush_input, and after it xQueueReset: what comes in between stays in
\* the driver without its event.
TakeOverflow ==
    /\ TakesEvent /\ Head(events) = Overflow
    /\ BufferClear
    /\ input' = <<>>
    /\ receiving' = "reset"
    /\ UNCHANGED <<fifo, handler, ch_uart_packet_timer_sem, connected, client,
                   faults, handed, before, unnoticed>>

ResetQueue ==
    /\ receiving = "reset" /\ receiving' = "wait"
    /\ events' = <<>>
    /\ unnoticed' = (unnoticed \/ Overflow \in ToSet(events))
    /\ UNCHANGED <<ring, fifo, input, handler, ch_uart_packet_timer_sem, connected,
                   client, faults, handed, before, cut>>

\* uart_buffer_check_header.
IsHeader == Content(0).place = 1

PacketLen == Content(HeaderSize - 1).length

NoPacket ==
    \/ uart_buffer_length = 0
    \/ uart_buffer_length \in 1..(HeaderSize - 1) /\ IsHeader

Garbage ==
    /\ uart_buffer_length > 0
    /\ \/ ~IsHeader
       \/ uart_buffer_length >= HeaderSize /\ PacketLen > BufferSize

PacketBegun == ~NoPacket /\ ~Garbage

\* One round of uart_buffer_parse.  The packet timer starts over when a
\* packet does.
ParseNothing ==
    /\ receiving = "parse" /\ NoPacket
    /\ receiving' = "wait"
    /\ UNCHANGED <<ring, fifo, input, events, handler, ch_uart_packet_timer_sem,
                   connected, client, faults, history>>

ParseGarbage ==
    /\ receiving = "parse" /\ Garbage
    /\ BufferClear
    /\ receiving' = "wait"
    /\ UNCHANGED <<fifo, input, events, handler, ch_uart_packet_timer_sem,
                   connected, client, faults, handed, before, unnoticed>>

PacketStarts ==
    IF uart_packet_started
    THEN UNCHANGED ch_uart_packet_timer_sem
    ELSE ch_uart_packet_timer_sem' = FALSE

ParseBegun ==
    /\ receiving = "parse" /\ PacketBegun /\ uart_buffer_length < PacketLen
    /\ PacketStarts
    /\ uart_packet_started' = TRUE
    /\ receiving' = "wait"
    /\ UNCHANGED <<uart_buffer, uart_buffer_pos, uart_buffer_length, fifo, input,
                   events, handler, connected, client, faults, handed, before,
                   cut, unnoticed>>

\* Wrong: what stands behind the packet waits for the next event.
AfterPacketWaits == "wait"

AfterPacket == "parse"

\* uart_data_received: if no BLE client is connected the packet is used, and
\* the UART counts as connected (ch_reset_uart_timer).
ParseComplete ==
    /\ receiving = "parse" /\ PacketBegun /\ uart_buffer_length >= PacketLen
    /\ PacketStarts
    /\ BufferGet(PacketLen)
    /\ handed' = [k \in 1..PacketLen |-> Content(k - 1)]
    /\ before' = IF handed = <<>> THEN 0 ELSE Last(handed).packet
    /\ connected' \in {connected, TRUE}
    /\ uart_packet_started' = FALSE
    /\ receiving' = AfterPacket
    /\ UNCHANGED <<fifo, input, events, handler, client, faults, cut, unnoticed>>

ParseCompleteFails ==
    /\ receiving = "parse" /\ PacketBegun /\ uart_buffer_length >= PacketLen
    /\ Fault
    /\ PacketStarts
    /\ BufferClear
    /\ receiving' = "wait"
    /\ UNCHANGED <<fifo, input, events, handler, connected, client, handed,
                   before, unnoticed>>

Receives ==
    \/ TakeData \/ TakeOverflow \/ ResetQueue
    \/ ParseNothing \/ ParseGarbage \/ ParseBegun \/ ParseComplete

-----------------------------------------------------------------------------
(* ch_task, once a second.  The UART session may have ended meanwhile.     *)
Tick ==
    /\ ticking = "wait" /\ ticking' = "check"
    /\ connected' \in {connected, FALSE}
    /\ UNCHANGED <<ring, fifo, input, events, receiving, uart_packet_timer,
                   ch_uart_packet_timer_sem, client, faults, handed, before, cut,
                   unnoticed>>

\* Wrong: the timer is set again when it should count.
CountedAgain(t) == Timeout

Counted(t) == IF t > 0 THEN t - 1 ELSE 0

CheckTimer ==
    /\ ticking = "check"
    /\ IF connected /\ ch_uart_packet_timer_sem
       THEN /\ ch_uart_packet_timer_sem' = FALSE
            /\ uart_packet_timer' = Counted(uart_packet_timer)
            /\ ticking' = IF uart_packet_timer' = 0 THEN "clear" ELSE "give"
       ELSE /\ uart_packet_timer' = Timeout
            /\ ticking' = "give"
            /\ UNCHANGED ch_uart_packet_timer_sem
    /\ UNCHANGED <<ring, fifo, input, events, receiving, connected, client, faults,
                   history>>

TimerClears ==
    /\ ticking = "clear" /\ ticking' = "give"
    /\ Unlocked
    /\ BufferClear
    /\ UNCHANGED <<fifo, input, events, receiving, uart_packet_timer,
                   ch_uart_packet_timer_sem, connected, client, faults, handed,
                   before, unnoticed>>

GiveTimer ==
    /\ ticking = "give" /\ ticking' = "wait"
    /\ ch_uart_packet_timer_sem' = TRUE
    /\ UNCHANGED <<ring, fifo, input, events, receiving, uart_packet_timer,
                   connected, client, faults, history>>

Handles == Tick \/ CheckTimer \/ TimerClears \/ GiveTimer

-----------------------------------------------------------------------------
Next ==
    \/ \E n \in Lengths : ClientSends(n)
    \/ DriverStores
    \/ Receives \/ TakeDataFails \/ ParseCompleteFails
    \/ Handles

(* The driver and the two tasks go on; the client need not.                *)
Fairness == WF_vars(DriverStores) /\ WF_vars(Receives) /\ WF_vars(Handles)

Spec == Init /\ [][Next]_vars /\ Fairness

-----------------------------------------------------------------------------
ByteType == [packet : Nat, place : Nat, length : Nat]

(* The ring stays in its array, and a packet is being received only while  *)
(* its header is in the buffer.                                            *)
TypeOK ==
    /\ uart_buffer \in [0..(BufferSize - 1) -> ByteType \cup {None}]
    /\ uart_buffer_pos \in 0..BufferSize /\ uart_buffer_length \in 0..BufferSize
    /\ uart_packet_started \in BOOLEAN
    /\ uart_packet_started => uart_buffer_length >= HeaderSize
    /\ fifo \in Seq(ByteType) /\ input \in Seq(ByteType) /\ events \in Seq(Nat)
    /\ receiving \in {"wait", "parse", "reset"}
    /\ ticking \in {"wait", "check", "clear", "give"}
    /\ uart_packet_timer \in 0..Timeout
    /\ ch_uart_packet_timer_sem \in BOOLEAN /\ connected \in BOOLEAN
    /\ packet \in Nat /\ length \in Nat /\ place \in 0..length /\ faults \in Nat
    /\ handed \in Seq(ByteType) /\ before \in Nat
    /\ cut \in BOOLEAN /\ unnoticed \in BOOLEAN

(* What uart_data_received gets is a packet the client sent, whole, and     *)
(* later than the one before: whatever was lost, cleared or left behind in the driver, *)
(* the parser never puts two packets together.  The exception: a second     *)
(* overflow is reported while the queue is being reset for the first.       *)
Whole(p, n) == [k \in 1..n |-> Byte(p, k, n)]

DeliveredWhole ==
    \/ handed = <<>> \/ unnoticed
    \/ \E p \in (before + 1)..packet, n \in Lengths : handed = Whole(p, n)

(* A packet gets through, unless something was lost or cleared.            *)
GetsThrough ==
    \A p \in 1..MaxPackets :
        (packet = p /\ place = length)
            ~> (cut \/ faults > 0 \/ (handed # <<>> /\ Last(handed).packet >= p))

(* A packet that does not go on is given up: the next one never has to     *)
(* wait behind it, as long as the session lasts.                           *)
StalePacketEnds ==
    (uart_packet_started /\ connected) ~> (~uart_packet_started \/ ~connected)
=============================================================================
