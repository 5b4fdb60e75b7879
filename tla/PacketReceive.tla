---------------------------- MODULE PacketReceive ----------------------------
(***************************************************************************)
(* Packets a client writes (isotp_bridge.c, ble_server.c).  A BLE write    *)
(* carries whole packets, or the head of one too large for it, marked with *)
(* BLE_COMMAND_FLAG_SPLIT_PK, or one of its numbered parts; a prepared     *)
(* write carries a fragment, stored until the write is executed.  What     *)
(* comes goes through packet_received, which puts split packets together   *)
(* and hands each packet to parse_packet, one after the other while it     *)
(* holds isotp_receive_mutex.  The UART's packets take the same way while  *)
(* no BLE client is connected.                                             *)
(*                                                                         *)
(* A packet is known by its header: what it asks, the number in its flags, *)
(* its size, and the way it is written; a byte by its packet and its       *)
(* place.  The first byte of a packet, and no other, looks like            *)
(* BLE_HEADER_ID, and no stored fragment looks like a part, nor does what  *)
(* send_buffered_message finds in its buffer when none was stored.         *)
(* Clients keep to the framing, and split only what does not fit into what *)
(* is left of a write, but leave at any time.                              *)
(***************************************************************************)
EXTENDS Integers, Sequences

CONSTANTS
    HeaderSize,    \* sizeof(ble_header_t)
    PartSize,      \* BLE_PARTIAL_ID and the part's number
    CountMod,      \* split_count is a byte
    Room,          \* bytes of a write
    FragmentRoom,  \* bytes of a prepared write
    BufSize,       \* sizeof(buf) in send_buffered_message
    SettingSizes,  \* the sizes parse_packet takes for each setting
    Asks,          \* what packets ask: [kind, number, size]
    MaxPackets,    \* bound: packets
    MaxLinks,      \* bound: connections
    MaxFaults      \* bound: failed mallocs

ASSUME PacketReceiveConstants ==
    /\ HeaderSize \in Nat \ {0} /\ PartSize \in Nat
    /\ CountMod \in Nat \ {0, 1}
    /\ Room \in Nat /\ Room > HeaderSize /\ Room > PartSize
    /\ FragmentRoom \in Nat \ {0} /\ BufSize \in Nat
    /\ \A s \in DOMAIN SettingSizes : s \in Nat /\ SettingSizes[s] \subseteq Nat
    /\ Asks \subseteq [kind : {"message", "persist", "set", "get"}, number : Nat, size : Nat]
    /\ MaxPackets \in Nat /\ MaxLinks \in Nat /\ MaxFaults \in Nat

VARIABLES
    split_enabled, split_header, split_data, split_count,
    held,                      \* who holds isotp_receive_mutex, and the bytes to come
    persist_mode,              \* persist_enabled()
    settings,                  \* the packet each setting was last set by
    SppRecvDataBuff,           \* the stored fragments, and how much of them fits buf
    is_connected,
    client,                    \* the BLE client: how it writes, and what is left
    uart,                      \* a packet of the UART past its look at BLE
    packets, links, faults,
    parsed,                    \* history: what parse_packet got
    complete,                  \* history: packets handed in to the last byte
    lost,                      \* history: packets something happened to
    asked,                     \* history: settings as what was handed in names them
    spoiled,                   \* history: the fragments are not those of one long write
    headLost                   \* history: a head was lost since the last that came

split    == <<split_enabled, split_header, split_data, split_count>>
effects  == <<persist_mode, settings, parsed>>
handedIn == <<complete, asked>>
stored   == <<SppRecvDataBuff, spoiled>>
history  == <<parsed, complete, lost, asked, spoiled, headLost>>
vars == <<split, held, persist_mode, settings, SppRecvDataBuff, is_connected, client, uart,
          packets, links, faults, history>>

Packet(id, ask, way) ==
    [id |-> id, kind |-> ask.kind, number |-> ask.number, size |-> ask.size, way |-> way]

NoPacket == [id |-> 0, kind |-> "message", number |-> 0, size |-> 0, way |-> "none"]
Nobody == [by |-> "none", bytes |-> <<>>]
Idle == [way |-> "none", packet |-> NoPacket, bytes |-> <<>>, number |-> 0]
NoFragments == [bytes |-> <<>>, fits |-> 0]

Init ==
    /\ split_enabled = FALSE /\ split_header = NoPacket
    /\ split_data = <<>> /\ split_count = 0
    /\ held = Nobody
    /\ persist_mode = FALSE
    /\ settings = [s \in DOMAIN SettingSizes |-> NoPacket]
    /\ SppRecvDataBuff = NoFragments /\ is_connected = FALSE
    /\ client = Idle /\ uart = <<>>
    /\ packets = 0 /\ links = 0 /\ faults = 0
    /\ parsed = <<>> /\ complete = {} /\ lost = {}
    /\ asked = [s \in DOMAIN SettingSizes |-> NoPacket]
    /\ spoiled = FALSE /\ headLost = FALSE

Length(p) == HeaderSize + p.size

Byte(p, k) == [packet |-> p, place |-> k]

Bytes(p) == [k \in 1..Length(p) |-> Byte(p, k)]

From(bytes, n) == SubSeq(bytes, n + 1, Len(bytes))

Payload(p) == From(Bytes(p), HeaderSize)

PacketsIn(bytes) == {bytes[k].packet : k \in DOMAIN bytes}

(* The low bits of cmdFlags: BLE_COMMAND_FLAG_SPLIT_PK is bit 3, which the *)
(* numbers of two settings have as well.                                   *)
Bit3(n) == (n \div 8) % 2 = 1

Flags(p) == IF p.way = "parts" /\ ~Bit3(p.number) THEN p.number + 8 ELSE p.number

Fault == faults < MaxFaults /\ faults' = faults + 1

-----------------------------------------------------------------------------
(* parse_packet: what it does to the settings and to persist mode, and     *)
(* whether the packets behind this one are parsed too.                     *)
\* Wrong: the flag of split packets is taken out of the number.
SettingUnflagged(p) == IF Bit3(Flags(p)) THEN Flags(p) - 8 ELSE Flags(p)

Setting(p) == Flags(p)

\* A size not taken also stands for STMIN with the identifiers of no link.
MaySet(number, size) == number \in DOMAIN SettingSizes /\ size \in SettingSizes[number]

\* A question has no payload.
MayAsk(size) == size = 0

GoesOn(p) ==
    CASE p.kind = "set" -> MaySet(Setting(p), p.size)
      [] p.kind = "get" -> MayAsk(p.size)
      [] p.kind = "persist" -> FALSE
      [] p.kind = "message" -> p.size > 0

PersistAfter(p) ==
    CASE p.kind = "persist" -> TRUE [] p.kind = "message" -> FALSE [] OTHER -> persist_mode

SetBy(p) ==
    IF p.kind = "set" /\ MaySet(Setting(p), p.size) THEN [settings EXCEPT ![Setting(p)] = p]
    ELSE settings

Parses(p, data) ==
    /\ persist_mode' = PersistAfter(p)
    /\ settings' = SetBy(p)
    /\ parsed' = Append(parsed, [header |-> p, data |-> data])

-----------------------------------------------------------------------------
(* packet_received, for a part.                                            *)
SplitClear ==
    /\ split_enabled' = FALSE /\ split_header' = NoPacket
    /\ split_data' = <<>> /\ split_count' = 0

Follows(number) == number = split_count /\ split_data # <<>>

\* A part that does not follow the last one ends the packet.
ReceivePartBad == SplitClear /\ UNCHANGED <<effects, lost, faults>>

\* Wrong: the number is not counted on.
CountedNot(number) == number

Counted(number) == (number + 1) % CountMod

ReceivePart(all) ==
    \/ /\ Fault /\ SplitClear
       /\ lost' = lost \cup {split_header} /\ UNCHANGED effects
    \/ /\ Len(all) < split_header.size
       /\ split_data' = all /\ split_count' = Counted(split_count)
       /\ UNCHANGED <<split_enabled, split_header, effects, lost, faults>>
    \/ /\ Len(all) = split_header.size
       /\ Parses(split_header, all) /\ SplitClear /\ UNCHANGED <<lost, faults>>
    \/ /\ Len(all) > split_header.size
       /\ SplitClear /\ UNCHANGED <<effects, lost, faults>>

\* A part that nobody waits for does not begin like a header.
PartReceived(number, bytes) ==
    \/ ~split_enabled /\ UNCHANGED <<split, effects, lost, faults>>
    \/ split_enabled /\ ~Follows(number) /\ ReceivePartBad
    \/ split_enabled /\ Follows(number) /\ ReceivePart(split_data \o bytes)

-----------------------------------------------------------------------------
(* packet_received, for all else: it takes isotp_receive_mutex, looks at   *)
(* one packet after the other, and gives the mutex back.  The Bluetooth    *)
(* task, or the UART's, is in it meanwhile.                                *)
BluetoothWaits == held.by \in {"none", "uart"}

PacketReceived(by, bytes) ==
    /\ held = Nobody
    /\ held' = [by |-> by, bytes |-> bytes]
    /\ split_enabled' = FALSE /\ UNCHANGED <<split_header, split_data, split_count>>

\* Wrong: the list is not emptied.
FreedNot == SppRecvDataBuff

FreeWriteBuffer == NoFragments

\* send_buffered_message is followed by free_write_buffer.
Releases ==
    /\ held' = Nobody
    /\ IF held.by = "long"
       THEN SppRecvDataBuff' = FreeWriteBuffer /\ spoiled' = FALSE
       ELSE UNCHANGED stored

Arrived == held.bytes
Front == Arrived[1].packet
HeaderComes == held.by # "none" /\ Len(Arrived) >= HeaderSize /\ Arrived[1].place = 1
WholeComes == HeaderComes /\ Length(Front) <= Len(Arrived)
SplitComes == HeaderComes /\ Length(Front) > Len(Arrived) /\ Bit3(Flags(Front))
Behind == From(Arrived, Length(Front))

\* The loop ends behind a packet parse_packet is not content with.
StopsBehind == Releases /\ lost' = lost \cup PacketsIn(Behind)

ParsesNext ==
    /\ WholeComes
    /\ Parses(Front, SubSeq(Arrived, HeaderSize + 1, Length(Front)))
    /\ \/ GoesOn(Front) /\ held' = [held EXCEPT !.bytes = Behind]
          /\ UNCHANGED <<stored, lost, faults>>
       \/ ~GoesOn(Front) /\ StopsBehind /\ UNCHANGED faults
       \/ /\ Front.kind = "message" /\ Front.size > 0
          /\ Fault /\ StopsBehind
    /\ UNCHANGED <<split, is_connected, client, uart, packets, links, handedIn, headLost>>

\* What is left begins a split packet, if its header says so.
BeginsSplit ==
    /\ SplitComes /\ Releases
    /\ \/ /\ split_enabled' = TRUE /\ split_header' = Front
          /\ split_data' = From(Arrived, HeaderSize) /\ split_count' = 1
          /\ UNCHANGED <<lost, faults>>
       \/ Fault /\ SplitClear /\ lost' = lost \cup {Front}
    /\ UNCHANGED <<effects, is_connected, client, uart, packets, links, handedIn, headLost>>

Ends ==
    /\ held.by # "none" /\ ~WholeComes /\ ~SplitComes
    /\ Releases
    /\ UNCHANGED <<split, effects, is_connected, client, uart, packets, links, faults,
                   handedIn, lost, headLost>>

-----------------------------------------------------------------------------
(* The BLE client.  It writes packets that share a write, with the head of *)
(* one too large for what is left of it behind them, or one as a prepared  *)
(* write.  What it hands in names settings: the last packet of each counts. *)
Names(p, s) == p.kind = "set" /\ p.number = s /\ MaySet(s, p.size)

Naming(s, bytes) == {k \in DOMAIN bytes : Names(bytes[k].packet, s)}

Latest(K) == CHOOSE last \in K : \A k \in K : k <= last

HandsIn(bytes) ==
    /\ complete' = complete \cup PacketsIn(bytes)
    /\ asked' = [s \in DOMAIN SettingSizes |->
                    IF Naming(s, bytes) = {} THEN asked[s]
                    ELSE bytes[Latest(Naming(s, bytes))].packet]

ClientAdds(ask) ==
    /\ BluetoothWaits /\ is_connected /\ client.way \in {"none", "write"}
    /\ packets < MaxPackets /\ packets' = packets + 1
    /\ LET bytes == client.bytes \o Bytes(Packet(packets + 1, ask, "write"))
       IN /\ Len(bytes) <= Room
          /\ client' = [Idle EXCEPT !.way = "write", !.bytes = bytes]
    /\ UNCHANGED <<split, held, persist_mode, settings, SppRecvDataBuff, is_connected,
                   uart, links, faults, history>>

ClientWrites ==
    /\ client.way = "write" /\ client' = Idle
    /\ PacketReceived("write", client.bytes) /\ HandsIn(client.bytes)
    /\ UNCHANGED <<effects, stored, is_connected, uart, packets, links, faults, lost, headLost>>

\* The stack may be out of memory and drop the write.  A head has some of the payload.
ClientSplits(ask) ==
    /\ BluetoothWaits /\ is_connected /\ client.way \in {"none", "write"}
    /\ packets < MaxPackets /\ packets' = packets + 1
    /\ LET p == Packet(packets + 1, ask, "parts")
           n == Room - Len(client.bytes)
       IN /\ n > HeaderSize /\ n < Length(p)
          /\ client' = [way |-> "parts", packet |-> p, bytes |-> From(Bytes(p), n), number |-> 1]
          /\ HandsIn(client.bytes)
          /\ \/ /\ PacketReceived("write", client.bytes \o SubSeq(Bytes(p), 1, n))
                /\ headLost' = FALSE /\ UNCHANGED <<lost, faults>>
             \/ /\ Fault /\ lost' = lost \cup PacketsIn(client.bytes) \cup {p}
                /\ headLost' = TRUE /\ UNCHANGED <<split, held>>
    /\ UNCHANGED <<effects, stored, is_connected, uart, links>>

Lesser(a, b) == IF a < b THEN a ELSE b

ClientPart ==
    /\ held = Nobody /\ client.way = "parts"
    /\ LET n == Lesser(Room - PartSize, Len(client.bytes))
           part == SubSeq(client.bytes, 1, n)
           rest == From(client.bytes, n)
       IN /\ client' = IF rest = <<>> THEN Idle
                       ELSE [client EXCEPT !.bytes = rest, !.number = (@ + 1) % CountMod]
          /\ HandsIn(IF rest = <<>> THEN Bytes(client.packet) ELSE <<>>)
          /\ \/ PartReceived(client.number, part)
             \/ Fault /\ lost' = lost \cup {client.packet} /\ UNCHANGED <<split, effects>>
    /\ UNCHANGED <<held, stored, is_connected, uart, packets, links, headLost>>

(* ESP_GATTS_WRITE_EVT of a prepared write: store_wr_buffer keeps the      *)
(* fragment or, for want of memory, does not.  If the node is had and the  *)
(* memory behind it is not, the copy goes through a null pointer: that end *)
(* of the program is left out.                                             *)
ClientPrepares(ask) ==
    /\ BluetoothWaits /\ is_connected /\ client = Idle
    /\ HeaderSize + ask.size > Room
    /\ packets < MaxPackets /\ packets' = packets + 1
    /\ LET p == Packet(packets + 1, ask, "long")
       IN client' = [way |-> "long", packet |-> p, bytes |-> Bytes(p), number |-> 0]
    /\ UNCHANGED <<split, held, persist_mode, settings, SppRecvDataBuff, is_connected,
                   uart, links, faults, history>>

\* send_buffered_message takes the fragments up to the first that does not fit buf.
FitsAfter(n) ==
    IF SppRecvDataBuff.fits = Len(SppRecvDataBuff.bytes) /\ SppRecvDataBuff.fits + n <= BufSize
    THEN SppRecvDataBuff.fits + n ELSE SppRecvDataBuff.fits

StoreFragment ==
    /\ BluetoothWaits /\ client.way = "long" /\ client.bytes # <<>>
    /\ LET n == Lesser(FragmentRoom, Len(client.bytes))
       IN /\ client' = [client EXCEPT !.bytes = From(client.bytes, n)]
          /\ \/ /\ SppRecvDataBuff' =
                       [bytes |-> SppRecvDataBuff.bytes \o SubSeq(client.bytes, 1, n),
                        fits |-> FitsAfter(n)]
                /\ UNCHANGED <<faults, spoiled>>
             \/ Fault /\ spoiled' = TRUE /\ UNCHANGED SppRecvDataBuff
    /\ UNCHANGED <<split, held, effects, is_connected, uart, packets, links, handedIn, lost,
                   headLost>>

Buffered == SubSeq(SppRecvDataBuff.bytes, 1, SppRecvDataBuff.fits)

Execute ==
    /\ client.way = "long" /\ client.bytes = <<>> /\ client' = Idle
    /\ PacketReceived("long", Buffered) /\ HandsIn(Bytes(client.packet))
    /\ lost' = IF spoiled \/ Buffered # SppRecvDataBuff.bytes
               THEN lost \cup {client.packet} ELSE lost
    /\ UNCHANGED <<effects, stored, is_connected, uart, packets, links, faults, headLost>>

(* The client cancels the prepared write, or leaves: the fragments stay.   *)
Leftovers ==
    /\ BluetoothWaits /\ client' = Idle
    /\ spoiled' = (spoiled \/ SppRecvDataBuff.bytes # <<>>)
    /\ UNCHANGED <<split, held, effects, SppRecvDataBuff, uart, packets, links, faults,
                   handedIn, lost, headLost>>

Cancel == client.way = "long" /\ Leftovers /\ UNCHANGED is_connected

Disconnects == is_connected /\ is_connected' = FALSE /\ Leftovers

Connects ==
    /\ BluetoothWaits /\ ~is_connected /\ links < MaxLinks
    /\ is_connected' = TRUE /\ links' = links + 1
    /\ UNCHANGED <<split, held, persist_mode, settings, SppRecvDataBuff, client, uart,
                   packets, faults, history>>

(* uart_data_received: a BLE client may connect after the look and before  *)
(* the packet is parsed.                                                   *)
UartLooks(ask) ==
    /\ held.by # "uart" /\ ~is_connected /\ uart = <<>>
    /\ packets < MaxPackets /\ packets' = packets + 1
    /\ uart' = Bytes(Packet(packets + 1, ask, "uart"))
    /\ UNCHANGED <<split, held, persist_mode, settings, SppRecvDataBuff, is_connected,
                   client, links, faults, history>>

UartReceived ==
    /\ uart # <<>> /\ uart' = <<>>
    /\ PacketReceived("uart", uart) /\ HandsIn(uart)
    /\ lost' = IF split_enabled THEN lost \cup {split_header} ELSE lost
    /\ UNCHANGED <<effects, stored, is_connected, client, packets, links, faults, headLost>>

-----------------------------------------------------------------------------
Next ==
    \/ \E ask \in Asks : ClientAdds(ask) \/ ClientSplits(ask) \/ ClientPrepares(ask)
    \/ ClientWrites \/ ClientPart \/ StoreFragment \/ Execute \/ Cancel
    \/ Connects \/ Disconnects
    \/ \E ask \in Asks : UartLooks(ask)
    \/ UartReceived
    \/ ParsesNext \/ BeginsSplit \/ Ends

Spec == Init /\ [][Next]_vars

-----------------------------------------------------------------------------
Parsed == {parsed[k].header : k \in DOMAIN parsed}

(* What parse_packet gets is a packet a client wrote, whole, and at most   *)
(* once: whatever came between its parts, was lost or left behind.  The    *)
(* exceptions: fragments a client left behind or that could not be stored  *)
(* get into the next prepared write, and a lost head leaves the parts      *)
(* behind it to the packet before.                                         *)
WholeOnce ==
    LET last == parsed'[Len(parsed')]
    IN last.data = Payload(last.header) /\ last.header \notin Parsed

Mixed == IF held.by = "none" THEN headLost ELSE held.by = "long" /\ spoiled

ParsedWhole == [][parsed' # parsed /\ ~Mixed => WholeOnce]_vars

(* A packet handed in to its last byte has been parsed or is about to be,  *)
(* unless an allocation failed, a write was lost, the UART came between    *)
(* its parts, it was too long for the buffer of prepared writes or a       *)
(* packet before it in the same write stopped the loop.                    *)
CompleteIsParsed == complete \subseteq Parsed \cup lost \cup PacketsIn(Arrived)

(* Each setting is the one the last packet handed in that names it asked   *)
(* for, or that packet is about to be parsed or something happened to it,  *)
(* though packets of several senders and ways set it and the flag of split *)
(* packets stays in the number.  The exceptions: a packet in parts whose   *)
(* number lacks that bit sets another setting or none (STMIN in parts      *)
(* turns RAW_SNIFF on), and a mixed packet may set what none asked for.    *)
Misread(p) == p.kind = "set" /\ Flags(p) # p.number

Astray(p) == p # NoPacket /\ (p \notin complete \ lost \/ Misread(p))

SettingsAsAsked ==
    \A s \in DOMAIN SettingSizes :
        \/ settings[s] = asked[s]
        \/ asked[s] \in lost \cup PacketsIn(Arrived)
        \/ Misread(asked[s]) \/ Astray(settings[s])
=============================================================================
