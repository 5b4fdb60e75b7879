--------------------------- MODULE DeliveryProofs ---------------------------
(***************************************************************************)
(* Proofs about what gets out of the bridge and into it: frames of the     *)
(* second CAN bus (Mcp2515), then messages to a BLE client (BleSend).      *)
(*                                                                         *)
(* For any number of links and frames: what becomes of every frame         *)
(* received and of every frame sent.                                       *)
(*                                                                         *)
(* For any messages and MTUs: a client gets only whole messages, in the    *)
(* order they were queued.  A notification is looked at as a row of bytes  *)
(* each of which knows where its packet begins and ends; what two bytes    *)
(* have to agree on makes the packet in front whole and leaves the rest a  *)
(* row of the same kind, so nothing is said of packets by induction.  The  *)
(* invariant orders the places a message can be in: got, read or gathered  *)
(* by the client, in the notification, in the queue.                       *)
(***************************************************************************)
EXTENDS Mcp2515, BleSend, SequenceTheorems, TLAPS

Places == {"loop", "look", "lock", "flags", "read", "clear", "deliver",
           "take", "gate", "load", "rts", "leave", "stopped"}

TypeInv ==
    /\ rxb \in [Buffers -> Nat] /\ rxif \subseteq Buffers
    /\ txb \in Nat /\ txreq \in BOOLEAN
    /\ arrived \in Nat /\ loaded \in Nat /\ buffer \in Buffers
    /\ doing \in [Tasks -> Places]
    /\ s_mutex \in Tasks \cup {None}

(* A task between two SPI transactions of one piece of work holds s_mutex. *)
Holding == {"flags", "read", "clear", "load", "rts"}

LockInv == \A t \in Tasks : doing[t] \in Holding => s_mutex = t

(* The buffer that is read is full, and RXB1 is read only if RXB0 was      *)
(* empty: what is in RXB0 by now is younger.                               *)
ReadInv ==
    /\ rxif = Buffers => rxb[0] # rxb[1]
    /\ doing[Rx] \in {"lock", "flags"} => rxif # {}
    /\ doing[Rx] = "read" =>
          /\ buffer \in rxif
          /\ buffer = 1 /\ 0 \in rxif => rxb[1] < rxb[0]

ReceiveInv == ReceivedOnce /\ OldestFirst /\ ReadInv

(* The frame in TXB0 is the last one loaded.  If it went out and is asked  *)
(* for again, or is about to be, it was loaded over one pending.           *)
Requesting == \E t \in Tasks : doing[t] = "rts"

SendInv ==
    /\ SentOnce
    /\ txb = loaded
    /\ sent \subseteq 0..loaded
    /\ txreq /\ txb \in sent => txb \in over
    /\ Requesting /\ (txreq \/ txb \in sent) => txb \in over

IInv == TypeInv /\ LockInv /\ ReceiveInv /\ SendInv

-----------------------------------------------------------------------------
LEMMA InitInv == McpInit => IInv
  <1> SUFFICES ASSUME McpInit PROVE IInv
    OBVIOUS
  <1>1. TypeInv
    BY DEF McpInit, TypeInv, Places, Buffers
  <1>2. LockInv
    BY DEF McpInit, LockInv, Holding
  <1>3. ReceiveInv
    BY DEF McpInit, ReceiveInv, ReceivedOnce, OldestFirst, ReadInv, InBuffers, Buffers, Tasks
  <1>4. SendInv
    BY DEF McpInit, SendInv, SentOnce, Requesting
  <1> QED
    BY <1>1, <1>2, <1>3, <1>4 DEF IInv

(* A frame that arrives is in a buffer, or found both full.                *)
LEMMA ArriveStep == IInv /\ FrameArrives => ReceiveInv'
  <1> SUFFICES ASSUME IInv, FrameArrives PROVE ReceiveInv'
    OBVIOUS
  <1> USE DEF IInv, TypeInv, ReceiveInv, FrameArrives, Stored, receive_history, Buffers
  <1>1. /\ arrived' = arrived + 1 /\ arrived \in Nat
        /\ 1..arrived' = (1..arrived) \cup {arrived + 1}
        /\ arrived + 1 \notin 1..arrived
    OBVIOUS
  <1>2. /\ InBuffers \subseteq 1..arrived /\ taken \subseteq 1..arrived
        /\ overflowed \subseteq 1..arrived /\ cleared \subseteq 1..arrived
    BY DEF ReceivedOnce
  <1>3. UNCHANGED <<taken, cleared, doing, buffer>>
    OBVIOUS
  <1>4. CASE rxif = Buffers
    <2>1. InBuffers' = InBuffers /\ overflowed' = overflowed \cup {arrived + 1}
      BY <1>4 DEF InBuffers
    <2>2. ReceivedOnce'
      BY <2>1, <1>1, <1>2, <1>3 DEF ReceivedOnce
    <2> QED
      BY <2>2, <1>3, <1>4 DEF OldestFirst, ReadInv
  <1>5. ASSUME NEW b \in Buffers, b \notin rxif, Stored(b), b = 1 => 0 \in rxif
        PROVE  ReceiveInv'
    <2>1. /\ InBuffers' = InBuffers \cup {arrived + 1} /\ overflowed' = overflowed
          /\ rxif' = rxif \cup {b} /\ rxb' = [rxb EXCEPT ![b] = arrived + 1]
      BY <1>5 DEF InBuffers
    <2>2. ReceivedOnce'
      BY <2>1, <1>1, <1>2, <1>3 DEF ReceivedOnce
    <2>3. \A c \in rxif : rxb[c] \in 1..arrived
      BY <1>2 DEF InBuffers
    <2>4. OldestFirst'
      BY <2>1, <1>1, <1>2, <1>3, <1>5 DEF OldestFirst
    <2>5. ReadInv'
      BY <2>1, <2>3, <1>1, <1>3, <1>5 DEF ReadInv
    <2> QED
      BY <2>2, <2>4, <2>5
  <1> QED
    BY <1>4, <1>5

(* The receive task takes a frame out and clears its flag, twice.          *)
LEMMA RxStep == IInv /\ RxTask => ReceiveInv'
  <1> SUFFICES ASSUME IInv, RxTask PROVE ReceiveInv'
    OBVIOUS
  <1> USE DEF IInv, TypeInv, ReceiveInv, receiving, receive_history, Steps, Tasks, Buffers
  <1>1. ASSUME UNCHANGED <<rxb, rxif, arrived, taken, overflowed, cleared>>
        PROVE  ReceivedOnce' /\ OldestFirst' /\ (rxif = Buffers => rxb[0] # rxb[1])'
    BY <1>1 DEF ReceivedOnce, OldestFirst, InBuffers, ReadInv
  <1>2. CASE RxLoop
    BY <1>1, <1>2 DEF RxLoop, ReadInv
  <1>3. CASE RxLooks
    BY <1>1, <1>3 DEF RxLooks, ReadInv
  <1>4. CASE RxLocks
    BY <1>1, <1>4 DEF RxLocks, ReadInv
  <1>5. CASE RxReadsFlags
    BY <1>1, <1>5 DEF RxReadsFlags, ReadInv, Chosen
  <1>6. CASE RxReads
    <2>1. /\ buffer \in rxif /\ rxif' = rxif \ {buffer} /\ rxb' = rxb
          /\ taken' = taken \cup {rxb[buffer]}
          /\ doing'[Rx] = "clear"
          /\ UNCHANGED <<arrived, overflowed, cleared>>
      BY <1>6 DEF RxReads, ReadInv
    <2>2. /\ InBuffers = InBuffers' \cup {rxb[buffer]}
          /\ rxb[buffer] \notin InBuffers'
      BY <2>1 DEF InBuffers, ReadInv
    <2>3. ReceivedOnce'
      BY <2>1, <2>2 DEF ReceivedOnce
    <2>4. OldestFirst'
      BY <2>1, <1>6 DEF OldestFirst, ReadInv, RxReads
    <2>5. ReadInv'
      BY <2>1 DEF ReadInv
    <2> QED
      BY <2>3, <2>4, <2>5
  <1>7. CASE RxClears
    <2>1. /\ rxif' = rxif \ {buffer} /\ rxb' = rxb
          /\ cleared' = cleared \cup {rxb[b] : b \in rxif \cap {buffer}}
          /\ doing'[Rx] \in {"deliver", "loop"}
          /\ UNCHANGED <<arrived, overflowed, taken>>
      BY <1>7 DEF RxClears, Clear
    <2>2. /\ InBuffers = InBuffers' \cup {rxb[b] : b \in rxif \cap {buffer}}
          /\ InBuffers' \cap {rxb[b] : b \in rxif \cap {buffer}} = {}
      BY <2>1, ZenonT(30) DEF InBuffers, ReadInv
    <2>3. ReceivedOnce'
      BY <2>1, <2>2 DEF ReceivedOnce
    <2> QED
      BY <2>1, <2>3 DEF OldestFirst, ReadInv
  <1>8. CASE RxDelivers
    BY <1>1, <1>8 DEF RxDelivers, ReadInv
  <1> QED
    BY <1>2, <1>3, <1>4, <1>5, <1>6, <1>7, <1>8 DEF RxTask

(* Everything else leaves the received frames alone.                       *)
LEMMA ReceiveStep == IInv /\ [McpNext]_mcp_vars => ReceiveInv'
  <1> SUFFICES ASSUME IInv, [McpNext]_mcp_vars PROVE ReceiveInv'
    OBVIOUS
  <1>1. CASE FrameArrives
    BY <1>1, ArriveStep
  <1>2. CASE RxTask
    BY <1>2, RxStep
  <1>3. ASSUME UNCHANGED receiving,
               doing'[Rx] = doing[Rx] \/ doing'[Rx] \in {"load", "rts", "leave", "loop"}
        PROVE  ReceiveInv'
    BY <1>3 DEF IInv, ReceiveInv, ReceivedOnce, OldestFirst, ReadInv, InBuffers,
                receiving, receive_history
  <1>4. CASE FrameGoes
    BY <1>3, <1>4 DEF FrameGoes
  <1>9. CASE GateMoves
    BY <1>3, <1>9 DEF GateMoves
  <1>5. CASE StopBegins
    BY <1>3, <1>5 DEF StopBegins
  <1>6. ASSUME NEW l \in Links, Begins(l) PROVE ReceiveInv'
    BY <1>3, <1>6, Mcp2515Constants DEF Begins, Steps, IInv, TypeInv, Tasks
  <1>7. ASSUME NEW t \in Tasks, Sends(t) PROVE ReceiveInv'
    BY <1>3, <1>7 DEF Sends, PassesGate, Takes, Loads, Requests, Leaves, Steps, IInv, TypeInv, Tasks
  <1>8. CASE UNCHANGED mcp_vars
    BY <1>3, <1>8 DEF mcp_vars
  <1> QED
    BY <1>1, <1>2, <1>4, <1>5, <1>6, <1>7, <1>8, <1>9 DEF McpNext

-----------------------------------------------------------------------------
(* s_mutex has the holder its name says.                                   *)
LEMMA LockStep == IInv /\ [McpNext]_mcp_vars => TypeInv' /\ LockInv'
  <1> SUFFICES ASSUME IInv, [McpNext]_mcp_vars PROVE TypeInv' /\ LockInv'
    OBVIOUS
  <1> USE DEF IInv, TypeInv, LockInv, Holding
  <1>1. CASE FrameGoes \/ GateMoves \/ StopBegins \/ UNCHANGED mcp_vars
    BY <1>1 DEF FrameGoes, GateMoves, StopBegins, mcp_vars, receiving, transmitting
  <1>5. CASE FrameArrives
    <2>1. UNCHANGED <<txb, txreq, loaded, buffer, doing, s_mutex>>
      BY <1>5 DEF FrameArrives, transmitting
    <2>2. /\ arrived' \in Nat
          /\ (rxb' = rxb /\ rxif' = rxif) \/ \E b \in Buffers : Stored(b)
      BY <1>5 DEF FrameArrives, Buffers
    <2>3. rxb' \in [Buffers -> Nat] /\ rxif' \subseteq Buffers
      BY <2>2 DEF Stored
    <2> QED
      BY <2>1, <2>2, <2>3
  <1>2. CASE RxTask
    <2> USE DEF Steps, Tasks, Places, receiving, transmitting, receive_history, send_history
    <2>1. CASE RxLoop \/ RxLooks \/ RxLocks \/ RxReadsFlags
      BY <2>1, Mcp2515Constants DEF RxLoop, RxLooks, RxLocks, RxReadsFlags, Chosen, Buffers
    <2>2. CASE RxReads
      BY <2>2 DEF RxReads
    <2>3. CASE RxClears
      BY <2>3, Mcp2515Constants DEF RxClears, Clear
    <2>4. CASE RxDelivers
      BY <2>4 DEF RxDelivers
    <2> QED
      BY <1>2, <2>1, <2>2, <2>3, <2>4 DEF RxTask
  <1>3. ASSUME NEW l \in Links, Begins(l) PROVE TypeInv' /\ LockInv'
    BY <1>3 DEF Begins, Steps, Tasks, Places, receiving, transmitting, receive_history, send_history
  <1>4. ASSUME NEW t \in Tasks, Sends(t) PROVE TypeInv' /\ LockInv'
    <2> USE DEF Steps, Places, receiving, transmitting, receive_history, send_history
    <2>1. CASE Takes(t)
      BY <2>1, Mcp2515Constants DEF Takes
    <2>2. CASE Loads(t)
      BY <2>2 DEF Loads
    <2>3. CASE Requests(t)
      BY <2>3, Mcp2515Constants DEF Requests
    <2>4. CASE Leaves(t)
      BY <2>4 DEF Leaves
    <2>5. CASE PassesGate(t)
      BY <2>5 DEF PassesGate
    <2> QED
      BY <1>4, <2>1, <2>2, <2>3, <2>4, <2>5 DEF Sends
  <1> QED
    BY <1>1, <1>2, <1>3, <1>4, <1>5 DEF McpNext

(* What was loaded goes out, once.                                         *)
LEMMA SendStep == IInv /\ [McpNext]_mcp_vars => SendInv'
  <1> SUFFICES ASSUME IInv, [McpNext]_mcp_vars PROVE SendInv'
    OBVIOUS
  <1> USE DEF IInv, TypeInv, SendInv, SentOnce
  <1>1. ASSUME UNCHANGED transmitting,
               \A t \in Tasks : doing'[t] = "rts" <=> doing[t] = "rts"
        PROVE  SendInv'
    BY <1>1 DEF transmitting, send_history, Requesting
  <1>2. CASE FrameArrives \/ GateMoves \/ StopBegins \/ UNCHANGED mcp_vars
    BY <1>1, <1>2 DEF FrameArrives, GateMoves, StopBegins, mcp_vars
  <1>3. CASE RxTask
    BY <1>1, <1>3 DEF RxTask, RxLoop, RxLooks, RxLocks, RxReadsFlags, RxReads, RxClears,
                      Clear, RxDelivers, Steps
  <1>4. ASSUME NEW l \in Links, Begins(l) PROVE SendInv'
    BY <1>1, <1>4 DEF Begins, Steps
  <1>5. CASE FrameGoes
    BY <1>5 DEF FrameGoes, Requesting
  <1>6. ASSUME NEW t \in Tasks, PassesGate(t) \/ Takes(t) \/ Leaves(t) PROVE SendInv'
    BY <1>1, <1>6 DEF PassesGate, Takes, Leaves, Steps
  <1>7. ASSUME NEW t \in Tasks, Loads(t) PROVE SendInv'
    <2>1. ~Requesting
      BY <1>7 DEF Loads, Steps, LockInv, Holding, Requesting
    <2>2. /\ txb' = loaded + 1 /\ loaded' = loaded + 1 /\ doing'[t] = "rts"
          /\ UNCHANGED <<txreq, sent, twice>>
          /\ replaced' = IF txreq THEN replaced \cup {txb} ELSE replaced
          /\ over' = IF txreq THEN over \cup {loaded + 1} ELSE over
      BY <1>7 DEF Loads, Steps
    <2>3. loaded + 1 \notin sent
      OBVIOUS
    <2>4. \A f \in 1..loaded : f \in sent \cup replaced'
      BY <2>1, <2>2 DEF Requesting
    <2>5. SentOnce'
      <3>1. 1..(loaded + 1) = (1..loaded) \cup {loaded + 1}
        OBVIOUS
      <3> QED
        BY <2>2, <2>4, <3>1
    <2> QED
      BY <2>2, <2>3, <2>5 DEF Requesting
  <1>8. ASSUME NEW t \in Tasks, Requests(t) PROVE SendInv'
    <2>1. Requesting
      BY <1>8 DEF Requests, Steps, Requesting
    <2>2. /\ txreq' = TRUE
          /\ UNCHANGED <<txb, loaded, sent, twice, replaced, over>>
      BY <1>8 DEF Requests, send_history
    <2>3. ~Requesting'
      BY <1>8 DEF Requests, Steps, LockInv, Holding, Requesting, Tasks
    <2>4. SentOnce'
      BY <2>2
    <2> QED
      BY <2>1, <2>2, <2>3, <2>4
  <1> QED
    BY <1>2, <1>3, <1>4, <1>5, <1>6, <1>7, <1>8 DEF McpNext, Sends

-----------------------------------------------------------------------------
LEMMA AllInv == McpSpec => []IInv
  <1>1. IInv /\ [McpNext]_mcp_vars => IInv'
    BY LockStep, ReceiveStep, SendStep DEF IInv
  <1> QED
    BY InitInv, <1>1, PTL DEF McpSpec

(* A frame received is taken out once, or lost in one of the two ways the  *)
(* code has; only those of RXB1 are overtaken; a frame sent goes out once, *)
(* unless another was loaded over it or it over another.                   *)
THEOREM FramesAreKept == McpSpec => []FramesKept
  <1>1. IInv => FramesKept
    BY DEF IInv, ReceiveInv, SendInv, FramesKept
  <1> QED
    BY <1>1, AllInv, PTL

-----------------------------------------------------------------------------
(* BleSend.                                                                *)

(* A queue of messages, and bytes of notifications.                        *)
MessageSet == [id : Nat, size : Nat]
ByteSet == [id : Nat, place : Nat, size : Nat]

(* Where the packet of a byte begins in a notification, and where it ends  *)
(* if none of it is missing.                                               *)
Begin(s, i) == i - s[i].place
End(s, i) == Begin(s, i) + HeaderSize + s[i].size

(* Packets one behind the other, the last one perhaps cut: bytes of one    *)
(* message have the same beginning, and between it and the end is no byte  *)
(* of another; a message behind another is later.                          *)
Placed(s, i) == s[i].place >= 1 /\ Begin(s, i) >= 0 /\ i <= End(s, i)

Agree(s, i, k) ==
    /\ s[k].id = s[i].id => s[k].size = s[i].size /\ Begin(s, k) = Begin(s, i)
    /\ i < k => s[i].id <= s[k].id
    /\ Begin(s, i) < k /\ k <= End(s, i) => s[k].id = s[i].id

Flow(s) ==
    /\ \A i \in 1..Len(s) : Placed(s, i)
    /\ \A i, k \in 1..Len(s) : Agree(s, i, k)

Ended(s) == \A i \in 1..Len(s) : End(s, i) <= Len(s)

Above(s, n) == \A i \in 1..Len(s) : s[i].id > n
Below(s, n) == \A i \in 1..Len(s) : s[i].id < n

-----------------------------------------------------------------------------
LEMMA SizeIs == HeaderSize \in Nat /\ HeaderSize >= 1
  BY BleSendConstants

LEMMA ByteIs ==
  ASSUME NEW s \in Seq(ByteSet), NEW i \in 1..Len(s)
  PROVE  /\ s[i] \in ByteSet /\ s[i].id \in Nat /\ s[i].place \in Nat /\ s[i].size \in Nat
         /\ i \in Nat /\ Len(s) \in Nat
         /\ Begin(s, i) \in Int /\ End(s, i) \in Int
         /\ End(s, i) = Begin(s, i) + (HeaderSize + s[i].size)
         /\ HeaderSize + s[i].size \in Nat
  <1>1. s[i] \in ByteSet /\ i \in Nat /\ Len(s) \in Nat
    BY ElementOfSeq, LenProperties
  <1>2. s[i].id \in Nat /\ s[i].place \in Nat /\ s[i].size \in Nat
    BY <1>1 DEF ByteSet
  <1> QED
    BY <1>1, <1>2, SizeIs DEF Begin, End

LEMMA PacketIs ==
  ASSUME NEW m \in MessageSet
  PROVE  /\ m.id \in Nat /\ m.size \in Nat /\ HeaderSize + m.size \in Nat
         /\ HeaderSize + m.size >= 1
         /\ Packet(m) \in Seq(ByteSet) /\ Len(Packet(m)) = HeaderSize + m.size
         /\ \A k \in 1..(HeaderSize + m.size) :
               Packet(m)[k] = [id |-> m.id, place |-> k, size |-> m.size]
  <1>1. m.id \in Nat /\ m.size \in Nat
    BY DEF MessageSet
  <1>. DEFINE n == HeaderSize + m.size
  <1>2. n \in Nat /\ n >= 1
    BY <1>1, SizeIs
  <1>. HIDE DEF n
  <1>. DEFINE s == [k \in 1..n |-> [id |-> m.id, place |-> k, size |-> m.size]]
  <1>3. \A k \in 1..n : [id |-> m.id, place |-> k, size |-> m.size] \in ByteSet
    BY <1>1, <1>2 DEF ByteSet
  <1>4. s \in Seq(ByteSet) /\ Len(s) = n
    BY <1>2, <1>3
  <1>5. \A k \in 1..n : s[k] = [id |-> m.id, place |-> k, size |-> m.size]
    OBVIOUS
  <1>6. Packet(m) = s
    BY DEF Packet, n
  <1>. HIDE DEF s
  <1> QED
    BY <1>1, <1>2, <1>4, <1>5, <1>6 DEF n

(* The first n elements of a sequence, those behind them, and two in a row. *)
LEMMA UpToIs ==
  ASSUME NEW S, NEW s \in Seq(S), NEW n \in 0..Len(s)
  PROVE  /\ SubSeq(s, 1, n) \in Seq(S) /\ Len(SubSeq(s, 1, n)) = n
         /\ \A i \in 1..n : SubSeq(s, 1, n)[i] = s[i]
  <1>1. Len(s) \in Nat /\ n \in Nat /\ n \in Int /\ n <= Len(s)
    BY LenProperties
  <1>2. \A i \in 1..n : s[i] \in S
    BY <1>1, ElementOfSeq
  <1>. DEFINE t == SubSeq(s, 1, n)
  <1>3. /\ t \in Seq(S) /\ Len(t) = IF 1 <= n THEN n - 1 + 1 ELSE 0
        /\ \A i \in 1..(n - 1 + 1) : t[i] = s[1 + i - 1]
    BY <1>1, <1>2, SubSeqProperties
  <1>. HIDE DEF t
  <1>4. Len(t) = n
    BY <1>1, <1>3
  <1>5. \A i \in 1..n : t[i] = s[i]
    BY <1>1, <1>3
  <1> QED
    BY <1>3, <1>4, <1>5 DEF t

LEMMA BehindIs ==
  ASSUME NEW S, NEW s \in Seq(S), NEW n \in 0..Len(s)
  PROVE  /\ SubSeq(s, n + 1, Len(s)) \in Seq(S)
         /\ Len(SubSeq(s, n + 1, Len(s))) = Len(s) - n
         /\ \A i \in 1..(Len(s) - n) : SubSeq(s, n + 1, Len(s))[i] = s[i + n]
  <1>1. Len(s) \in Nat /\ n \in Nat
    BY LenProperties
  <1>2. \A i \in (n + 1)..Len(s) : s[i] \in S
    BY <1>1, ElementOfSeq
  <1>3. n + 1 \in Int /\ Len(s) \in Int
    BY <1>1
  <1>. DEFINE t == SubSeq(s, n + 1, Len(s))
  <1>4. /\ t \in Seq(S)
        /\ Len(t) = IF n + 1 <= Len(s) THEN Len(s) - (n + 1) + 1 ELSE 0
        /\ \A i \in 1..(Len(s) - (n + 1) + 1) : t[i] = s[(n + 1) + i - 1]
    BY <1>2, <1>3, SubSeqProperties
  <1>. HIDE DEF t
  <1>5. Len(t) = Len(s) - n
    BY <1>1, <1>4
  <1>6. \A i \in 1..(Len(s) - n) : t[i] = s[i + n]
    <2> SUFFICES ASSUME NEW i \in 1..(Len(s) - n) PROVE t[i] = s[i + n]
      OBVIOUS
    <2>1. i \in 1..(Len(s) - (n + 1) + 1) /\ (n + 1) + i - 1 = i + n
      BY <1>1
    <2> QED
      BY <2>1, <1>4
  <1> QED
    BY <1>4, <1>5, <1>6 DEF t

LEMMA PartFollows ==
  ASSUME NEW S, NEW s \in Seq(S), NEW n \in 0..Len(s), NEW m \in n..Len(s)
  PROVE  SubSeq(s, 1, n) \o SubSeq(s, n + 1, m) = SubSeq(s, 1, m)
  <1>1. Len(s) \in Nat
    BY LenProperties
  <1>2. 1 \in 1..(Len(s) + 1) /\ n \in (1 - 1)..Len(s) /\ m \in n..Len(s)
    BY <1>1
  <1> QED
    BY <1>2, ConcatAdjacentSubSeq

-----------------------------------------------------------------------------
(* Notifications: nothing, the beginning of one, and one more packet.      *)
LEMMA EmptyFlows ==
  /\ <<>> \in Seq(ByteSet) /\ Len(<<>>) = 0
  /\ Flow(<<>>) /\ Ended(<<>>)
  /\ \A n : Above(<<>>, n) /\ Below(<<>>, n)
  <1>1. <<>> \in Seq(ByteSet) /\ Len(<<>>) = 0
    BY EmptySeq
  <1>2. 1..Len(<<>>) = {}
    BY <1>1
  <1> QED
    BY <1>1, <1>2 DEF Flow, Ended, Above, Below

LEMMA BeginningFlows ==
  ASSUME NEW s \in Seq(ByteSet), Flow(s), NEW n \in 0..Len(s)
  PROVE  Flow(SubSeq(s, 1, n))
  <1>. DEFINE t == SubSeq(s, 1, n)
  <1>1. t \in Seq(ByteSet) /\ Len(t) = n /\ \A i \in 1..n : t[i] = s[i]
    BY UpToIs
  <1>. HIDE DEF t
  <1>2. Len(s) \in Nat /\ n \in Nat /\ n <= Len(s)
    BY LenProperties
  <1>3. \A i \in 1..n : i \in 1..Len(s)
    BY <1>2
  <1>4. \A i \in 1..n : Placed(t, i)
    BY <1>1, <1>3 DEF Flow, Placed, Begin, End
  <1>5. \A i, k \in 1..n : Agree(t, i, k)
    <2> SUFFICES ASSUME NEW i \in 1..n, NEW k \in 1..n PROVE Agree(t, i, k)
      OBVIOUS
    <2>1. Agree(s, i, k) /\ t[i] = s[i] /\ t[k] = s[k]
      BY <1>1, <1>3 DEF Flow
    <2> QED
      BY <2>1 DEF Agree, Begin, End
  <1> QED
    BY <1>1, <1>4, <1>5 DEF Flow, t

(* The packet in front is whole if there are as many bytes as it says.     *)
LEMMA FrontBytes ==
  ASSUME NEW s \in Seq(ByteSet), Flow(s), s # <<>>
  PROVE  /\ 1 \in 1..Len(s) /\ s[1].id \in Nat /\ s[1].size \in Nat
         /\ HeaderSize + s[1].size \in Nat /\ HeaderSize + s[1].size >= 1
         /\ s[1].place = 1 /\ Begin(s, 1) = 0 /\ End(s, 1) = HeaderSize + s[1].size
         /\ \A k \in 1..Len(s) : k <= HeaderSize + s[1].size =>
               s[k] = [id |-> s[1].id, place |-> k, size |-> s[1].size]
  <1>1. Len(s) \in Nat /\ Len(s) >= 1
    BY EmptySeq, LenProperties
  <1>2. 1 \in 1..Len(s)
    BY <1>1
  <1>3. /\ s[1].id \in Nat /\ s[1].place \in Nat /\ s[1].size \in Nat
        /\ HeaderSize + s[1].size \in Nat /\ End(s, 1) = Begin(s, 1) + (HeaderSize + s[1].size)
    BY <1>2, ByteIs
  <1>4. s[1].place >= 1 /\ 1 - s[1].place >= 0 /\ Begin(s, 1) = 1 - s[1].place
    BY <1>2 DEF Flow, Placed, Begin
  <1>5. s[1].place = 1 /\ Begin(s, 1) = 0
    BY <1>3, <1>4
  <1>6. End(s, 1) = HeaderSize + s[1].size /\ HeaderSize + s[1].size >= 1
    BY <1>3, <1>5, SizeIs
  <1>7. ASSUME NEW k \in 1..Len(s), k <= HeaderSize + s[1].size
        PROVE  s[k] = [id |-> s[1].id, place |-> k, size |-> s[1].size]
    <2>1. Agree(s, 1, k)
      BY <1>2 DEF Flow
    <2>2. Begin(s, 1) < k /\ k <= End(s, 1)
      BY <1>5, <1>6, <1>7
    <2>3. s[k].id = s[1].id /\ s[k].size = s[1].size /\ Begin(s, k) = 0
      BY <2>1, <2>2, <1>5 DEF Agree
    <2>4. s[k] \in ByteSet /\ s[k].place \in Nat /\ k \in Nat
      BY ByteIs
    <2>5. s[k].place = k
      BY <2>3, <2>4 DEF Begin
    <2> QED
      BY <2>3, <2>4, <2>5 DEF ByteSet
  <1> QED
    BY <1>2, <1>3, <1>5, <1>6, <1>7

LEMMA FrontIsWhole ==
  ASSUME NEW s \in Seq(ByteSet), Flow(s), s # <<>>, HeaderSize + s[1].size <= Len(s)
  PROVE  LET f == SubSeq(s, 1, HeaderSize + s[1].size)
         IN  f = Packet([id |-> s[1].id, size |-> s[1].size]) /\ f[1] = s[1] /\ f # <<>>
  <1>. DEFINE m == [id |-> s[1].id, size |-> s[1].size]
              n == HeaderSize + s[1].size
              f == SubSeq(s, 1, n)
  <1>1. /\ s[1].id \in Nat /\ s[1].size \in Nat /\ n \in Nat /\ n >= 1 /\ Len(s) \in Nat
        /\ \A k \in 1..Len(s) : k <= n => s[k] = [id |-> m.id, place |-> k, size |-> m.size]
    BY FrontBytes, LenProperties
  <1>2. m \in MessageSet /\ n = HeaderSize + m.size
    BY <1>1 DEF MessageSet
  <1>. HIDE DEF m
  <1>3. /\ Packet(m) \in Seq(ByteSet) /\ Len(Packet(m)) = n
        /\ \A k \in 1..n : Packet(m)[k] = [id |-> m.id, place |-> k, size |-> m.size]
    BY <1>2, PacketIs
  <1>4. n \in 0..Len(s)
    BY <1>1
  <1>. HIDE DEF n
  <1>5. f \in Seq(ByteSet) /\ Len(f) = n /\ \A i \in 1..n : f[i] = s[i]
    BY <1>4, UpToIs
  <1>. HIDE DEF f
  <1>6. \A i \in 1..n : i \in 1..Len(s) /\ i <= n
    BY <1>1, <1>4
  <1>7. \A i \in 1..n : f[i] = Packet(m)[i]
    BY <1>1, <1>3, <1>5, <1>6
  <1>8. f = Packet(m)
    BY <1>3, <1>5, <1>7, SeqEqual
  <1>9. f[1] = s[1] /\ f # <<>>
    BY <1>1, <1>5, EmptySeq
  <1> QED
    BY <1>8, <1>9 DEF f, m, n

LEMMA RestFlows ==
  ASSUME NEW s \in Seq(ByteSet), Flow(s), s # <<>>, HeaderSize + s[1].size <= Len(s)
  PROVE  LET r == SubSeq(s, HeaderSize + s[1].size + 1, Len(s))
         IN  /\ r \in Seq(ByteSet) /\ Flow(r) /\ Above(r, s[1].id)
             /\ \A n \in Nat : Below(s, n) => Below(r, n)
  <1>. DEFINE n == HeaderSize + s[1].size
              r == SubSeq(s, n + 1, Len(s))
  <1>1. /\ 1 \in 1..Len(s) /\ s[1].id \in Nat /\ n \in Nat /\ n >= 1 /\ Len(s) \in Nat
        /\ Begin(s, 1) = 0 /\ End(s, 1) = n
        /\ \A k \in 1..Len(s) : k <= n => s[k].id = s[1].id
    <2>1. /\ 1 \in 1..Len(s) /\ s[1].id \in Nat /\ n \in Nat /\ n >= 1
          /\ Begin(s, 1) = 0 /\ End(s, 1) = n
          /\ \A k \in 1..Len(s) : k <= n => s[k] = [id |-> s[1].id, place |-> k, size |-> s[1].size]
      BY FrontBytes
    <2>. HIDE DEF n
    <2>2. ASSUME NEW k \in 1..Len(s), k <= n PROVE s[k].id = s[1].id
      <3>1. s[k] = [id |-> s[1].id, place |-> k, size |-> s[1].size]
        BY <2>1, <2>2
      <3> QED
        BY <3>1
    <2> QED
      BY <2>1, <2>2, LenProperties
  <1>2. n \in 0..Len(s)
    BY <1>1
  <1>. HIDE DEF n
  <1>3. r \in Seq(ByteSet) /\ Len(r) = Len(s) - n /\ \A i \in 1..(Len(s) - n) : r[i] = s[i + n]
    BY <1>2, BehindIs
  <1>. HIDE DEF r
  <1>4. ASSUME NEW k \in 1..Len(s), k > n
        PROVE  Begin(s, k) >= n /\ s[k].id > s[1].id
    <2>1. /\ Begin(s, k) \in Int /\ End(s, k) \in Int /\ k \in Nat /\ s[k].id \in Nat
          /\ End(s, k) = Begin(s, k) + (HeaderSize + s[k].size)
      BY ByteIs
    <2>2. Begin(s, k) >= 0 /\ k <= End(s, k) /\ Agree(s, 1, k)
      BY <1>1 DEF Flow, Placed
    <2>3. s[k].id # s[1].id
      <3> SUFFICES ASSUME s[k].id = s[1].id PROVE FALSE
        OBVIOUS
      <3>1. s[k].size = s[1].size /\ Begin(s, k) = 0
        BY <2>2, <1>1 DEF Agree
      <3>2. End(s, k) = n
        BY <3>1, <2>1, <1>1 DEF n
      <3> QED
        BY <3>2, <2>1, <2>2, <1>1, <1>4
    <2>4. s[k].id > s[1].id
      <3>1. 1 < k
        BY <1>1, <1>4, <2>1
      <3>2. s[1].id <= s[k].id
        BY <3>1, <2>2 DEF Agree
      <3> QED
        BY <3>2, <2>3, <2>1, <1>1
    <2>5. Begin(s, k) >= n
      <3> SUFFICES ASSUME ~(Begin(s, k) >= n) PROVE FALSE
        OBVIOUS
      <3>. DEFINE j == Begin(s, k) + 1
      <3>1. j \in Int /\ j >= 1 /\ j <= n /\ Begin(s, k) < j
        BY <2>1, <2>2, <1>1
      <3>. HIDE DEF j
      <3>2. j \in 1..Len(s) /\ j <= End(s, k)
        BY <3>1, <2>1, <2>2, <1>1, <1>2, <1>4
      <3>3. Agree(s, k, j)
        BY <3>2 DEF Flow
      <3>4. s[j].id = s[k].id
        BY <3>1, <3>2, <3>3 DEF Agree
      <3>5. s[j].id = s[1].id
        BY <3>1, <3>2, <1>1
      <3> QED
        BY <3>4, <3>5, <2>3
    <2> QED
      BY <2>4, <2>5
  <1>5. ASSUME NEW i \in 1..Len(r)
        PROVE  /\ i + n \in 1..Len(s) /\ i + n > n /\ r[i] = s[i + n] /\ i \in Nat
               /\ Begin(r, i) = Begin(s, i + n) - n /\ End(r, i) = End(s, i + n) - n
               /\ Begin(s, i + n) \in Int /\ End(s, i + n) \in Int
    <2>1. i + n \in 1..Len(s) /\ i + n > n /\ r[i] = s[i + n] /\ i \in Nat
      BY <1>1, <1>2, <1>3
    <2>2. /\ s[i + n].place \in Nat /\ s[i + n].size \in Nat
          /\ Begin(s, i + n) \in Int /\ End(s, i + n) \in Int
      BY <2>1, ByteIs
    <2>3. Begin(r, i) = i - s[i + n].place /\ Begin(s, i + n) = (i + n) - s[i + n].place
      BY <2>1 DEF Begin
    <2>4. Begin(r, i) = Begin(s, i + n) - n
      BY <2>1, <2>2, <2>3, <1>1
    <2>5. /\ End(r, i) = Begin(r, i) + HeaderSize + s[i + n].size
          /\ End(s, i + n) = Begin(s, i + n) + HeaderSize + s[i + n].size
      BY <2>1 DEF End
    <2>6. End(r, i) = End(s, i + n) - n
      <3>. DEFINE x == Begin(s, i + n)
                  z == s[i + n].size
      <3>1. x \in Int /\ z \in Nat /\ n \in Nat /\ HeaderSize \in Nat
        BY <2>2, <1>1, SizeIs
      <3>2. End(r, i) = (x - n) + HeaderSize + z /\ End(s, i + n) = x + HeaderSize + z
        BY <2>4, <2>5
      <3>. HIDE DEF x, z
      <3> QED
        BY <3>1, <3>2
    <2> QED
      BY <2>1, <2>2, <2>4, <2>6
  <1>6. \A i \in 1..Len(r) : Placed(r, i)
    <2> SUFFICES ASSUME NEW i \in 1..Len(r) PROVE Placed(r, i)
      OBVIOUS
    <2>1. /\ i + n \in 1..Len(s) /\ i + n > n /\ r[i] = s[i + n] /\ i \in Nat
          /\ Begin(r, i) = Begin(s, i + n) - n /\ End(r, i) = End(s, i + n) - n
          /\ Begin(s, i + n) \in Int /\ End(s, i + n) \in Int
      BY <1>5
    <2>2. s[i + n].place >= 1 /\ i + n <= End(s, i + n)
      BY <2>1 DEF Flow, Placed
    <2>3. Begin(s, i + n) >= n
      BY <2>1, <1>4
    <2>4. Begin(r, i) >= 0 /\ i <= End(r, i)
      BY <2>1, <2>2, <2>3, <1>1
    <2> QED
      BY <2>1, <2>2, <2>4 DEF Placed
  <1>7. \A i, k \in 1..Len(r) : Agree(r, i, k)
    <2> SUFFICES ASSUME NEW i \in 1..Len(r), NEW k \in 1..Len(r) PROVE Agree(r, i, k)
      OBVIOUS
    <2>1. /\ i + n \in 1..Len(s) /\ r[i] = s[i + n] /\ i \in Nat
          /\ Begin(r, i) = Begin(s, i + n) - n /\ End(r, i) = End(s, i + n) - n
          /\ Begin(s, i + n) \in Int /\ End(s, i + n) \in Int
      BY <1>5
    <2>2. /\ k + n \in 1..Len(s) /\ r[k] = s[k + n] /\ k \in Nat
          /\ Begin(r, k) = Begin(s, k + n) - n /\ Begin(s, k + n) \in Int
      BY <1>5
    <2>3. Agree(s, i + n, k + n)
      BY <2>1, <2>2 DEF Flow
    <2>4. r[k].id = r[i].id => r[k].size = r[i].size /\ Begin(r, k) = Begin(r, i)
      BY <2>1, <2>2, <2>3 DEF Agree
    <2>5. i < k => r[i].id <= r[k].id
      <3>1. i < k => i + n < k + n
        BY <2>1, <2>2, <1>1
      <3> QED
        BY <3>1, <2>1, <2>2, <2>3 DEF Agree
    <2>6. Begin(r, i) < k /\ k <= End(r, i) => r[k].id = r[i].id
      <3>. DEFINE x == Begin(s, i + n)
                  y == End(s, i + n)
      <3>1. x \in Int /\ y \in Int /\ Begin(r, i) = x - n /\ End(r, i) = y - n
        BY <2>1
      <3>. HIDE DEF x, y
      <3>2. x - n < k /\ k <= y - n => x < k + n /\ k + n <= y
        BY <3>1, <2>2, <1>1
      <3>3. Begin(r, i) < k /\ k <= End(r, i) =>
               Begin(s, i + n) < k + n /\ k + n <= End(s, i + n)
        BY <3>1, <3>2 DEF x, y
      <3> QED
        BY <3>3, <2>1, <2>2, <2>3 DEF Agree
    <2> QED
      BY <2>4, <2>5, <2>6 DEF Agree
  <1>8. Above(r, s[1].id)
    BY <1>4, <1>5 DEF Above
  <1>9. \A x \in Nat : Below(s, x) => Below(r, x)
    BY <1>5 DEF Below
  <1> QED
    BY <1>3, <1>6, <1>7, <1>8, <1>9 DEF Flow, r, n

(* A packet of a later message goes behind whole ones.                     *)
LEMMA JoinFlows ==
  ASSUME NEW s \in Seq(ByteSet), Flow(s), Ended(s),
         NEW m \in MessageSet, Below(s, m.id)
  PROVE  LET u == s \o Packet(m)
         IN  /\ u \in Seq(ByteSet) /\ Flow(u) /\ Ended(u)
             /\ \A i \in 1..Len(u) : u[i].id = m.id \/ \E k \in 1..Len(s) : u[i].id = s[k].id
  <1>. DEFINE p == Packet(m)
              n == Len(s)
              l == HeaderSize + m.size
              u == s \o p
  <1>1. /\ p \in Seq(ByteSet) /\ Len(p) = l /\ l \in Nat /\ l >= 1 /\ m.id \in Nat /\ m.size \in Nat
        /\ \A k \in 1..l : p[k] = [id |-> m.id, place |-> k, size |-> m.size]
    BY PacketIs
  <1>2. n \in Nat
    BY LenProperties
  <1>. HIDE DEF p
  <1>3. /\ u \in Seq(ByteSet) /\ Len(u) = n + Len(p)
        /\ \A i \in 1..(n + Len(p)) : u[i] = IF i <= n THEN s[i] ELSE p[i - n]
    BY <1>1, ConcatProperties
  <1>. HIDE DEF u
  <1>4. Len(u) = n + l
    BY <1>1, <1>3
  <1>5. ASSUME NEW i \in 1..Len(u), i <= n
        PROVE  /\ i \in 1..Len(s) /\ u[i] = s[i] /\ i \in Nat
               /\ Begin(u, i) = Begin(s, i) /\ End(u, i) = End(s, i)
               /\ End(u, i) <= n /\ End(u, i) \in Int /\ Begin(u, i) \in Int
               /\ u[i].id < m.id /\ u[i].id \in Nat /\ Placed(u, i)
    <2>1. i \in 1..Len(s) /\ i \in Nat
      BY <1>2, <1>5
    <2>2. u[i] = s[i]
      BY <1>1, <1>2, <1>3, <1>4, <1>5
    <2>3. Begin(u, i) = Begin(s, i) /\ End(u, i) = End(s, i)
      BY <2>2 DEF Begin, End
    <2>4. End(s, i) <= n /\ End(s, i) \in Int /\ Begin(s, i) \in Int /\ s[i].id \in Nat
      BY <2>1, ByteIs DEF Ended
    <2>5. Placed(u, i)
      BY <2>1, <2>2, <2>3 DEF Flow, Placed
    <2>6. s[i].id < m.id
      BY <2>1 DEF Below
    <2> QED
      BY <2>1, <2>2, <2>3, <2>4, <2>5, <2>6
  <1>. HIDE DEF n, l
  <1>6. ASSUME NEW i \in 1..Len(u), i > n
        PROVE  /\ i \in Nat /\ i <= n + l /\ u[i].id = m.id /\ u[i].size = m.size
               /\ Begin(u, i) = n /\ End(u, i) = n + l /\ Placed(u, i)
    <2>1. i \in Nat /\ i <= n + l /\ i - n \in 1..l
      BY <1>1, <1>2, <1>4, <1>6
    <2>2. u[i] = p[i - n]
      BY <1>1, <1>2, <1>3, <1>4, <1>6, <2>1
    <2>3. u[i] = [id |-> m.id, place |-> i - n, size |-> m.size]
      BY <2>1, <2>2, <1>1
    <2>4. u[i].id = m.id /\ u[i].size = m.size /\ u[i].place = i - n
      BY <2>3
    <2>5. Begin(u, i) = n
      BY <2>1, <2>4, <1>2 DEF Begin
    <2>6. End(u, i) = n + l
      BY <2>4, <2>5, <1>1, <1>2, SizeIs DEF End, l
    <2>7. Placed(u, i)
      BY <2>1, <2>4, <2>5, <2>6, <1>1, <1>2 DEF Placed
    <2> QED
      BY <2>1, <2>4, <2>5, <2>6, <2>7
  <1>7. \A i, k \in 1..Len(u) : Agree(u, i, k)
    <2> SUFFICES ASSUME NEW i \in 1..Len(u), NEW k \in 1..Len(u) PROVE Agree(u, i, k)
      OBVIOUS
    <2>0. i \in Nat /\ k \in Nat /\ n \in Nat
      BY <1>2, <1>3, LenProperties
    <2>1. CASE i <= n /\ k <= n
      <3>1. /\ i \in 1..Len(s) /\ u[i] = s[i] /\ Begin(u, i) = Begin(s, i) /\ End(u, i) = End(s, i)
        BY <2>1, <1>5
      <3>2. /\ k \in 1..Len(s) /\ u[k] = s[k] /\ Begin(u, k) = Begin(s, k)
        BY <2>1, <1>5
      <3>3. Agree(s, i, k)
        BY <3>1, <3>2 DEF Flow
      <3> QED
        BY <3>1, <3>2, <3>3 DEF Agree
    <2>2. CASE i <= n /\ k > n
      <3>1. End(u, i) <= n /\ End(u, i) \in Int /\ u[i].id < m.id /\ u[i].id \in Nat
        BY <2>2, <1>5
      <3>2. u[k].id = m.id
        BY <2>2, <1>6
      <3>3. ~(k <= End(u, i)) /\ u[i].id <= u[k].id /\ u[k].id # u[i].id
        BY <3>1, <3>2, <2>0, <2>2, <1>1
      <3> QED
        BY <3>3 DEF Agree
    <2>3. CASE i > n /\ k <= n
      <3>1. u[i].id = m.id /\ Begin(u, i) = n
        BY <2>3, <1>6
      <3>2. u[k].id < m.id /\ u[k].id \in Nat
        BY <2>3, <1>5
      <3>3. ~(i < k) /\ ~(Begin(u, i) < k) /\ u[k].id # u[i].id
        BY <3>1, <3>2, <2>0, <2>3, <1>1
      <3> QED
        BY <3>3 DEF Agree
    <2>4. CASE i > n /\ k > n
      <3>1. u[i].id = m.id /\ u[i].size = m.size /\ Begin(u, i) = n
        BY <2>4, <1>6
      <3>2. u[k].id = m.id /\ u[k].size = m.size /\ Begin(u, k) = n
        BY <2>4, <1>6
      <3> QED
        BY <3>1, <3>2, <1>1 DEF Agree
    <2> QED
      BY <2>0, <2>1, <2>2, <2>3, <2>4
  <1>8. \A i \in 1..Len(u) : /\ Placed(u, i) /\ End(u, i) <= Len(u)
                             /\ u[i].id = m.id \/ \E k \in 1..Len(s) : u[i].id = s[k].id
    <2> SUFFICES ASSUME NEW i \in 1..Len(u)
                 PROVE  /\ Placed(u, i) /\ End(u, i) <= Len(u)
                        /\ u[i].id = m.id \/ \E k \in 1..Len(s) : u[i].id = s[k].id
      OBVIOUS
    <2>1. i \in Nat
      BY <1>3, LenProperties
    <2>2. CASE i <= n
      <3>1. /\ Placed(u, i) /\ End(u, i) <= n /\ End(u, i) \in Int /\ i \in 1..Len(s) /\ u[i] = s[i]
        BY <2>2, <1>5
      <3> QED
        BY <3>1, <1>1, <1>2, <1>4
    <2>3. CASE i > n
      BY <2>3, <1>1, <1>2, <1>4, <1>6
    <2> QED
      BY <2>1, <2>2, <2>3, <1>2
  <1> QED
    BY <1>3, <1>7, <1>8 DEF Flow, Ended, u, p

LEMMA PacketFlows ==
  ASSUME NEW m \in MessageSet
  PROVE  /\ Packet(m) \in Seq(ByteSet) /\ Flow(Packet(m)) /\ Ended(Packet(m))
         /\ \A i \in 1..Len(Packet(m)) : Packet(m)[i].id = m.id
  <1>. DEFINE p == Packet(m)
  <1>1. p \in Seq(ByteSet) /\ <<>> \o p = p
    BY PacketIs, ConcatEmptySeq
  <1>2. /\ <<>> \in Seq(ByteSet) /\ Len(<<>>) = 0 /\ Flow(<<>>) /\ Ended(<<>>) /\ Below(<<>>, m.id)
    BY EmptyFlows
  <1>3. /\ Flow(<<>> \o p) /\ Ended(<<>> \o p)
        /\ \A i \in 1..Len(<<>> \o p) :
              (<<>> \o p)[i].id = m.id \/ \E k \in 1..Len(<<>>) : (<<>> \o p)[i].id = <<>>[k].id
    BY <1>2, JoinFlows
  <1>4. 1..Len(<<>>) = {}
    BY <1>2
  <1> QED
    BY <1>1, <1>3, <1>4

-----------------------------------------------------------------------------
(* What the variables are.  ble_server_stop is called without a client,    *)
(* and no client comes after it; a client that reads waits for no part.    *)
ClientSet == [data : Seq(ByteSet), next : Nat, rest : Seq(ByteSet)]

SendTypes ==
    /\ spp_send_queue \in Seq(MessageSet) /\ messages \in Nat
    /\ data \in Seq(ByteSet) /\ got \in Seq(ByteSet)
    /\ client \in ClientSet
    /\ room \in Nat /\ room >= DefaultRoom
    /\ data_pos \in Nat /\ pack_size \in Nat /\ chunk_num \in Nat

LinkInv ==
    /\ is_connected => main \in {"running", "wait"}
    /\ ~is_connected => client = Nothing
    /\ client.rest # <<>> => client.next = 0
    /\ client.next # 0 => client.data # <<>>

(* The client has, reads and puts together only messages before n.         *)
Before(n) ==
    /\ Newest < n /\ Below(client.rest, n)
    /\ client.next # 0 => client.data[1].id < n

(* Until the sentinel of ble_server_stop is queued: what the client has    *)
(* got is before what it reads and puts together, that is before what      *)
(* send_task has taken, until its head is sent, and all of it before what  *)
(* is queued.                                                              *)
ClientInv ==
    /\ Flow(client.rest) /\ Above(client.rest, Newest)
    /\ client.next # 0 => client.data[1].id > Newest
    /\ Before(messages + 1)

QueueInv ==
    \A q \in 1..Len(spp_send_queue) :
        /\ spp_send_queue[q].id <= messages
        /\ Before(spp_send_queue[q].id) /\ Below(data, spp_send_queue[q].id)
        /\ \A r \in 1..Len(spp_send_queue) :
              q < r => spp_send_queue[q].id < spp_send_queue[r].id

DataInv ==
    /\ Flow(data) /\ Ended(data) /\ Below(data, messages + 1)
    /\ sending # "parts" => \A k \in 1..Len(data) : Before(data[k].id)

Open == main \in {"running", "wait", "queue"}

OrderInv == ClientInv /\ QueueInv /\ DataInv

(* A client that waits for a part has what was sent of the notification,   *)
(* or waits for one that will not come; or a head was refused.             *)
PartsInv ==
    sending = "parts" =>
        /\ data_pos \in 1..Len(data) /\ pack_size >= PartSize
        /\ client.next # 0 /\ ~headLost =>
              \/ client.next = chunk_num /\ client.data = SubSeq(data, 1, data_pos)
              \/ client.next < chunk_num

NotesInv == SendTypes /\ LinkInv /\ (Open => OrderInv) /\ PartsInv

-----------------------------------------------------------------------------
LEMMA NothingIs ==
  /\ Nothing \in ClientSet /\ Nothing.data = <<>> /\ Nothing.next = 0 /\ Nothing.rest = <<>>
  /\ \A bytes : [Nothing EXCEPT !.rest = bytes] = [data |-> <<>>, next |-> 0, rest |-> bytes]
  <1>1. <<>> \in Seq(ByteSet)
    BY EmptySeq
  <1> QED
    BY <1>1 DEF Nothing, ClientSet

LEMMA ClientIs ==
  ASSUME SendTypes, LinkInv
  PROVE  /\ Newest \in Nat /\ client.next \in Nat
         /\ client.data \in Seq(ByteSet) /\ client.rest \in Seq(ByteSet)
         /\ client.next # 0 =>
               /\ 1 \in 1..Len(client.data) /\ client.data[1].id \in Nat
               /\ client.rest = <<>>
  <1>1. /\ client.next \in Nat /\ client.data \in Seq(ByteSet) /\ client.rest \in Seq(ByteSet)
    BY DEF SendTypes, ClientSet
  <1>2. Newest \in Nat
    <2>1. CASE got = <<>>
      BY <2>1 DEF Newest
    <2>2. CASE got # <<>>
      <3>1. got \in Seq(ByteSet)
        BY DEF SendTypes
      <3>2. Len(got) \in Nat \ {0}
        BY <3>1, <2>2, EmptySeq
      <3>3. 1 \in 1..Len(got)
        BY <3>2
      <3>4. got[1].id \in Nat
        BY <3>1, <3>3, ByteIs
      <3> QED
        BY <2>2, <3>4 DEF Newest
    <2> QED
      BY <2>1, <2>2
  <1>3. ASSUME client.next # 0
        PROVE  /\ 1 \in 1..Len(client.data) /\ client.data[1].id \in Nat
               /\ client.rest = <<>>
    <2>1. client.data # <<>> /\ client.rest = <<>>
      BY <1>3 DEF LinkInv
    <2>2. Len(client.data) \in Nat \ {0}
      BY <1>1, <2>1, EmptySeq
    <2>3. 1 \in 1..Len(client.data)
      BY <2>2
    <2> QED
      BY <1>1, <2>1, <2>3, ByteIs
  <1> QED
    BY <1>1, <1>2, <1>3

LEMMA BelowGrows ==
  ASSUME NEW s \in Seq(ByteSet), NEW n \in Nat, NEW m \in Nat, n <= m, Below(s, n)
  PROVE  Below(s, m)
  <1>1. \A i \in 1..Len(s) : s[i].id \in Nat
    BY ByteIs
  <1> QED
    BY <1>1 DEF Below

LEMMA BeforeGrows ==
  ASSUME SendTypes, LinkInv, NEW n \in Nat, NEW m \in Nat, n <= m, Before(n)
  PROVE  Before(m)
  <1>1. /\ Newest \in Nat /\ client.rest \in Seq(ByteSet)
        /\ client.next # 0 => client.data[1].id \in Nat
    BY ClientIs
  <1>2. Below(client.rest, m)
    BY <1>1, BelowGrows DEF Before
  <1> QED
    BY <1>1, <1>2 DEF Before

LEMMA QueuedIs ==
  ASSUME SendTypes, NEW q \in 1..Len(spp_send_queue)
  PROVE  spp_send_queue[q] \in MessageSet /\ spp_send_queue[q].id \in Nat
  <1>1. spp_send_queue[q] \in MessageSet
    BY ElementOfSeq DEF SendTypes
  <1> QED
    BY <1>1 DEF MessageSet

(* A step that leaves the client alone leaves alone what is said of it.    *)
LEMMA ClientKept ==
  ASSUME UNCHANGED <<client, got>>
  PROVE  /\ Newest' = Newest
         /\ \A n : Before(n) => Before(n)'
  BY DEF Newest, Before, Below

LEMMA LengthOf ==
  ASSUME NEW s \in Seq(ByteSet), s # <<>>
  PROVE  /\ Length(s) = HeaderSize + s[1].size /\ Length(s) \in Nat /\ Length(s) >= 1
         /\ 1 \in 1..Len(s) /\ s[1].id \in Nat /\ Len(s) \in Nat
  <1>1. Len(s) \in Nat \ {0}
    BY EmptySeq
  <1>2. 1 \in 1..Len(s)
    BY <1>1
  <1> QED
    BY <1>1, <1>2, ByteIs, SizeIs DEF Length

-----------------------------------------------------------------------------
LEMMA NotesInit == Init => NotesInv
  <1> SUFFICES ASSUME Init PROVE NotesInv
    OBVIOUS
  <1>1. SendTypes
    <2>1. <<>> \in Seq(ByteSet) /\ <<>> \in Seq(MessageSet)
      BY EmptySeq
    <2> QED
      BY <2>1, NothingIs, BleSendConstants DEF Init, SendTypes
  <1>2. LinkInv
    BY NothingIs DEF Init, LinkInv
  <1>3. OrderInv
    <2>1. client.rest = <<>> /\ client.next = 0 /\ Newest = 0 /\ messages = 0
      BY NothingIs DEF Init, Newest
    <2>2. Flow(<<>>) /\ Ended(<<>>) /\ \A n : Above(<<>>, n) /\ Below(<<>>, n)
      BY EmptyFlows
    <2>3. data = <<>> /\ spp_send_queue = <<>> /\ 1..Len(<<>>) = {}
      BY EmptyFlows DEF Init
    <2>4. ClientInv
      BY <2>1, <2>2 DEF ClientInv, Before
    <2>5. QueueInv
      BY <2>3 DEF QueueInv
    <2>6. DataInv
      BY <2>2, <2>3 DEF DataInv
    <2> QED
      BY <2>4, <2>5, <2>6 DEF OrderInv
  <1>4. PartsInv
    BY DEF Init, PartsInv
  <1> QED
    BY <1>1, <1>2, <1>3, <1>4 DEF NotesInv

(* Steps that touch none of the bytes.                                     *)
Bytes == <<spp_send_queue, messages, data, client, got, data_pos, pack_size, chunk_num>>

LEMMA BytesKept ==
  ASSUME NotesInv, UNCHANGED <<Bytes, headLost>>,
         room' \in Nat, room' >= DefaultRoom,
         Open' => Open, sending' = "parts" <=> sending = "parts",
         is_connected' => main' \in {"running", "wait"},
         ~is_connected' => client' = Nothing
  PROVE  NotesInv'
  <1>1. SendTypes'
    BY DEF NotesInv, SendTypes, Bytes
  <1>2. LinkInv'
    BY DEF NotesInv, LinkInv, Bytes
  <1>3. ASSUME Open' PROVE OrderInv'
    <2>1. ClientInv /\ QueueInv /\ DataInv
      BY <1>3 DEF NotesInv, OrderInv
    <2>2. UNCHANGED <<client, got>>
      BY DEF Bytes
    <2>3. Newest' = Newest /\ \A n : Before(n) => Before(n)'
      BY <2>2, ClientKept
    <2>4. /\ messages' = messages /\ data' = data /\ spp_send_queue' = spp_send_queue
          /\ client' = client
      BY DEF Bytes
    <2>5. ClientInv'
      BY <2>1, <2>3, <2>4 DEF ClientInv, Before
    <2>6. QueueInv'
      BY <2>1, <2>3, <2>4 DEF QueueInv, Before
    <2>7. DataInv'
      BY <2>1, <2>3, <2>4 DEF DataInv, Before
    <2> QED
      BY <2>5, <2>6, <2>7 DEF OrderInv
  <1>4. PartsInv'
    BY DEF NotesInv, PartsInv, Bytes
  <1> QED
    BY <1>1, <1>2, <1>3, <1>4 DEF NotesInv

LEMMA QuietSteps ==
  ASSUME NotesInv,
         \/ SendPacket \/ SendLoop \/ ReceiveTimesOut \/ TakesCongested \/ PackEnds
         \/ Connects \/ Subscribes \/ ResetsMtu \/ \E n \in Rooms : MtuChanges(n)
         \/ Congests \/ HandlesCongest \/ StopWaits \/ StopForbids \/ UNCHANGED vars
  PROVE  NotesInv' /\ UNCHANGED got
  <1>1. room \in Nat /\ room >= DefaultRoom /\ LinkInv
    BY DEF NotesInv, SendTypes
  <1>2. UNCHANGED <<Bytes, headLost>>
    BY DEF SendPacket, SendLoop, ReceiveTimesOut, TakesCongested, PackEnds, Connects, Subscribes,
       ResetsMtu, MtuChanges, Congests, HandlesCongest, StopWaits, StopForbids, Goes, vars,
       queueing, task, history, Bytes
  <1>3. room' \in Nat /\ room' >= DefaultRoom
    BY <1>1, BleSendConstants
    DEF SendPacket, SendLoop, ReceiveTimesOut, TakesCongested, PackEnds, Connects, Subscribes,
       ResetsMtu, MtuChanges, Congests, HandlesCongest, StopWaits, StopForbids, vars, gatt
  <1>4. sending' = "parts" <=> sending = "parts"
    BY DEF SendPacket, SendLoop, ReceiveTimesOut, TakesCongested, PackEnds, Connects, Subscribes,
       ResetsMtu, MtuChanges, Congests, HandlesCongest, StopWaits, StopForbids, Goes, vars, task
  <1>5. /\ Open' => Open
        /\ is_connected' => main' \in {"running", "wait"}
        /\ ~is_connected' => client' = Nothing
    BY <1>1, <1>2
    DEF SendPacket, SendLoop, ReceiveTimesOut, TakesCongested, PackEnds, Connects, Subscribes,
       ResetsMtu, MtuChanges, Congests, HandlesCongest, StopWaits, StopForbids, vars, gatt,
       stopping, Open, LinkInv, Bytes
  <1> QED
    BY <1>2, <1>3, <1>4, <1>5, BytesKept DEF Bytes

(* A new message is later than all.                                        *)
LEMMA BleSendsStep ==
  ASSUME NotesInv, NEW size \in Sizes, BleSends(size)
  PROVE  NotesInv' /\ UNCHANGED got
  <1>1. SendTypes /\ LinkInv /\ PartsInv
    BY DEF NotesInv
  <1>2. /\ messages' = messages + 1 /\ UNCHANGED <<client, got, data, data_pos, pack_size>>
        /\ UNCHANGED <<chunk_num, sending, room, is_connected, main, headLost>>
    BY DEF BleSends, task, gatt, stopping, history
  <1>. DEFINE m == Message(messages + 1, size)
              n == Len(spp_send_queue)
  <1>3. spp_send_queue' = Append(spp_send_queue, m) \/ spp_send_queue' = spp_send_queue
    BY DEF BleSends, Queued
  <1>4. m \in MessageSet /\ m.id = messages + 1 /\ messages \in Nat /\ n \in Nat
    BY <1>1, BleSendConstants, LenProperties DEF Message, MessageSet, SendTypes
  <1>. HIDE DEF m
  <1>5. /\ spp_send_queue' \in Seq(MessageSet)
        /\ Len(spp_send_queue') \in {n, n + 1}
        /\ \A q \in 1..Len(spp_send_queue') :
              \/ q \in 1..n /\ spp_send_queue'[q] = spp_send_queue[q]
              \/ q = n + 1 /\ spp_send_queue'[q] = m
    <2>1. spp_send_queue \in Seq(MessageSet)
      BY <1>1 DEF SendTypes
    <2>2. CASE spp_send_queue' = spp_send_queue
      BY <2>1, <2>2
    <2>3. CASE spp_send_queue' = Append(spp_send_queue, m)
      <3>. DEFINE t == Append(spp_send_queue, m)
      <3>1. /\ t \in Seq(MessageSet) /\ Len(t) = n + 1
            /\ \A i \in 1..n : t[i] = spp_send_queue[i]
            /\ t[n + 1] = m
        BY <2>1, <1>4, AppendProperties
      <3>. HIDE DEF t
      <3>2. spp_send_queue' = t
        BY <2>3 DEF t
      <3>. HIDE DEF n
      <3>3. \A q \in 1..(n + 1) : q \in 1..n \/ q = n + 1
        BY <1>4
      <3> QED
        BY <3>1, <3>2, <3>3
    <2> QED
      BY <1>3, <2>2, <2>3
  <1>. HIDE DEF n
  <1>6. SendTypes'
    BY <1>1, <1>2, <1>4, <1>5 DEF SendTypes
  <1>7. LinkInv' /\ PartsInv'
    BY <1>1, <1>2 DEF LinkInv, PartsInv
  <1>8. ASSUME Open' PROVE OrderInv'
    <2>1. ClientInv /\ QueueInv /\ DataInv
      BY <1>2, <1>8 DEF NotesInv, OrderInv, Open
    <2>2. Newest' = Newest /\ \A k : Before(k) => Before(k)'
      BY <1>2, ClientKept
    <2>3. Before(messages + 1) /\ Before(messages + 2) /\ Below(data, messages + 1)
      <3>1. Before(messages + 1)
        BY <2>1 DEF ClientInv
      <3>2. messages + 1 \in Nat /\ messages + 2 \in Nat /\ messages + 1 <= messages + 2
        BY <1>4
      <3> QED
        BY <1>1, <2>1, <3>1, <3>2, BeforeGrows DEF DataInv
    <2>4. ClientInv'
      <3>1. Before(messages + 1)'
        BY <1>2, <1>4, <2>2, <2>3 DEF Before
      <3> QED
        BY <2>1, <2>2, <3>1, <1>2 DEF ClientInv
    <2>5. DataInv'
      <3>1. Below(data, messages + 2)
        BY <1>1, <1>4, <2>3, BelowGrows DEF SendTypes
      <3>2. Below(data, messages + 1)'
        BY <1>2, <1>4, <3>1
      <3> QED
        BY <1>2, <2>1, <2>2, <3>2 DEF DataInv, Before
    <2>6. QueueInv'
      <3>1. ASSUME NEW q \in 1..Len(spp_send_queue')
            PROVE  /\ spp_send_queue'[q].id \in Nat /\ spp_send_queue'[q].id <= messages + 1
                   /\ Before(spp_send_queue'[q].id) /\ Below(data, spp_send_queue'[q].id)
        <4>1. CASE q \in 1..n /\ spp_send_queue'[q] = spp_send_queue[q]
          <5>1. spp_send_queue[q].id \in Nat
            BY <1>1, <4>1, QueuedIs DEF n
          <5> QED
            BY <4>1, <5>1, <2>1, <1>4 DEF QueueInv, n
        <4>2. CASE q = n + 1 /\ spp_send_queue'[q] = m
          BY <4>2, <2>3, <1>4
        <4> QED
          BY <4>1, <4>2, <1>5
      <3>2. ASSUME NEW q \in 1..Len(spp_send_queue'), NEW r \in 1..Len(spp_send_queue'), q < r
            PROVE  spp_send_queue'[q].id < spp_send_queue'[r].id
        <4>1. q \in 1..n /\ spp_send_queue'[q] = spp_send_queue[q]
          BY <1>4, <1>5, <3>2
        <4>2. spp_send_queue[q].id \in Nat /\ spp_send_queue[q].id <= messages
          BY <1>1, <4>1, <2>1, QueuedIs DEF QueueInv, n
        <4>3. CASE r \in 1..n /\ spp_send_queue'[r] = spp_send_queue[r]
          BY <4>1, <4>3, <3>2, <2>1 DEF QueueInv, n
        <4>4. CASE r = n + 1 /\ spp_send_queue'[r] = m
          BY <4>1, <4>2, <4>4, <1>4
        <4> QED
          BY <4>3, <4>4, <1>5
      <3> QED
        BY <1>2, <2>2, <3>1, <3>2 DEF QueueInv, Before
    <2> QED
      BY <2>4, <2>5, <2>6 DEF OrderInv
  <1> QED
    BY <1>2, <1>6, <1>7, <1>8 DEF NotesInv

-----------------------------------------------------------------------------
(* Steps of send_task on the queue: what is taken is next to what is in    *)
(* the notification.                                                       *)
LEMMA FirstIs ==
  ASSUME SendTypes, spp_send_queue # <<>>
  PROVE  /\ Head(spp_send_queue) \in MessageSet /\ Head(spp_send_queue).id \in Nat
         /\ Head(spp_send_queue) = spp_send_queue[1] /\ 1 \in 1..Len(spp_send_queue)
         /\ Tail(spp_send_queue) \in Seq(MessageSet)
         /\ \A q \in 1..Len(Tail(spp_send_queue)) :
               /\ q \in Nat /\ q + 1 \in 1..Len(spp_send_queue) /\ 1 < q + 1
               /\ Tail(spp_send_queue)[q] = spp_send_queue[q + 1]
  <1>. DEFINE t == Tail(spp_send_queue)
  <1>1. spp_send_queue \in Seq(MessageSet)
    BY DEF SendTypes
  <1>2. /\ Head(spp_send_queue) \in MessageSet /\ t \in Seq(MessageSet)
        /\ Len(t) = Len(spp_send_queue) - 1
        /\ \A i \in 1..Len(t) : t[i] = spp_send_queue[i + 1]
    BY <1>1, HeadTailProperties
  <1>3. Len(spp_send_queue) \in Nat /\ Len(spp_send_queue) >= 1
    BY <1>1, EmptySeq
  <1>4. Head(spp_send_queue) = spp_send_queue[1]
    BY <1>1
  <1>. HIDE DEF t
  <1>5. \A q \in 1..Len(t) : q \in Nat /\ q + 1 \in 1..Len(spp_send_queue) /\ 1 < q + 1
    BY <1>2, <1>3
  <1>6. Head(spp_send_queue).id \in Nat
    BY <1>2 DEF MessageSet
  <1>7. 1 \in 1..Len(spp_send_queue)
    BY <1>3
  <1> QED
    BY <1>2, <1>4, <1>5, <1>6, <1>7 DEF t

LEMMA TakenInOrder ==
  ASSUME NotesInv, OrderInv, spp_send_queue # <<>>,
         spp_send_queue' = Tail(spp_send_queue), UNCHANGED <<client, got, messages>>,
         sending # "parts", data' \in Seq(ByteSet), Flow(data'), Ended(data'),
         \A i \in 1..Len(data') :
             \/ data'[i].id = Head(spp_send_queue).id
             \/ \E k \in 1..Len(data) : data'[i].id = data[k].id
  PROVE  OrderInv'
  <1>. DEFINE h == Head(spp_send_queue)
  <1>1. SendTypes /\ LinkInv /\ ClientInv /\ QueueInv /\ DataInv /\ messages \in Nat
    BY DEF NotesInv, OrderInv, SendTypes
  <1>2. /\ h.id \in Nat /\ h = spp_send_queue[1] /\ 1 \in 1..Len(spp_send_queue)
        /\ \A q \in 1..Len(spp_send_queue') :
              /\ q \in Nat /\ q + 1 \in 1..Len(spp_send_queue) /\ 1 < q + 1
              /\ spp_send_queue'[q] = spp_send_queue[q + 1]
    BY <1>1, FirstIs
  <1>. HIDE DEF h
  <1>3. h.id <= messages /\ Before(h.id) /\ Below(data, h.id)
    BY <1>1, <1>2 DEF QueueInv
  <1>4. Newest' = Newest /\ \A n : Before(n) => Before(n)'
    BY ClientKept
  <1>5. \A i \in 1..Len(data') : Before(data'[i].id) /\ data'[i].id < messages + 1
    <2> SUFFICES ASSUME NEW i \in 1..Len(data')
                 PROVE  Before(data'[i].id) /\ data'[i].id < messages + 1
      OBVIOUS
    <2>1. CASE data'[i].id = h.id
      BY <2>1, <1>1, <1>2, <1>3
    <2>2. CASE \E k \in 1..Len(data) : data'[i].id = data[k].id
      <3>1. PICK k \in 1..Len(data) : data'[i].id = data[k].id
        BY <2>2
      <3>2. Before(data[k].id) /\ data[k].id < messages + 1
        BY <1>1 DEF DataInv, Below
      <3> QED
        BY <3>1, <3>2
    <2> QED
      BY <2>1, <2>2 DEF h
  <1>6. DataInv'
    <2>1. Below(data', messages + 1)
      BY <1>5 DEF Below
    <2>2. Flow(data)' /\ Ended(data)' /\ Below(data, messages + 1)'
      BY <2>1
    <2>3. \A i \in 1..Len(data') : Before(data[i].id)'
      BY <1>4, <1>5 DEF Before
    <2> QED
      BY <2>2, <2>3 DEF DataInv
  <1>7. ClientInv'
    BY <1>1, <1>4 DEF ClientInv, Before
  <1>8. QueueInv'
    <2>1. ASSUME NEW q \in 1..Len(spp_send_queue')
          PROVE  /\ spp_send_queue'[q].id <= messages
                 /\ Before(spp_send_queue'[q].id) /\ Below(data', spp_send_queue'[q].id)
                 /\ \A r \in 1..Len(spp_send_queue') :
                       q < r => spp_send_queue'[q].id < spp_send_queue'[r].id
      <3>. DEFINE n == spp_send_queue'[q].id
      <3>1. /\ q \in Nat /\ q + 1 \in 1..Len(spp_send_queue) /\ 1 < q + 1
            /\ n = spp_send_queue[q + 1].id
        BY <1>2
      <3>2. n \in Nat /\ n <= messages /\ Before(n) /\ Below(data, n)
        BY <1>1, <3>1, QueuedIs DEF QueueInv
      <3>3. h.id < n
        BY <1>1, <1>2, <3>1 DEF QueueInv
      <3>4. \A r \in 1..Len(spp_send_queue') : q < r => n < spp_send_queue'[r].id
        <4> SUFFICES ASSUME NEW r \in 1..Len(spp_send_queue'), q < r PROVE n < spp_send_queue'[r].id
          OBVIOUS
        <4>1. /\ r \in Nat /\ r + 1 \in 1..Len(spp_send_queue)
              /\ spp_send_queue'[r] = spp_send_queue[r + 1]
          BY <1>2
        <4>2. q + 1 < r + 1
          BY <3>1, <4>1
        <4> QED
          BY <1>1, <3>1, <4>1, <4>2 DEF QueueInv
      <3>. HIDE DEF n
      <3>5. Below(data', n)
        <4> SUFFICES ASSUME NEW i \in 1..Len(data') PROVE data'[i].id < n
          BY DEF Below
        <4>1. CASE data'[i].id = h.id
          BY <4>1, <3>3
        <4>2. CASE \E k \in 1..Len(data) : data'[i].id = data[k].id
          BY <4>2, <3>2 DEF Below
        <4> QED
          BY <4>1, <4>2 DEF h
      <3> QED
        BY <3>2, <3>4, <3>5 DEF n
    <2>2. ASSUME NEW q \in 1..Len(spp_send_queue')
          PROVE  Before(spp_send_queue[q].id)' /\ Below(data, spp_send_queue[q].id)'
      <3>1. Before(spp_send_queue'[q].id) /\ Below(data', spp_send_queue'[q].id)
        BY <2>1
      <3> QED
        BY <3>1, <1>4 DEF Before
    <2> QED
      BY <2>1, <2>2 DEF QueueInv
  <1> QED
    BY <1>6, <1>7, <1>8 DEF OrderInv

LEMMA SendReceivesStep ==
  ASSUME NotesInv, SendReceives
  PROVE  NotesInv' /\ UNCHANGED got
  <1>. DEFINE h == Head(spp_send_queue)
  <1>1. SendTypes /\ LinkInv /\ spp_send_queue # <<>>
    BY DEF NotesInv, SendReceives
  <1>2. /\ UNCHANGED <<client, got, messages, is_connected, main, room, data_pos, pack_size>>
        /\ UNCHANGED <<chunk_num, headLost>>
        /\ spp_send_queue' = Tail(spp_send_queue)
        /\ sending # "parts" /\ sending' # "parts"
        /\ data' = Packet(h) \/ data' = <<>>
    BY DEF SendReceives, Goes, gatt, stopping, history
  <1>3. h \in MessageSet /\ Tail(spp_send_queue) \in Seq(MessageSet)
    BY <1>1, FirstIs
  <1>. HIDE DEF h
  <1>4. /\ data' \in Seq(ByteSet) /\ Flow(data') /\ Ended(data')
        /\ \A i \in 1..Len(data') : data'[i].id = h.id
    <2>1. CASE data' = Packet(h)
      BY <2>1, <1>3, PacketFlows
    <2>2. CASE data' = <<>>
      <3>1. 1..Len(<<>>) = {}
        BY EmptyFlows
      <3> QED
        BY <2>2, <3>1, EmptyFlows
    <2> QED
      BY <1>2, <2>1, <2>2
  <1>5. SendTypes'
    BY <1>1, <1>2, <1>3, <1>4 DEF SendTypes
  <1>6. LinkInv' /\ PartsInv'
    BY <1>1, <1>2 DEF LinkInv, PartsInv
  <1>7. ASSUME Open' PROVE OrderInv'
    <2>1. OrderInv
      BY <1>2, <1>7 DEF NotesInv, Open
    <2> QED
      BY <1>1, <1>2, <1>4, <2>1, TakenInOrder DEF h
  <1> QED
    BY <1>2, <1>5, <1>6, <1>7 DEF NotesInv

LEMMA PackAddsStep ==
  ASSUME NotesInv, PackAdds
  PROVE  NotesInv' /\ UNCHANGED got
  <1>. DEFINE h == Head(spp_send_queue)
  <1>1. SendTypes /\ LinkInv /\ spp_send_queue # <<>> /\ data \in Seq(ByteSet)
    BY DEF NotesInv, PackAdds, SendTypes
  <1>2. /\ UNCHANGED <<client, got, messages, is_connected, main, room, data_pos, pack_size>>
        /\ UNCHANGED <<chunk_num, headLost>>
        /\ spp_send_queue' = Tail(spp_send_queue)
        /\ sending # "parts" /\ sending' # "parts"
        /\ data' = data \o Packet(h) \/ data' = data
    BY DEF PackAdds, gatt, stopping, history
  <1>3. h \in MessageSet /\ h = spp_send_queue[1] /\ 1 \in 1..Len(spp_send_queue)
        /\ Tail(spp_send_queue) \in Seq(MessageSet)
    BY <1>1, FirstIs
  <1>. HIDE DEF h
  <1>4. data' \in Seq(ByteSet)
    <2>1. Packet(h) \in Seq(ByteSet)
      BY <1>3, PacketIs
    <2>2. data \o Packet(h) \in Seq(ByteSet)
      BY <1>1, <2>1, ConcatProperties
    <2> QED
      BY <1>1, <1>2, <2>2
  <1>5. SendTypes'
    BY <1>1, <1>2, <1>3, <1>4 DEF SendTypes
  <1>6. LinkInv' /\ PartsInv'
    BY <1>1, <1>2 DEF LinkInv, PartsInv
  <1>7. ASSUME Open' PROVE OrderInv'
    <2>1. OrderInv
      BY <1>2, <1>7 DEF NotesInv, Open
    <2>2. Flow(data) /\ Ended(data) /\ Below(data, h.id)
      BY <2>1, <1>3 DEF OrderInv, QueueInv, DataInv
    <2>3. /\ Flow(data') /\ Ended(data')
          /\ \A i \in 1..Len(data') :
                data'[i].id = h.id \/ \E k \in 1..Len(data) : data'[i].id = data[k].id
      <3>1. CASE data' = data \o Packet(h)
        BY <3>1, <2>2, <1>1, <1>3, JoinFlows
      <3>2. CASE data' = data
        BY <3>2, <2>2
      <3> QED
        BY <1>2, <3>1, <3>2
    <2> QED
      BY <1>1, <1>2, <1>4, <2>1, <2>3, TakenInOrder DEF h
  <1> QED
    BY <1>2, <1>5, <1>6, <1>7 DEF NotesInv

(* The sentinel comes when nothing is said any more.                       *)
LEMMA SentinelIsLast ==
  ASSUME NotesInv, spp_send_queue # <<>>, Head(spp_send_queue) = Sentinel
  PROVE  ~Open
  <1> SUFFICES ASSUME Open PROVE FALSE
    OBVIOUS
  <1>1. SendTypes /\ LinkInv /\ QueueInv
    BY DEF NotesInv, OrderInv
  <1>2. spp_send_queue[1].id = 0 /\ 1 \in 1..Len(spp_send_queue)
    BY <1>1, FirstIs DEF Sentinel, Message
  <1>3. Newest < 0
    BY <1>1, <1>2 DEF QueueInv, Before
  <1> QED
    BY <1>1, <1>3, ClientIs

LEMMA SentinelSteps ==
  ASSUME NotesInv, PackMeetsSentinel \/ StopQueues \/ StopJoins
  PROVE  NotesInv' /\ UNCHANGED got
  <1>1. SendTypes /\ LinkInv /\ data \in Seq(ByteSet) /\ spp_send_queue \in Seq(MessageSet)
    BY DEF NotesInv, SendTypes
  <1>2. Sentinel \in MessageSet
    BY DEF Sentinel, Message, MessageSet
  <1>3. /\ UNCHANGED <<client, got, messages, is_connected, room, data_pos, pack_size>>
        /\ UNCHANGED <<chunk_num, headLost>>
    BY DEF PackMeetsSentinel, StopQueues, StopJoins, task, gatt, history
  <1>4. ~Open'
    BY SentinelIsLast DEF PackMeetsSentinel, StopQueues, StopJoins, stopping, Open
  <1>5. spp_send_queue' \in Seq(MessageSet)
    <2>1. Append(spp_send_queue, Sentinel) \in Seq(MessageSet)
      BY <1>1, <1>2, AppendProperties
    <2>2. <<>> \in Seq(MessageSet)
      BY EmptySeq
    <2>3. spp_send_queue # <<>> => Tail(spp_send_queue) \in Seq(MessageSet)
      BY <1>1, FirstIs
    <2> QED
      BY <1>1, <2>1, <2>2, <2>3 DEF PackMeetsSentinel, StopQueues, StopJoins
  <1>6. data' \in Seq(ByteSet)
    <2>1. data \o Packet(Sentinel) \in Seq(ByteSet)
      <3>1. Packet(Sentinel) \in Seq(ByteSet)
        BY <1>2, PacketIs
      <3> QED
        BY <1>1, <3>1, ConcatProperties
    <2> QED
      BY <1>1, <2>1 DEF PackMeetsSentinel, StopQueues, StopJoins, task
  <1>7. SendTypes'
    BY <1>1, <1>3, <1>5, <1>6 DEF SendTypes
  <1>8. LinkInv'
    <2>1. is_connected' => main' \in {"running", "wait"}
      BY <1>1 DEF LinkInv, PackMeetsSentinel, StopQueues, StopJoins, gatt, stopping
    <2> QED
      BY <1>1, <1>3, <2>1 DEF LinkInv
  <1>9. PartsInv'
    <2>1. CASE PackMeetsSentinel
      BY <2>1 DEF PackMeetsSentinel, PartsInv
    <2>2. CASE StopQueues \/ StopJoins
      <3>1. UNCHANGED <<sending, data>>
        BY <2>2 DEF StopQueues, StopJoins, task
      <3> QED
        BY <1>3, <3>1 DEF NotesInv, PartsInv
    <2> QED
      BY <2>1, <2>2
  <1> QED
    BY <1>3, <1>4, <1>7, <1>8, <1>9 DEF NotesInv

-----------------------------------------------------------------------------
(* Steps of the client, and of send_task towards it: nothing gets to it    *)
(* but what it had before and what is in the notification.                 *)
LEMMA ClientGoesOn ==
  ASSUME NotesInv, OrderInv, UNCHANGED <<spp_send_queue, messages>>,
         \A n \in Nat : Before(n) /\ Below(data, n) => Before(n)',
         \/ data' = <<>>
         \/ data' = data /\ sending' = "parts"
         \/ data' = data /\ sending' = sending /\ \A n \in Nat : Before(n) => Before(n)',
         Flow(client'.rest), Above(client'.rest, Newest'),
         client'.next # 0 => client'.data[1].id > Newest'
  PROVE  OrderInv'
  <1>1. SendTypes /\ LinkInv /\ ClientInv /\ QueueInv /\ DataInv /\ messages \in Nat
    BY DEF NotesInv, OrderInv, SendTypes
  <1>2. \A n \in Nat : Below(data, n) => Below(data', n)
    <2>1. CASE data' = <<>>
      BY <2>1, EmptyFlows
    <2>2. CASE data' = data
      BY <2>2
    <2> QED
      BY <2>1, <2>2
  <1>3. messages + 1 \in Nat /\ messages' + 1 = messages + 1
    BY <1>1
  <1>4. ClientInv'
    <2>1. Before(messages + 1) /\ Below(data, messages + 1)
      BY <1>1 DEF ClientInv, DataInv
    <2>2. Before(messages + 1)'
      BY <2>1, <1>3 DEF Before
    <2>3. Flow(client.rest)' /\ Above(client.rest, Newest)'
      OBVIOUS
    <2> QED
      BY <2>2, <2>3 DEF ClientInv
  <1>5. QueueInv'
    <2> SUFFICES ASSUME NEW q \in 1..Len(spp_send_queue)
                 PROVE  /\ spp_send_queue[q].id <= messages
                        /\ Before(spp_send_queue[q].id)' /\ Below(data', spp_send_queue[q].id)
                        /\ \A r \in 1..Len(spp_send_queue) :
                              q < r => spp_send_queue[q].id < spp_send_queue[r].id
      BY DEF QueueInv
    <2>1. /\ spp_send_queue[q].id \in Nat /\ spp_send_queue[q].id <= messages
          /\ Before(spp_send_queue[q].id) /\ Below(data, spp_send_queue[q].id)
          /\ \A r \in 1..Len(spp_send_queue) :
                q < r => spp_send_queue[q].id < spp_send_queue[r].id
      BY <1>1, QueuedIs DEF QueueInv
    <2>2. Before(spp_send_queue[q].id)'
      BY <2>1 DEF Before
    <2> QED
      BY <2>1, <2>2, <1>2
  <1>6. DataInv'
    <2>1. Flow(data') /\ Ended(data') /\ Below(data', messages + 1)
      <3>1. Below(data', messages + 1)
        BY <1>1, <1>2, <1>3 DEF DataInv
      <3> QED
        BY <1>1, <3>1, EmptyFlows DEF DataInv
    <2>2. sending' # "parts" => \A k \in 1..Len(data') : Before(data[k].id)'
      <3>1. CASE data' = <<>>
        <4>1. 1..Len(<<>>) = {}
          BY EmptyFlows
        <4> QED
          BY <3>1, <4>1
      <3>2. CASE data' = data /\ sending' = "parts"
        BY <3>2
      <3>3. CASE data' = data /\ sending' = sending /\ \A n \in Nat : Before(n) => Before(n)'
        <4> SUFFICES ASSUME sending # "parts", NEW k \in 1..Len(data) PROVE Before(data[k].id)'
          BY <3>3
        <4>1. data[k].id \in Nat
          BY <1>1, ByteIs DEF SendTypes
        <4>2. Before(data[k].id)
          BY <1>1 DEF DataInv
        <4> QED
          BY <3>3, <4>1, <4>2 DEF Before
      <3> QED
        BY <3>1, <3>2, <3>3
    <2>3. Flow(data)' /\ Ended(data)' /\ Below(data, messages + 1)'
      BY <2>1
    <2> QED
      BY <2>2, <2>3 DEF DataInv
  <1> QED
    BY <1>4, <1>5, <1>6 DEF OrderInv

(* The notification is dropped.                                            *)
LEMMA DroppedInOrder ==
  ASSUME NotesInv, OrderInv, UNCHANGED <<spp_send_queue, messages, client, got>>, data' = <<>>
  PROVE  OrderInv'
  <1>1. Newest' = Newest /\ \A n : Before(n) => Before(n)'
    BY ClientKept
  <1>2. /\ Flow(client.rest) /\ Above(client.rest, Newest)
        /\ client.next # 0 => client.data[1].id > Newest
    BY DEF OrderInv, ClientInv
  <1>3. \A n \in Nat : Before(n) /\ Below(data, n) => Before(n)'
    BY <1>1
  <1>4. /\ Flow(client'.rest) /\ Above(client'.rest, Newest')
        /\ client'.next # 0 => client'.data[1].id > Newest'
    BY <1>1, <1>2
  <1> QED
    BY <1>3, <1>4, ClientGoesOn

LEMMA DropSteps ==
  ASSUME NotesInv, GivesCongested \/ SendHeadFails
  PROVE  NotesInv' /\ UNCHANGED got
  <1>1. SendTypes /\ LinkInv
    BY DEF NotesInv
  <1>2. /\ UNCHANGED <<spp_send_queue, messages, client, got, is_connected, main, room, data_pos>>
        /\ UNCHANGED <<pack_size, chunk_num, headLost>>
        /\ sending # "parts" /\ sending' # "parts"
        /\ data' = data \/ data' = <<>>
    BY DEF GivesCongested, SendHeadFails, Goes, queueing, gatt, stopping, history
  <1>3. CASE data' = data
    <2>1. UNCHANGED <<Bytes, headLost>> /\ room \in Nat /\ room >= DefaultRoom
      BY <1>1, <1>2, <1>3 DEF Bytes, SendTypes
    <2>2. NotesInv'
      BY <1>1, <1>2, <2>1, BytesKept DEF LinkInv, Open
    <2> QED
      BY <1>2, <2>2
  <1>4. CASE data' = <<>>
    <2>1. SendTypes'
      BY <1>1, <1>2, <1>4, EmptyFlows DEF SendTypes
    <2>2. LinkInv' /\ PartsInv'
      BY <1>1, <1>2 DEF LinkInv, PartsInv
    <2>3. ASSUME Open' PROVE OrderInv'
      BY <1>2, <1>4, <2>3, DroppedInOrder DEF NotesInv, Open
    <2> QED
      BY <1>2, <2>1, <2>2, <2>3 DEF NotesInv
  <1> QED
    BY <1>2, <1>3, <1>4

LEMMA DisconnectsStep ==
  ASSUME NotesInv, Disconnects
  PROVE  NotesInv' /\ UNCHANGED got
  <1>1. SendTypes /\ LinkInv
    BY DEF NotesInv
  <1>2. /\ UNCHANGED <<spp_send_queue, messages, data, sending, got, main, room, data_pos>>
        /\ UNCHANGED <<pack_size, chunk_num, headLost>>
        /\ client' = Nothing /\ is_connected' = FALSE
    BY DEF Disconnects, queueing, task, stopping, history
  <1>3. client' \in ClientSet /\ client'.next = 0 /\ client'.rest = <<>>
    BY <1>2, NothingIs
  <1>4. SendTypes'
    BY <1>1, <1>2, <1>3 DEF SendTypes
  <1>5. LinkInv'
    BY <1>2, <1>3 DEF LinkInv
  <1>6. PartsInv'
    BY <1>2, <1>3 DEF NotesInv, PartsInv
  <1>7. ASSUME Open' PROVE OrderInv'
    <2>1. OrderInv
      BY <1>2, <1>7 DEF NotesInv, Open
    <2>2. Newest' = Newest
      BY <1>2 DEF Newest
    <2>3. \A n \in Nat : Before(n) => Before(n)'
      BY <1>3, <2>2, EmptyFlows DEF Before
    <2> QED
      BY <1>2, <1>3, <2>1, <2>2, <2>3, ClientGoesOn, EmptyFlows
  <1> QED
    BY <1>2, <1>4, <1>5, <1>6, <1>7 DEF NotesInv

(* The client takes the packet in front of what it reads.                  *)
LEMMA ClientReadsStep ==
  ASSUME NotesInv, ClientReads
  PROVE  NotesInv' /\ (got' # got => InOrder)
  <1>. DEFINE s == client.rest
              n == HeaderSize + s[1].size
              r == SubSeq(s, n + 1, Len(s))
  <1>1. SendTypes /\ LinkInv /\ s # <<>> /\ s \in Seq(ByteSet) /\ client \in ClientSet
    BY DEF NotesInv, ClientReads, ClientReady, SendTypes, ClientSet
  <1>2. client.next = 0 /\ is_connected /\ Open
    BY <1>1, NothingIs DEF LinkInv, Open
  <1>3. OrderInv /\ Flow(s) /\ Above(s, Newest)
    BY <1>2 DEF NotesInv, OrderInv, ClientInv
  <1>4. /\ UNCHANGED <<spp_send_queue, messages, data, sending, is_connected, main, room>>
        /\ UNCHANGED <<data_pos, pack_size, chunk_num, headLost>>
    BY DEF ClientReads, queueing, task, gatt, stopping
  <1>5. Length(s) = n /\ n \in Nat /\ s[1].id \in Nat /\ 1 \in 1..Len(s)
    BY <1>1, LengthOf
  <1>6. CASE n <= Len(s) /\ got' = SubSeq(s, 1, n) /\ client' = [client EXCEPT !.rest = r]
    <2>1. got' = Packet([id |-> s[1].id, size |-> s[1].size]) /\ got'[1] = s[1] /\ got' # <<>>
      BY <1>1, <1>3, <1>6, FrontIsWhole
    <2>2. /\ r \in Seq(ByteSet) /\ Flow(r) /\ Above(r, s[1].id)
          /\ \A k \in Nat : Below(s, k) => Below(r, k)
      BY <1>1, <1>3, <1>6, RestFlows
    <2>3. n \in 0..Len(s)
      BY <1>1, <1>5, <1>6, LenProperties
    <2>4. got' \in Seq(ByteSet)
      BY <1>1, <1>6, <2>3, UpToIs
    <2>. HIDE DEF r
    <2>5. /\ client' \in ClientSet /\ client'.rest = r /\ client'.next = 0
          /\ client'.data = client.data
      BY <1>1, <1>2, <1>6, <2>2 DEF ClientSet
    <2>6. Newest' = s[1].id
      BY <2>1 DEF Newest
    <2>7. InOrder
      <3>1. s[1].id > Newest
        BY <1>3, <1>5 DEF Above
      <3>2. IsWhole(got')
        BY <2>1 DEF IsWhole
      <3> QED
        BY <2>1, <3>1, <3>2 DEF InOrder
    <2>8. OrderInv'
      <3>1. ASSUME NEW k \in Nat, Before(k) PROVE Before(k)'
        <4>1. Below(s, k)
          BY <3>1 DEF Before
        <4>2. s[1].id < k /\ Below(r, k)
          BY <4>1, <1>5, <2>2 DEF Below
        <4> QED
          BY <2>5, <2>6, <4>2 DEF Before
      <3> QED
        BY <1>3, <1>4, <2>2, <2>5, <2>6, <3>1, ClientGoesOn
    <2>9. SendTypes'
      BY <1>1, <1>4, <2>4, <2>5 DEF SendTypes
    <2>10. LinkInv'
      BY <1>1, <1>2, <1>4, <2>5 DEF LinkInv
    <2>11. PartsInv'
      BY <1>4, <2>5 DEF NotesInv, PartsInv
    <2> QED
      BY <2>7, <2>8, <2>9, <2>10, <2>11 DEF NotesInv
  <1>7. CASE client' = Nothing /\ got' = got
    <2>1. client' \in ClientSet /\ client'.next = 0 /\ client'.rest = <<>>
      BY <1>7, NothingIs
    <2>2. Newest' = Newest
      BY <1>7 DEF Newest
    <2>3. \A k \in Nat : Before(k) => Before(k)'
      BY <2>1, <2>2, EmptyFlows DEF Before
    <2>4. OrderInv'
      BY <1>3, <1>4, <2>1, <2>2, <2>3, ClientGoesOn, EmptyFlows
    <2>5. SendTypes'
      BY <1>1, <1>4, <1>7, <2>1 DEF SendTypes
    <2>6. LinkInv'
      BY <1>1, <1>2, <1>4, <2>1 DEF LinkInv
    <2>7. PartsInv'
      BY <1>4, <2>1 DEF NotesInv, PartsInv
    <2> QED
      BY <1>7, <2>4, <2>5, <2>6, <2>7 DEF NotesInv
  <1>8. \/ n <= Len(s) /\ got' = SubSeq(s, 1, n) /\ client' = [client EXCEPT !.rest = r]
        \/ client' = Nothing /\ got' = got
    BY <1>5 DEF ClientReads, ClientGets, ClientWaits
  <1> QED
    BY <1>6, <1>7, <1>8

-----------------------------------------------------------------------------
(* send_task sends the notification whole, and is done with it.            *)
LEMMA SendWholeStep ==
  ASSUME NotesInv, SendWhole
  PROVE  NotesInv' /\ UNCHANGED got
  <1>1. SendTypes /\ LinkInv /\ data \in Seq(ByteSet)
    BY DEF NotesInv, SendTypes
  <1>2. /\ UNCHANGED <<spp_send_queue, messages, is_connected, main, room, data_pos, pack_size>>
        /\ UNCHANGED chunk_num
        /\ sending = "choose" /\ sending' = "loop" /\ data' = <<>>
    BY DEF SendWhole, Goes, queueing, gatt, stopping
  <1>3. CASE UNCHANGED <<client, got>>
    <2>1. SendTypes'
      BY <1>1, <1>2, <1>3, EmptyFlows DEF SendTypes
    <2>2. LinkInv' /\ PartsInv'
      BY <1>1, <1>2, <1>3 DEF LinkInv, PartsInv
    <2>3. ASSUME Open' PROVE OrderInv'
      BY <1>2, <1>3, <2>3, DroppedInOrder DEF NotesInv, Open
    <2> QED
      BY <1>3, <2>1, <2>2, <2>3 DEF NotesInv
  <1>4. CASE is_connected /\ ClientTakesWhole(data)
    <2>1. /\ client' = [data |-> <<>>, next |-> 0, rest |-> data] /\ got' = got
      BY <1>4, NothingIs DEF ClientTakesWhole, ClientWaits
    <2>2. /\ client' \in ClientSet /\ client'.next = 0 /\ client'.rest = data
      BY <1>1, <2>1, EmptyFlows DEF ClientSet
    <2>3. SendTypes'
      BY <1>1, <1>2, <2>1, <2>2, EmptyFlows DEF SendTypes
    <2>4. LinkInv' /\ PartsInv'
      BY <1>1, <1>2, <1>4, <2>2 DEF LinkInv, PartsInv
    <2>5. ASSUME Open' PROVE OrderInv'
      <3>1. OrderInv /\ Newest' = Newest
        BY <1>2, <2>1, <2>5 DEF NotesInv, Open, Newest
      <3>2. \A n \in Nat : Before(n) /\ Below(data, n) => Before(n)'
        BY <2>2, <3>1 DEF Before
      <3>3. Flow(data) /\ Above(data, Newest)
        <4>1. Flow(data) /\ \A k \in 1..Len(data) : Before(data[k].id)
          BY <3>1, <1>2 DEF OrderInv, DataInv
        <4>2. ASSUME NEW k \in 1..Len(data) PROVE data[k].id > Newest
          <5>1. Newest < data[k].id /\ data[k].id \in Nat /\ Newest \in Nat
            BY <4>1, <1>1, ByteIs, ClientIs DEF Before
          <5> QED
            BY <5>1
        <4> QED
          BY <4>1, <4>2 DEF Above
      <3> QED
        BY <1>2, <2>2, <3>1, <3>2, <3>3, ClientGoesOn
    <2> QED
      BY <2>1, <2>3, <2>4, <2>5 DEF NotesInv
  <1>5. UNCHANGED <<client, got>> \/ (is_connected /\ ClientTakesWhole(data))
    BY DEF SendWhole, Accepts, Refused
  <1> QED
    BY <1>3, <1>4, <1>5

(* The head: the client begins with the first message of the notification. *)
LEMMA SendHeadStep ==
  ASSUME NotesInv, SendHead
  PROVE  NotesInv' /\ UNCHANGED got
  <1>. DEFINE b == SubSeq(data, 1, room)
  <1>1. SendTypes /\ LinkInv /\ data \in Seq(ByteSet) /\ room \in Nat
    BY DEF NotesInv, SendTypes
  <1>2. /\ UNCHANGED <<spp_send_queue, messages, data, is_connected, main, room>>
        /\ sending = "choose" /\ sending' = "parts"
        /\ data_pos' = room /\ pack_size' = room /\ chunk_num' = 1 /\ Len(data) > room
    BY DEF SendHead, Goes, queueing, gatt, stopping
  <1>3. /\ room \in 1..Len(data) /\ room \in 0..Len(data) /\ room >= PartSize
        /\ 1 \in 1..room /\ 1 \in 1..Len(data)
    <2>1. Len(data) \in Nat /\ room >= DefaultRoom
      BY <1>1, LenProperties DEF SendTypes
    <2>2. room >= 1 /\ room >= PartSize
      BY <1>1, <2>1, BleSendConstants
    <2> QED
      BY <1>1, <1>2, <2>1, <2>2
  <1>4. /\ b \in Seq(ByteSet) /\ Len(b) = room /\ \A i \in 1..room : b[i] = data[i]
    BY <1>1, <1>3, UpToIs
  <1>5. b # <<>> /\ b[1] = data[1] /\ data[1].id \in Nat
    <2>1. Len(b) # 0
      BY <1>3, <1>4
    <2> QED
      BY <1>1, <1>3, <1>4, <2>1, ByteIs, EmptyFlows
  <1>6. \A n : Below(data, n) => Below(b, n) /\ data[1].id < n
    BY <1>2, <1>3, <1>4 DEF Below
  <1>. HIDE DEF b
  <1>7. ASSUME Open, NEW c \in {b, <<>>}
        PROVE  Flow(c) /\ Above(c, Newest) /\ data[1].id > Newest
    <2>1. Flow(data) /\ \A k \in 1..Len(data) : Before(data[k].id)
      BY <1>2, <1>7 DEF NotesInv, OrderInv, DataInv
    <2>2. Flow(b)
      BY <1>1, <1>3, <2>1, BeginningFlows DEF b
    <2>3. \A k \in 1..room : k \in 1..Len(data)
      BY <1>1, <1>3
    <2>4. ASSUME NEW k \in 1..room PROVE data[k].id > Newest
      <3>1. k \in 1..Len(data)
        BY <2>3
      <3>2. Newest < data[k].id /\ data[k].id \in Nat /\ Newest \in Nat
        BY <2>1, <3>1, <1>1, ByteIs, ClientIs DEF Before
      <3> QED
        BY <3>2
    <2>5. Above(b, Newest) /\ data[1].id > Newest
      BY <2>4, <1>3, <1>4 DEF Above
    <2> QED
      BY <2>2, <2>5, EmptyFlows
  <1>8. CASE UNCHANGED <<client, got>> /\ headLost'
    <2>1. SendTypes'
      BY <1>1, <1>2, <1>8, BleSendConstants DEF SendTypes
    <2>2. LinkInv' /\ PartsInv'
      BY <1>1, <1>2, <1>3, <1>8 DEF LinkInv, PartsInv
    <2>3. ASSUME Open' PROVE OrderInv'
      <3>1. OrderInv
        BY <1>2, <2>3 DEF NotesInv, Open
      <3>2. Newest' = Newest /\ \A n : Before(n) => Before(n)'
        BY <1>8, ClientKept
      <3>3. Flow(client'.rest) /\ Above(client'.rest, Newest')
            /\ (client'.next # 0 => client'.data[1].id > Newest')
        BY <1>8, <3>1, <3>2 DEF OrderInv, ClientInv
      <3>4. \A n \in Nat : Before(n) /\ Below(data, n) => Before(n)'
        BY <3>2
      <3> QED
        BY <1>2, <3>1, <3>3, <3>4, ClientGoesOn
    <2> QED
      BY <1>8, <2>1, <2>2, <2>3 DEF NotesInv
  <1>9. CASE /\ is_connected /\ got' = got
             /\ client' = [data |-> b, next |-> 1, rest |-> <<>>]
    <2>1. /\ client' \in ClientSet /\ client'.next = 1 /\ client'.rest = <<>> /\ client'.data = b
      BY <1>4, <1>9, EmptyFlows DEF ClientSet
    <2>2. SendTypes'
      BY <1>1, <1>2, <1>9, <2>1, BleSendConstants DEF SendTypes
    <2>3. LinkInv'
      BY <1>1, <1>2, <1>5, <1>9, <2>1 DEF LinkInv
    <2>4. PartsInv'
      BY <1>2, <1>3, <2>1 DEF PartsInv, b
    <2>5. ASSUME Open' PROVE OrderInv'
      <3>1. OrderInv /\ Newest' = Newest /\ Open
        BY <1>2, <1>9, <2>5 DEF NotesInv, Open, Newest
      <3>2. \A n \in Nat : Before(n) /\ Below(data, n) => Before(n)'
        BY <2>1, <3>1, <1>5, <1>6, EmptyFlows DEF Before
      <3>3. Flow(client'.rest) /\ Above(client'.rest, Newest')
            /\ (client'.next # 0 => client'.data[1].id > Newest')
        BY <1>5, <1>7, <2>1, <3>1
      <3> QED
        BY <1>2, <3>1, <3>2, <3>3, ClientGoesOn
    <2> QED
      BY <1>9, <2>2, <2>3, <2>4, <2>5 DEF NotesInv
  <1>10. CASE /\ is_connected /\ got' = got
              /\ client' = [data |-> <<>>, next |-> 0, rest |-> b]
    <2>1. /\ client' \in ClientSet /\ client'.next = 0 /\ client'.rest = b
      BY <1>4, <1>10, EmptyFlows DEF ClientSet
    <2>2. SendTypes'
      BY <1>1, <1>2, <1>10, <2>1, BleSendConstants DEF SendTypes
    <2>3. LinkInv'
      BY <1>1, <1>2, <1>10, <2>1 DEF LinkInv
    <2>4. PartsInv'
      BY <1>2, <1>3, <2>1 DEF PartsInv
    <2>5. ASSUME Open' PROVE OrderInv'
      <3>1. OrderInv /\ Newest' = Newest /\ Open
        BY <1>2, <1>10, <2>5 DEF NotesInv, Open, Newest
      <3>2. \A n \in Nat : Before(n) /\ Below(data, n) => Before(n)'
        BY <2>1, <3>1, <1>6 DEF Before
      <3>3. Flow(client'.rest) /\ Above(client'.rest, Newest')
            /\ (client'.next # 0 => client'.data[1].id > Newest')
        BY <1>7, <2>1, <3>1
      <3> QED
        BY <1>2, <3>1, <3>2, <3>3, ClientGoesOn
    <2> QED
      BY <1>10, <2>2, <2>3, <2>4, <2>5 DEF NotesInv
  <1>11. \/ UNCHANGED <<client, got>> /\ headLost'
         \/ is_connected /\ ClientTakesHead(b)
    BY DEF SendHead, Accepts, Refused, b
  <1>12. CASE is_connected /\ ClientTakesHead(b)
    BY <1>12, <1>9, <1>10, NothingIs DEF ClientTakesHead, ClientWaits
  <1> QED
    BY <1>8, <1>11, <1>12

(* A part: the client puts it behind what it has if it is the next, and    *)
(* that may complete the message.                                          *)
LEMMA PartIs ==
  ASSUME NotesInv, SendPart
  PROVE  /\ PartLength \in Nat /\ data_pos' = data_pos + PartLength
         /\ data_pos' \in data_pos..Len(data) /\ data_pos \in 1..Len(data)
         /\ sending = "parts"
  <1>1. /\ data \in Seq(ByteSet) /\ pack_size \in Nat /\ PartSize \in Nat
        /\ sending = "parts" /\ data_pos' = data_pos + PartLength
    BY BleSendConstants DEF NotesInv, SendTypes, SendPart
  <1>2. data_pos \in 1..Len(data) /\ pack_size >= PartSize
    BY <1>1 DEF NotesInv, PartsInv
  <1>3. Len(data) \in Nat
    BY <1>1, LenProperties
  <1>. DEFINE x == Len(data) - data_pos
              y == pack_size - PartSize
  <1>4. x \in Nat /\ y \in Nat
    BY <1>1, <1>2, <1>3
  <1>5. PartLength = Lesser(x, y)
    BY DEF PartLength
  <1>. HIDE DEF y
  <1>6. PartLength \in Nat /\ PartLength <= x
    BY <1>4, <1>5 DEF Lesser
  <1> QED
    BY <1>1, <1>2, <1>3, <1>6

LEMMA SendPartStep ==
  ASSUME NotesInv, SendPart
  PROVE  NotesInv' /\ (got' # got => InOrder)
  <1>. DEFINE part == SubSeq(data, data_pos + 1, data_pos')
              all == client.data \o part
              expected == client.next # 0 /\ chunk_num = client.next
  <1>1. /\ SendTypes /\ LinkInv /\ PartsInv /\ data \in Seq(ByteSet) /\ client \in ClientSet
        /\ client.rest = <<>> /\ chunk_num \in Nat /\ client.next \in Nat
        /\ client.data \in Seq(ByteSet)
    BY DEF NotesInv, SendTypes, SendPart, ClientReady, ClientSet
  <1>2. /\ UNCHANGED <<spp_send_queue, messages, is_connected, main, room, pack_size>>
        /\ chunk_num' = chunk_num + 1
        /\ \/ data_pos' < Len(data) /\ data' = data /\ sending' = sending
           \/ data' = <<>> /\ sending' = "loop"
    BY DEF SendPart, queueing, gatt, stopping
  <1>3. /\ data_pos \in 1..Len(data) /\ data_pos' \in data_pos..Len(data) /\ sending = "parts"
        /\ Len(data) \in Nat /\ data_pos' \in Nat /\ data_pos' \in 1..Len(data)
        /\ data_pos \in 0..Len(data)
    <2>1. /\ data_pos \in 1..Len(data) /\ data_pos' \in data_pos..Len(data)
          /\ sending = "parts" /\ Len(data) \in Nat
      BY <1>1, PartIs, LenProperties
    <2> QED
      BY <2>1
  <1>4. part \in Seq(ByteSet)
    <2>1. \A i \in (data_pos + 1)..data_pos' : data[i] \in ByteSet
      <3>1. \A i \in (data_pos + 1)..data_pos' : i \in 1..Len(data)
        BY <1>3
      <3> QED
        BY <1>1, <3>1, ElementOfSeq
    <2>2. data_pos + 1 \in Int /\ data_pos' \in Int
      BY <1>3
    <2> QED
      BY <2>1, <2>2, SubSeqProperties
  <1>. HIDE DEF part
  <1>5. /\ all \in Seq(ByteSet)
        /\ client.next # 0 => all # <<>> /\ all[1] = client.data[1] /\ all[1].id \in Nat
    <2>1. all \in Seq(ByteSet) /\ Len(all) = Len(client.data) + Len(part)
          /\ \A i \in 1..(Len(client.data) + Len(part)) :
                all[i] = IF i <= Len(client.data) THEN client.data[i] ELSE part[i - Len(client.data)]
      BY <1>1, <1>4, ConcatProperties
    <2>. HIDE DEF all
    <2>2. ASSUME client.next # 0 PROVE all # <<>> /\ all[1] = client.data[1] /\ all[1].id \in Nat
      <3>1. 1 \in 1..Len(client.data) /\ client.data[1].id \in Nat
        BY <1>1, <2>2, ClientIs
      <3>2. Len(part) \in Nat /\ Len(client.data) \in Nat
        BY <1>1, <1>4, LenProperties
      <3>3. 1 \in 1..(Len(client.data) + Len(part)) /\ 1 <= Len(client.data) /\ Len(all) # 0
        BY <2>1, <3>1, <3>2
      <3> QED
        BY <2>1, <3>1, <3>3, EmptyFlows
    <2> QED
      BY <2>1, <2>2
  <1>6. ASSUME expected, ~headLost
        PROVE  all = SubSeq(data, 1, data_pos')
    <2>1. client.data = SubSeq(data, 1, data_pos)
      BY <1>1, <1>3, <1>6 DEF PartsInv
    <2>2. SubSeq(data, 1, data_pos) \o part = SubSeq(data, 1, data_pos')
      BY <1>1, <1>3, PartFollows DEF part
    <2> QED
      BY <2>1, <2>2
  <1>. HIDE DEF all
  <1>7. data' \in Seq(ByteSet)
    BY <1>1, <1>2, EmptyFlows
  <1>8. \/ UNCHANGED <<client, got>> /\ (headLost' => headLost)
              /\ (headLost => headLost')
        \/ is_connected /\ headLost' = headLost /\ ClientTakesPart(chunk_num, part)
    BY DEF SendPart, Accepts, Refused, ClientTakesPart, part
  <1>9. ASSUME \A n \in Nat : Before(n) => Before(n)',
               Open => /\ Flow(client'.rest) /\ Above(client'.rest, Newest')
                       /\ client'.next # 0 => client'.data[1].id > Newest'
        PROVE  Open' => OrderInv'
    <2> SUFFICES ASSUME Open' PROVE OrderInv'
      OBVIOUS
    <2>1. OrderInv /\ Open
      BY <1>2 DEF NotesInv, Open
    <2>2. \A n \in Nat : Before(n) /\ Below(data, n) => Before(n)'
      BY <1>9
    <2>3. data' = <<>> \/ (data' = data /\ sending' = "parts")
      BY <1>2, <1>3
    <2> QED
      BY <1>2, <1>9, <2>1, <2>2, <2>3, ClientGoesOn
  <1>10. CASE UNCHANGED <<client, got>> /\ (headLost' => headLost) /\ (headLost => headLost')
    <2>1. SendTypes'
      BY <1>1, <1>2, <1>3, <1>7, <1>10 DEF SendTypes
    <2>2. LinkInv'
      BY <1>1, <1>2, <1>10 DEF LinkInv
    <2>3. PartsInv'
      BY <1>1, <1>2, <1>3, <1>10 DEF PartsInv
    <2>4. Newest' = Newest /\ \A n : Before(n) => Before(n)'
      BY <1>10, ClientKept
    <2>5. Open => /\ Flow(client'.rest) /\ Above(client'.rest, Newest')
                  /\ client'.next # 0 => client'.data[1].id > Newest'
      BY <1>10, <2>4 DEF NotesInv, OrderInv, ClientInv
    <2>6. Open' => OrderInv'
      BY <1>9, <2>4, <2>5
    <2> QED
      BY <1>10, <2>1, <2>2, <2>3, <2>6 DEF NotesInv
  <1>11. CASE /\ is_connected /\ headLost' = headLost /\ expected /\ Len(all) = Length(all)
              /\ client' = Nothing /\ got' = all
    <2>1. client' \in ClientSet /\ client'.next = 0 /\ client'.rest = <<>>
      BY <1>11, NothingIs
    <2>2. Newest' = client.data[1].id /\ client.next # 0
      BY <1>5, <1>11 DEF Newest
    <2>3. SendTypes'
      <3>1. got' \in Seq(ByteSet)
        BY <1>5, <1>11
      <3>2. chunk_num' \in Nat
        BY <1>1, <1>2
      <3> QED
        BY <1>1, <1>2, <1>3, <1>7, <2>1, <3>1, <3>2 DEF SendTypes
    <2>4. LinkInv'
      BY <1>1, <1>2, <1>11, <2>1 DEF LinkInv
    <2>5. PartsInv'
      BY <1>1, <1>2, <1>3, <2>1 DEF PartsInv
    <2>6. \A n \in Nat : Before(n) => Before(n)'
      BY <2>1, <2>2, EmptyFlows DEF Before
    <2>7. Open' => OrderInv'
      BY <1>9, <2>1, <2>6, EmptyFlows
    <2>8. OrderInv
      BY <1>1, <1>11 DEF NotesInv, LinkInv, Open
    <2>9. got'[1].id > Newest
      BY <1>5, <1>11, <2>2, <2>8 DEF OrderInv, ClientInv
    <2>10. IsWhole(got') \/ Mixed
      <3> SUFFICES ASSUME ~headLost PROVE IsWhole(got')
        BY <2>2 DEF Mixed
      <3>1. got' = SubSeq(data, 1, data_pos')
        BY <1>6, <1>11
      <3>2. Len(got') = data_pos' /\ got'[1] = data[1] /\ data # <<>>
        <4>1. data_pos' \in 0..Len(data) /\ 1 \in 1..data_pos'
          BY <1>3
        <4>2. Len(data) # 0
          BY <1>3
        <4>3. data # <<>>
          BY <4>2, EmptyFlows
        <4>. DEFINE k == data_pos'
        <4>. HIDE DEF k
        <4>4. k \in 0..Len(data) /\ 1 \in 1..k
          BY <4>1 DEF k
        <4>5. /\ Len(SubSeq(data, 1, k)) = k
              /\ SubSeq(data, 1, k)[1] = data[1]
          BY <1>1, <4>4, UpToIs
        <4> QED
          BY <3>1, <4>3, <4>5 DEF k
      <3>3. data_pos' = HeaderSize + data[1].size /\ HeaderSize + data[1].size <= Len(data)
        <4>1. Len(got') = HeaderSize + got'[1].size
          BY <1>11 DEF Length
        <4> QED
          BY <4>1, <3>2, <1>3
      <3>4. Flow(data)
        BY <2>8 DEF OrderInv, DataInv
      <3>5. got' = Packet([id |-> data[1].id, size |-> data[1].size])
        BY <1>1, <3>1, <3>2, <3>3, <3>4, FrontIsWhole
      <3> QED
        BY <3>2, <3>5 DEF IsWhole
    <2> QED
      BY <2>3, <2>4, <2>5, <2>7, <2>9, <2>10 DEF NotesInv, InOrder
  <1>12. CASE /\ is_connected /\ headLost' = headLost /\ expected
              /\ client' = [client EXCEPT !.data = all, !.next = chunk_num + 1] /\ got' = got
    <2>1. /\ client' \in ClientSet /\ client'.next = chunk_num + 1 /\ client'.rest = <<>>
          /\ client'.data = all
      <3>. DEFINE k == chunk_num + 1
      <3>1. k \in Nat
        BY <1>1
      <3>. HIDE DEF k
      <3>2. client' = [client EXCEPT !.data = all, !.next = k]
        BY <1>12 DEF k
      <3>3. client' = [data |-> all, next |-> k, rest |-> client.rest]
        BY <1>1, <3>2 DEF ClientSet
      <3>4. all \in Seq(ByteSet) /\ <<>> \in Seq(ByteSet)
        BY <1>5, EmptyFlows
      <3>5. client' \in ClientSet
        BY <1>1, <3>1, <3>3, <3>4 DEF ClientSet
      <3> QED
        BY <1>1, <3>3, <3>5 DEF k
    <2>2. Newest' = Newest /\ client.next # 0
      BY <1>12 DEF Newest
    <2>3. SendTypes'
      BY <1>1, <1>2, <1>3, <1>7, <1>12, <2>1 DEF SendTypes
    <2>4. LinkInv'
      BY <1>1, <1>2, <1>5, <1>12, <2>1 DEF LinkInv
    <2>5. PartsInv'
      <3> SUFFICES ASSUME sending' = "parts", ~headLost'
                   PROVE  client'.next = chunk_num' /\ client'.data = SubSeq(data', 1, data_pos')
        BY <1>1, <1>2, <1>3 DEF PartsInv
      <3>1. data' = data
        BY <1>2
      <3>2. all = SubSeq(data, 1, data_pos')
        BY <1>6, <1>12
      <3> QED
        BY <1>2, <2>1, <3>1, <3>2
    <2>6. \A n \in Nat : Before(n) => Before(n)'
      BY <1>5, <2>1, <2>2, EmptyFlows DEF Before
    <2>7. Open => client'.data[1].id > Newest'
      BY <1>5, <2>1, <2>2 DEF NotesInv, OrderInv, ClientInv
    <2>8. Open' => OrderInv'
      BY <1>9, <2>1, <2>6, <2>7, EmptyFlows
    <2> QED
      BY <1>12, <2>3, <2>4, <2>5, <2>8 DEF NotesInv
  <1>13. CASE is_connected /\ client' = Nothing /\ got' = got
    <2>1. client' \in ClientSet /\ client'.next = 0 /\ client'.rest = <<>>
      BY <1>13, NothingIs
    <2>2. Newest' = Newest
      BY <1>13 DEF Newest
    <2>3. SendTypes'
      BY <1>1, <1>2, <1>3, <1>7, <1>13, <2>1 DEF SendTypes
    <2>4. LinkInv'
      BY <1>1, <1>2, <1>13, <2>1 DEF LinkInv
    <2>5. PartsInv'
      BY <1>1, <1>2, <1>3, <2>1 DEF PartsInv
    <2>6. \A n \in Nat : Before(n) => Before(n)'
      BY <2>1, <2>2, EmptyFlows DEF Before
    <2>7. Open' => OrderInv'
      BY <1>9, <2>1, <2>6, EmptyFlows
    <2> QED
      BY <1>13, <2>3, <2>4, <2>5, <2>7 DEF NotesInv
  <1>14. CASE is_connected /\ headLost' = headLost /\ ClientTakesPart(chunk_num, part)
    <2>1. \/ expected /\ Len(all) = Length(all) /\ client' = Nothing /\ got' = all
          \/ /\ expected /\ got' = got
             /\ client' = [client EXCEPT !.data = all, !.next = chunk_num + 1]
          \/ client' = Nothing /\ got' = got
      BY <1>14 DEF ClientTakesPart, ClientGets, ClientWaits, all
    <2> QED
      BY <1>11, <1>12, <1>13, <1>14, <2>1
  <1> QED
    BY <1>8, <1>10, <1>14

-----------------------------------------------------------------------------
LEMMA NotesStep == NotesInv /\ [Next]_vars => NotesInv' /\ (got' # got => InOrder)
  <1> SUFFICES ASSUME NotesInv, [Next]_vars PROVE NotesInv' /\ (got' # got => InOrder)
    OBVIOUS
  <1>1. CASE \/ SendPacket \/ SendLoop \/ ReceiveTimesOut \/ TakesCongested \/ PackEnds
             \/ Connects \/ Subscribes \/ ResetsMtu \/ \E n \in Rooms : MtuChanges(n)
             \/ Congests \/ HandlesCongest \/ StopWaits \/ StopForbids \/ UNCHANGED vars
    BY <1>1, QuietSteps
  <1>2. CASE \E size \in Sizes : BleSends(size)
    BY <1>2, BleSendsStep
  <1>3. CASE SendReceives
    BY <1>3, SendReceivesStep
  <1>4. CASE PackAdds
    BY <1>4, PackAddsStep
  <1>5. CASE PackMeetsSentinel \/ StopQueues \/ StopJoins
    BY <1>5, SentinelSteps
  <1>6. CASE GivesCongested \/ SendHeadFails
    BY <1>6, DropSteps
  <1>7. CASE Disconnects
    BY <1>7, DisconnectsStep
  <1>8. CASE ClientReads
    BY <1>8, ClientReadsStep
  <1>9. CASE SendWhole
    BY <1>9, SendWholeStep
  <1>10. CASE SendHead
    BY <1>10, SendHeadStep
  <1>11. CASE SendPart
    BY <1>11, SendPartStep
  <1> QED
    BY <1>1, <1>2, <1>3, <1>4, <1>5, <1>6, <1>7, <1>8, <1>9, <1>10, <1>11 DEF Next, SendTask, Stop

LEMMA AlwaysNotes == Spec => []NotesInv
  <1>1. NotesInv /\ [Next]_vars => NotesInv'
    BY NotesStep
  <1> QED
    BY NotesInit, <1>1, PTL DEF Spec

(* What a client gets is a message that was queued, whole, and later than  *)
(* all it got before, whatever was refused and whichever MTU came and went *)
(* meanwhile; unless the head of a split message was refused while it put  *)
(* another together.                                                       *)
THEOREM MessagesArriveWhole == Spec => WholeInOrder
  <1>1. NotesInv /\ [Next]_vars => [got' # got => InOrder]_vars
    BY NotesStep
  <1> QED
    BY <1>1, AlwaysNotes, PTL DEF Spec, WholeInOrder
=============================================================================
