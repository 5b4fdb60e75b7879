---------------------------- MODULE DriverProofs ----------------------------
(***************************************************************************)
(* Proofs about the two drivers that lose what is in their way when they   *)
(* are cleared or restarted: UartReceive, then Twai.                       *)
(*                                                                         *)
(* Whatever the UART driver loses and whatever is cleared,                 *)
(* uart_receive_task never puts two packets together.  The bytes in the    *)
(* ring, in the driver and in the hardware are looked at as one stream,    *)
(* which a step shortens at its front, extends at its end or cuts between  *)
(* the driver and the hardware; behind such a cut stands an event that     *)
(* clears what is before it.                                               *)
(*                                                                         *)
(* Every call of the CAN driver finds it in the state it needs, for any    *)
(* number of links, frames and times the bus goes off.  The invariant ties *)
(* each alert, from the controller to the step that acts on it, to the     *)
(* state of the driver, and the state of the driver to the gate.           *)
(***************************************************************************)
EXTENDS UartReceive, Twai, SequenceTheorems, TLAPS

(* What the client sends.                                                  *)
Bytes == {b \in [packet : Nat \ {0}, place : Nat \ {0}, length : Lengths] :
              b.place <= b.length}

LastSent == Byte(packet, place, length)

(* No packet is short enough to be used.                                   *)
Hopeless == \A n \in Lengths : n > BufferSize

(* The bytes that are under way, the first in the ring.                    *)
Ring == [k \in 1..uart_buffer_length |-> Content(k - 1)]

Stream == Ring \o input \o fifo

TypeInv ==
    /\ TypeOK
    /\ Ring \in Seq(Bytes) /\ input \in Seq(Bytes)
    /\ fifo \in Seq(Bytes) /\ Len(fifo) <= FifoSize
    /\ events \in Seq(0..FifoSize)
    /\ \/ packet = 0 /\ place = 0 /\ length = 0
       \/ LastSent \in Bytes
    /\ receiving = "reset" => uart_buffer_length = 0

(* When the task takes an event, the ring has room for its bytes.          *)
RoomInv ==
    receiving # "parse" => Hopeless \/ uart_buffer_length + FifoSize <= BufferSize

-----------------------------------------------------------------------------
(* b comes after a; b is the byte d places after a, if that is in a's      *)
(* packet.                                                                 *)
After(a, b) ==
    \/ b.packet > a.packet
    \/ b.packet = a.packet /\ b.length = a.length /\ b.place > a.place

Exact(a, b, d) ==
    a.place + d <= a.length => b = Byte(a.packet, a.place + d, a.length)

InOrder(s) == \A i, j \in 1..Len(s) : i < j => After(s[i], s[j])

UpTo(s, last) == \A i \in 1..Len(s) : s[i] = last \/ After(s[i], last)

Beyond(s, p) == \A i \in 1..Len(s) : s[i].packet > p

(* No byte is missing among the first n.                                   *)
Gapless(s, n) == \A i, j \in 1..n : i <= j => Exact(s[i], s[j], j - i)

EndsWith(s, last) == s # <<>> => s[Len(s)] = last

(* The stream goes up to the last byte sent, and is past what was handed   *)
(* over.                                                                   *)
OrderInv ==
    /\ InOrder(Stream) /\ UpTo(Stream, LastSent)
    /\ handed # <<>> =>
          /\ Beyond(Stream, Last(handed).packet)
          /\ \/ packet > Last(handed).packet
             \/ packet = Last(handed).packet /\ place = length

(* Nothing is missing in the hardware's part; nor, unless an event says    *)
(* so, in the rest.                                                        *)
Clean == \A k \in 1..Len(events) : events[k] # Overflow

GapInv ==
    /\ Gapless(fifo, Len(fifo)) /\ EndsWith(fifo, LastSent)
    /\ Clean => Gapless(Stream, Len(Stream)) /\ EndsWith(Stream, LastSent)

(* The events cut the bytes in the driver into pieces, of which m has the  *)
(* ends; some bytes at the end may be announced by none.                   *)
Marks(m, e) ==
    /\ m[0] = 0
    /\ \A k \in 1..Len(e) : m[k] = m[k - 1] + e[k]
    /\ \A j, k \in 0..Len(e) : j <= k => m[j] <= m[k]

(* Up to the first overflow event nothing is missing.                      *)
CleanTo(k) == \A j \in 1..k : events[j] # Overflow

Certain == ~unnoticed /\ ~Hopeless

MarkInv ==
    receiving # "reset" =>
        \E m \in [0..Len(events) -> 0..Len(input)] :
            /\ Marks(m, events)
            /\ Certain => \A k \in 0..Len(events) :
                              CleanTo(k) => Gapless(Stream, uart_buffer_length + m[k])

HandInv ==
    /\ Hopeless => handed = <<>>
    /\ Certain => DeliveredWhole

UartInv ==
    /\ TypeInv /\ RoomInv /\ MarkInv /\ HandInv
    /\ Certain => OrderInv /\ GapInv

-----------------------------------------------------------------------------
(* Sequences.                                                              *)

(* What is left of s without its first n elements.                         *)
Without(s, n) == SubSeq(s, n + 1, Len(s))

LEMMA WithoutIs ==
  ASSUME NEW S, NEW s \in Seq(S), NEW n \in 0..Len(s)
  PROVE  /\ Without(s, n) \in Seq(S) /\ Len(Without(s, n)) = Len(s) - n
         /\ \A i \in 1..(Len(s) - n) : Without(s, n)[i] = s[i + n]
  <1>1. Len(s) \in Nat /\ n \in Nat /\ \A i \in 1..Len(s) : s[i] \in S
    BY LenProperties, ElementOfSeq
  <1>2. \A i \in (n + 1)..Len(s) : s[i] \in S
    BY <1>1
  <1>3. n + 1 \in Int /\ Len(s) \in Int
    BY <1>1
  <1>. DEFINE t == SubSeq(s, n + 1, Len(s))
  <1>4. /\ t \in Seq(S)
        /\ Len(t) = IF n + 1 <= Len(s) THEN Len(s) - (n + 1) + 1 ELSE 0
        /\ \A i \in 1..(Len(s) - (n + 1) + 1) : t[i] = s[(n + 1) + i - 1]
    BY <1>2, <1>3, SubSeqProperties
  <1>. HIDE DEF t
  <1>5. Len(t) = Len(s) - n
    BY <1>1, <1>4
  <1>6. \A i \in 1..(Len(s) - n) : t[i] = s[i + n]
    <2> SUFFICES ASSUME NEW i \in 1..(Len(s) - n) PROVE t[i] = s[i + n]
      OBVIOUS
    <2>1. i \in 1..(Len(s) - (n + 1) + 1) /\ (n + 1) + i - 1 = i + n
      BY <1>1
    <2> QED
      BY <2>1, <1>4
  <1> QED
    BY <1>4, <1>5, <1>6 DEF t, Without

(* The elements of a part of the stream.                                   *)
LEMMA JoinIs ==
  ASSUME NEW S, NEW a \in Seq(S), NEW b \in Seq(S), NEW c \in Seq(S)
  PROVE  /\ a \o b \o c \in Seq(S)
         /\ Len(a \o b \o c) = Len(a) + Len(b) + Len(c)
         /\ \A i \in 1..(Len(a) + Len(b) + Len(c)) :
               (a \o b \o c)[i] = IF i <= Len(a) THEN a[i]
                                  ELSE IF i <= Len(a) + Len(b) THEN b[i - Len(a)]
                                  ELSE c[i - (Len(a) + Len(b))]
  <1>1. Len(a) \in Nat /\ Len(b) \in Nat /\ Len(c) \in Nat
    BY LenProperties
  <1>2. /\ a \o b \in Seq(S) /\ Len(a \o b) = Len(a) + Len(b)
        /\ \A i \in 1..(Len(a) + Len(b)) :
              (a \o b)[i] = IF i <= Len(a) THEN a[i] ELSE b[i - Len(a)]
    BY ConcatProperties
  <1>. DEFINE ab == a \o b
  <1>. HIDE DEF ab
  <1>3. /\ ab \in Seq(S) /\ Len(ab) = Len(a) + Len(b)
        /\ \A i \in 1..(Len(a) + Len(b)) :
              ab[i] = IF i <= Len(a) THEN a[i] ELSE b[i - Len(a)]
    BY <1>2 DEF ab
  <1>4. /\ ab \o c \in Seq(S) /\ Len(ab \o c) = Len(ab) + Len(c)
        /\ \A i \in 1..(Len(ab) + Len(c)) :
              (ab \o c)[i] = IF i <= Len(ab) THEN ab[i] ELSE c[i - Len(ab)]
    <2>1. ab \in Seq(S)
      BY <1>3
    <2> QED
      BY <2>1, ConcatProperties, Zenon
  <1>. DEFINE t == ab \o c
  <1>. HIDE DEF t
  <1>5. /\ t \in Seq(S) /\ Len(t) = Len(ab) + Len(c)
        /\ \A i \in 1..(Len(ab) + Len(c)) :
              t[i] = IF i <= Len(ab) THEN ab[i] ELSE c[i - Len(ab)]
    BY <1>4 DEF t
  <1>6. Len(t) = Len(a) + Len(b) + Len(c)
    BY <1>1, <1>3, <1>5
  <1>7. \A i \in 1..(Len(a) + Len(b) + Len(c)) :
            t[i] = IF i <= Len(a) THEN a[i]
                   ELSE IF i <= Len(a) + Len(b) THEN b[i - Len(a)]
                   ELSE c[i - (Len(a) + Len(b))]
    BY <1>1, <1>3, <1>5
  <1> QED
    BY <1>5, <1>6, <1>7 DEF t, ab

(* The driver stores what the hardware has: the stream is the same.        *)
LEMMA Moved ==
  ASSUME NEW S, NEW a \in Seq(S), NEW b \in Seq(S), NEW c \in Seq(S)
  PROVE  a \o (b \o c) \o <<>> = a \o b \o c
  <1>1. b \o c \in Seq(S) /\ a \o (b \o c) \in Seq(S)
    BY ConcatProperties
  <1>2. a \o (b \o c) \o <<>> = a \o (b \o c)
    BY <1>1, ConcatEmptySeq
  <1>3. a \o (b \o c) = (a \o b) \o c
    BY ConcatAssociative
  <1> QED
    BY <1>2, <1>3

(* So it is when the task moves n bytes from the driver into the ring.     *)
LEMMA PartsJoin ==
  ASSUME NEW S, NEW b \in Seq(S), NEW n \in 0..Len(b)
  PROVE  /\ SubSeq(b, 1, n) \in Seq(S) /\ Without(b, n) \in Seq(S)
         /\ SubSeq(b, 1, n) \o Without(b, n) = b
  <1>1. Len(b) \in Nat
    BY LenProperties
  <1>2. SubSeq(b, 1, n) \o SubSeq(b, n + 1, Len(b)) = SubSeq(b, 1, Len(b))
    <2>1. 1 \in 1..(Len(b) + 1) /\ n \in (1 - 1)..Len(b) /\ Len(b) \in n..Len(b)
      BY <1>1
    <2> QED
      BY <2>1, ConcatAdjacentSubSeq
  <1>3. SubSeq(b, 1, Len(b)) = b
    BY SubSeqFull
  <1>4. SubSeq(b, 1, n) \in Seq(S)
    <2>1. \A i \in 1..n : b[i] \in S
      BY <1>1, ElementOfSeq
    <2> QED
      BY <1>1, <2>1, SubSeqProperties
  <1>5. Without(b, n) \in Seq(S)
    BY WithoutIs
  <1>6. SubSeq(b, 1, n) \o Without(b, n) = b
    BY <1>2, <1>3 DEF Without
  <1> QED
    BY <1>4, <1>5, <1>6

(* The hardware's part is lost, or what is before it: a prefix, a suffix.  *)
LEMMA Cut ==
  ASSUME NEW S, NEW a \in Seq(S), NEW b \in Seq(S), NEW c \in Seq(S)
  PROVE  /\ a \o b \o <<>> = a \o b
         /\ <<>> \o <<>> \o c = c
         /\ <<>> \o b \o c = b \o c
  <1>1. a \o b \in Seq(S) /\ b \in Seq(S) /\ <<>> \in Seq(S)
    BY ConcatProperties
  <1>2. <<>> \o b = b /\ <<>> \o <<>> = <<>> /\ <<>> \o c = c
    BY <1>1, ConcatEmptySeq
  <1>3. (a \o b) \o <<>> = a \o b
    BY <1>1, ConcatEmptySeq
  <1> QED
    BY <1>2, <1>3

-----------------------------------------------------------------------------
(* The order of a stream.                                                  *)
LEMMA ByteFields ==
  ASSUME NEW b \in Bytes, UartConstants
  PROVE  /\ b.packet \in Nat \ {0} /\ b.place \in Nat \ {0} /\ b.length \in Lengths
         /\ b.length \in Nat /\ b.place <= b.length
         /\ b = Byte(b.packet, b.place, b.length)
  <1>1. b \in [packet : Nat \ {0}, place : Nat \ {0}, length : Lengths]
    BY DEF Bytes
  <1>2. b = [packet |-> b.packet, place |-> b.place, length |-> b.length]
    BY <1>1
  <1> QED
    BY <1>1, <1>2 DEF Bytes, Byte, UartConstants

(* Cutting a stream at its front, or shortening it, keeps its order.       *)
LEMMA OrderShifts ==
  ASSUME NEW S, NEW s \in Seq(S), NEW t \in Seq(S), NEW c \in Nat,
         Len(t) + c <= Len(s),
         \A i \in 1..Len(t) : t[i] = s[i + c]
  PROVE  /\ InOrder(s) => InOrder(t)
         /\ \A last : UpTo(s, last) => UpTo(t, last)
         /\ \A p : Beyond(s, p) => Beyond(t, p)
  <1>1. Len(s) \in Nat /\ Len(t) \in Nat
    BY LenProperties
  <1>2. \A i \in 1..Len(t) : i + c \in 1..Len(s)
    BY <1>1
  <1>3. ASSUME InOrder(s) PROVE InOrder(t)
    <2> SUFFICES ASSUME NEW i \in 1..Len(t), NEW j \in 1..Len(t), i < j
                 PROVE  After(t[i], t[j])
      BY DEF InOrder
    <2>1. i + c < j + c
      BY <1>1
    <2>2. After(s[i + c], s[j + c])
      BY <1>2, <1>3, <2>1 DEF InOrder
    <2> QED
      BY <2>2
  <1>4. ASSUME NEW last, UpTo(s, last) PROVE UpTo(t, last)
    BY <1>2, <1>4 DEF UpTo
  <1>5. ASSUME NEW p, Beyond(s, p) PROVE Beyond(t, p)
    BY <1>2, <1>5 DEF Beyond
  <1> QED
    BY <1>3, <1>4, <1>5

LEMMA GaplessShifts ==
  ASSUME NEW s, NEW t, NEW c \in Nat, NEW n \in Nat, NEW k \in Nat,
         n + c <= k, Gapless(s, k),
         \A i \in 1..n : t[i] = s[i + c]
  PROVE  Gapless(t, n)
  <1> SUFFICES ASSUME NEW i \in 1..n, NEW j \in 1..n, i <= j
               PROVE  Exact(t[i], t[j], j - i)
    BY DEF Gapless
  <1>1. i + c \in 1..k /\ j + c \in 1..k /\ i + c <= j + c /\ (j + c) - (i + c) = j - i
    OBVIOUS
  <1>2. Exact(s[i + c], s[j + c], (j + c) - (i + c))
    BY <1>1 DEF Gapless
  <1> QED
    BY <1>1, <1>2

LEMMA GaplessPrefix ==
  ASSUME NEW s, NEW n \in Nat, NEW k \in Nat, n <= k, Gapless(s, k)
  PROVE  Gapless(s, n)
  BY DEF Gapless

LEMMA GaplessNone == ASSUME NEW s PROVE Gapless(s, 0)
  BY DEF Gapless

(* A stream without its first n elements.                                  *)
LEMMA WithoutFront ==
  ASSUME NEW S, NEW s \in Seq(S), NEW n \in 0..Len(s)
  PROVE  /\ InOrder(s) => InOrder(Without(s, n))
         /\ \A last : UpTo(s, last) => UpTo(Without(s, n), last)
         /\ \A p : Beyond(s, p) => Beyond(Without(s, n), p)
         /\ \A k \in n..Len(s) : Gapless(s, k) => Gapless(Without(s, n), k - n)
         /\ \A last : EndsWith(s, last) => EndsWith(Without(s, n), last)
  <1>. DEFINE t == Without(s, n)
  <1>1. /\ t \in Seq(S) /\ Len(t) = Len(s) - n
        /\ \A i \in 1..(Len(s) - n) : t[i] = s[i + n]
    BY WithoutIs
  <1>. HIDE DEF t
  <1>2. Len(s) \in Nat /\ n \in Nat /\ Len(t) \in Nat /\ Len(t) + n <= Len(s)
    BY <1>1, LenProperties
  <1>3. \A i \in 1..Len(t) : t[i] = s[i + n]
    BY <1>1
  <1>4. /\ InOrder(s) => InOrder(t)
        /\ \A last : UpTo(s, last) => UpTo(t, last)
        /\ \A p : Beyond(s, p) => Beyond(t, p)
    BY <1>1, <1>2, <1>3, OrderShifts
  <1>5. ASSUME NEW k \in n..Len(s), Gapless(s, k) PROVE Gapless(t, k - n)
    <2>1. k \in Nat /\ k - n \in Nat /\ (k - n) + n <= k
      BY <1>2
    <2>2. \A i \in 1..(k - n) : t[i] = s[i + n]
      BY <1>1, <1>2
    <2> QED
      BY <1>2, <1>5, <2>1, <2>2, GaplessShifts
  <1>6. ASSUME NEW last, EndsWith(s, last) PROVE EndsWith(t, last)
    <2> SUFFICES ASSUME t # <<>> PROVE t[Len(t)] = last
      BY DEF EndsWith
    <2>1. Len(t) > 0
      BY <1>1, <1>2, EmptySeq
    <2>2. Len(t) \in 1..Len(t) /\ Len(t) + n = Len(s)
      BY <1>1, <1>2, <2>1
    <2>3. t[Len(t)] = s[Len(s)]
      BY <1>3, <2>2
    <2>4. s # <<>>
      BY <1>1, <1>2, <2>1, EmptySeq
    <2> QED
      BY <1>6, <2>3, <2>4 DEF EndsWith
  <1> QED
    BY <1>4, <1>5, <1>6 DEF t

-----------------------------------------------------------------------------
(* A byte that is sent.                                                    *)

\* x is the client's next byte after the last one.
Follows(last, x) ==
    /\ x \in Bytes
    /\ last.packet \in Nat /\ last.place \in Nat /\ last.length \in Nat
    /\ \/ last.place < last.length /\ x = Byte(last.packet, last.place + 1, last.length)
       \/ last.place = last.length /\ x.packet = last.packet + 1

LEMMA AppendIs ==
  ASSUME NEW S, NEW s \in Seq(S), NEW x \in S
  PROVE  /\ Append(s, x) \in Seq(S) /\ Len(Append(s, x)) = Len(s) + 1
         /\ \A i \in 1..Len(s) : Append(s, x)[i] = s[i]
         /\ Append(s, x)[Len(s) + 1] = x
  BY AppendProperties, LenProperties

LEMMA AppendJoins ==
  ASSUME NEW S, NEW a \in Seq(S), NEW b \in Seq(S), NEW c \in Seq(S), NEW x \in S
  PROVE  a \o b \o Append(c, x) = Append(a \o b \o c, x)
  <1>. DEFINE ab == a \o b  s == ab \o c  one == <<x>>
  <1>1. ab \in Seq(S) /\ s \in Seq(S) /\ one \in Seq(S)
    BY ConcatProperties
  <1>2. Append(c, x) = c \o one /\ Append(s, x) = s \o one
    BY <1>1, AppendIsConcat
  <1>. HIDE DEF ab, one
  <1>3. ab \o (c \o one) = (ab \o c) \o one
    <2>1. ab \in Seq(S) /\ c \in Seq(S) /\ one \in Seq(S)
      BY <1>1
    <2>. HIDE DEF s
    <2> QED
      BY <2>1, ConcatAssociative, SMTT(30)
  <1> QED
    BY <1>2, <1>3 DEF ab

LEMMA AfterTrans ==
  ASSUME UartConstants, NEW a \in Bytes, NEW last, NEW x, Follows(last, x),
         a = last \/ After(a, last)
  PROVE  After(a, x)
  <1>1. /\ a.packet \in Nat /\ a.place \in Nat /\ a.length \in Nat
        /\ x.packet \in Nat /\ x.place \in Nat /\ x.length \in Nat
        /\ last.packet \in Nat /\ last.place \in Nat /\ last.length \in Nat
    BY ByteFields DEF Follows
  <1>2. CASE last.place < last.length /\ x = Byte(last.packet, last.place + 1, last.length)
    <2>1. x.packet = last.packet /\ x.place = last.place + 1 /\ x.length = last.length
      BY <1>2 DEF Byte
    <2> QED
      BY <1>1, <2>1 DEF After
  <1>3. CASE last.place = last.length /\ x.packet = last.packet + 1
    BY <1>1, <1>3 DEF After
  <1> QED
    BY <1>2, <1>3 DEF Follows

LEMMA ExactNext ==
  ASSUME UartConstants, NEW a \in Bytes, NEW last, NEW x, Follows(last, x),
         NEW d \in Nat, Exact(a, last, d)
  PROVE  Exact(a, x, d + 1)
  <1>1. /\ a.packet \in Nat /\ a.place \in Nat /\ a.length \in Nat
        /\ last.packet \in Nat /\ last.place \in Nat /\ last.length \in Nat
    BY ByteFields DEF Follows
  <1> SUFFICES ASSUME a.place + (d + 1) <= a.length
               PROVE  x = Byte(a.packet, a.place + (d + 1), a.length)
    BY DEF Exact
  <1>2. last = Byte(a.packet, a.place + d, a.length)
    BY <1>1 DEF Exact
  <1>3. last.packet = a.packet /\ last.place = a.place + d /\ last.length = a.length
    BY <1>2 DEF Byte
  <1>4. last.place < last.length
    BY <1>1, <1>3
  <1>5. x = Byte(last.packet, last.place + 1, last.length)
    BY <1>1, <1>4 DEF Follows
  <1>6. last.place + 1 = a.place + (d + 1)
    BY <1>1, <1>3
  <1> QED
    BY <1>3, <1>5, <1>6

LEMMA Extended ==
  ASSUME UartConstants, NEW s \in Seq(Bytes), NEW last, NEW x, Follows(last, x)
  PROVE  /\ InOrder(s) /\ UpTo(s, last) =>
               InOrder(Append(s, x)) /\ UpTo(Append(s, x), x)
         /\ Gapless(s, Len(s)) /\ EndsWith(s, last) =>
               Gapless(Append(s, x), Len(s) + 1)
         /\ \A k \in 0..Len(s) : Gapless(s, k) => Gapless(Append(s, x), k)
         /\ EndsWith(Append(s, x), x)
         /\ \A p : Beyond(s, p) /\ x.packet > p => Beyond(Append(s, x), p)
  <1>. DEFINE t == Append(s, x)  N == Len(s)
  <1>1. x \in Bytes
    BY DEF Follows
  <1>2. /\ t \in Seq(Bytes) /\ Len(t) = N + 1
        /\ \A i \in 1..N : t[i] = s[i]
        /\ t[N + 1] = x
    BY <1>1, AppendIs
  <1>3. N \in Nat /\ \A i \in 1..N : s[i] \in Bytes
    BY LenProperties, ElementOfSeq
  <1>. HIDE DEF t, N
  <1>4. ASSUME InOrder(s), UpTo(s, last) PROVE InOrder(t) /\ UpTo(t, x)
    <2>1. ASSUME NEW i \in 1..N PROVE After(s[i], x)
      BY <1>3, <1>4, <2>1, AfterTrans DEF UpTo, N
    <2>2. InOrder(t)
      <3> SUFFICES ASSUME NEW i \in 1..(N + 1), NEW j \in 1..(N + 1), i < j
                   PROVE  After(t[i], t[j])
        BY <1>2 DEF InOrder
      <3>1. i \in 1..N /\ t[i] = s[i]
        BY <1>2, <1>3
      <3>2. CASE j \in 1..N
        BY <1>2, <1>4, <3>1, <3>2 DEF InOrder, N
      <3>3. CASE j = N + 1
        BY <1>2, <2>1, <3>1, <3>3
      <3> QED
        BY <1>3, <3>2, <3>3
    <2>3. UpTo(t, x)
      <3> SUFFICES ASSUME NEW i \in 1..(N + 1) PROVE t[i] = x \/ After(t[i], x)
        BY <1>2 DEF UpTo
      <3>1. CASE i \in 1..N
        BY <1>2, <2>1, <3>1
      <3>2. CASE i = N + 1
        BY <1>2, <3>2
      <3> QED
        BY <1>3, <3>1, <3>2
    <2> QED
      BY <2>2, <2>3
  <1>5. ASSUME Gapless(s, N), EndsWith(s, last) PROVE Gapless(t, N + 1)
    <2> SUFFICES ASSUME NEW i \in 1..(N + 1), NEW j \in 1..(N + 1), i <= j
                 PROVE  Exact(t[i], t[j], j - i)
      BY DEF Gapless
    <2>1. CASE j \in 1..N
      <3>1. i \in 1..N
        BY <1>3, <2>1
      <3> QED
        BY <1>2, <1>5, <2>1, <3>1 DEF Gapless
    <2>2. CASE j = N + 1 /\ i \in 1..N
      <3>1. s # <<>> /\ N \in 1..N
        BY <1>3, <2>2, EmptySeq DEF N
      <3>2. s[N] = last
        BY <1>5, <3>1 DEF EndsWith, N
      <3>3. Exact(s[i], last, N - i)
        BY <1>3, <1>5, <2>2, <3>1, <3>2 DEF Gapless
      <3>4. N - i \in Nat /\ (N - i) + 1 = j - i
        BY <1>3, <2>2
      <3>5. s[i] \in Bytes
        BY <1>3, <2>2
      <3>6. Exact(s[i], x, (N - i) + 1)
        BY <3>3, <3>4, <3>5, ExactNext
      <3> QED
        BY <1>2, <2>2, <3>4, <3>6
    <2>3. CASE j = N + 1 /\ i = N + 1
      <3>1. t[i] = x /\ t[j] = x /\ j - i = 0
        BY <1>2, <1>3, <2>3
      <3>2. x.place \in Nat /\ x = Byte(x.packet, x.place, x.length)
        BY <1>1, ByteFields
      <3>3. x.place + 0 = x.place
        BY <3>2
      <3>4. Exact(x, x, 0)
        BY <3>2, <3>3 DEF Exact
      <3> QED
        BY <3>1, <3>4
    <2> QED
      BY <1>3, <2>1, <2>2, <2>3
  <1>6. ASSUME NEW k \in 0..N, Gapless(s, k) PROVE Gapless(t, k)
    <2> SUFFICES ASSUME NEW i \in 1..k, NEW j \in 1..k, i <= j
                 PROVE  Exact(t[i], t[j], j - i)
      BY DEF Gapless
    <2>1. t[i] = s[i] /\ t[j] = s[j]
      BY <1>2, <1>3
    <2> QED
      BY <1>6, <2>1 DEF Gapless
  <1>7. EndsWith(t, x)
    BY <1>2 DEF EndsWith
  <1>8. ASSUME NEW p, Beyond(s, p), x.packet > p PROVE Beyond(t, p)
    <2> SUFFICES ASSUME NEW i \in 1..(N + 1) PROVE t[i].packet > p
      BY <1>2 DEF Beyond
    <2>1. CASE i \in 1..N
      BY <1>2, <1>8, <2>1 DEF Beyond, N
    <2>2. CASE i = N + 1
      BY <1>2, <1>8, <2>2
    <2> QED
      BY <1>3, <2>1, <2>2
  <1> QED
    BY <1>4, <1>5, <1>6, <1>7, <1>8 DEF t, N

(* What the ring holds when a packet is complete: the bytes of one packet, *)
(* and behind them only later packets.                                     *)
LEMMA FrontIsWhole ==
  ASSUME UartConstants, NEW s \in Seq(Bytes), NEW L \in 0..Len(s), NEW n \in Nat,
         InOrder(s), Gapless(s, L), HeaderSize <= L, n <= L,
         s[1].place = 1, n = s[HeaderSize].length
  PROVE  /\ n \in Lengths /\ n \in 1..L
         /\ \A k \in 1..n : s[k] = Byte(s[1].packet, k, n)
         /\ \A i \in (n + 1)..Len(s) : s[i].packet > s[1].packet
  <1>. DEFINE a == s[1]  h == s[HeaderSize]
  <1>1. /\ Len(s) \in Nat /\ L \in Nat /\ HeaderSize \in Nat /\ HeaderSize >= 1
        /\ \A i \in 1..Len(s) : s[i] \in Bytes
    BY LenProperties, ElementOfSeq DEF UartConstants
  <1>2. 1 \in 1..L /\ 1 \in 1..Len(s) /\ HeaderSize \in 1..L /\ HeaderSize \in 1..Len(s)
    BY <1>1
  <1>3. a \in Bytes /\ h \in Bytes
    BY <1>1, <1>2
  <1>. HIDE DEF a, h
  <1>4. /\ a.length \in Lengths /\ a.length \in Nat /\ a.place = 1 /\ a.packet \in Nat
        /\ h.length \in Lengths /\ h.length = n
    BY <1>3, ByteFields DEF a, h
  <1>5. ASSUME NEW k \in 1..L, k <= a.length PROVE s[k] = Byte(a.packet, k, a.length)
    <2>1. Exact(a, s[k], k - 1)
      BY <1>1, <1>2 DEF Gapless, a
    <2>2. a.place + (k - 1) = k
      BY <1>1, <1>4
    <2> QED
      BY <1>5, <2>1, <2>2 DEF Exact
  <1>6. HeaderSize <= a.length /\ HeaderSize <= n
    BY <1>4 DEF UartConstants
  <1>7. h = Byte(a.packet, HeaderSize, a.length)
    BY <1>2, <1>5, <1>6 DEF h
  <1>8. n = a.length
    BY <1>4, <1>7 DEF Byte
  <1>9. n \in Lengths /\ n \in 1..L
    BY <1>1, <1>4, <1>6
  <1>10. \A k \in 1..n : s[k] = Byte(a.packet, k, n)
    BY <1>1, <1>5, <1>8, <1>9
  <1>11. ASSUME NEW i \in (n + 1)..Len(s) PROVE s[i].packet > a.packet
    <2>1. n \in 1..Len(s) /\ i \in 1..Len(s) /\ n < i
      BY <1>1, <1>9
    <2>2. After(s[n], s[i])
      BY <2>1 DEF InOrder
    <2>3. s[n] = Byte(a.packet, n, n)
      BY <1>9, <1>10
    <2>4. s[n].packet = a.packet /\ s[n].place = n /\ s[n].length = n
      BY <2>3 DEF Byte
    <2>5. s[i].place <= s[i].length /\ s[i].place \in Nat /\ s[i].length \in Nat
      BY <1>1, <2>1, ByteFields
    <2> QED
      BY <1>9, <2>2, <2>4, <2>5 DEF After
  <1> QED
    BY <1>9, <1>10, <1>11 DEF a

-----------------------------------------------------------------------------
(* The ring.                                                               *)
LEMMA ModSmall == \A d \in Nat \ {0} : \A n \in 0..(d - 1) : n % d = n
  BY Z3

LEMMA ModOnce == \A d \in Nat \ {0} : \A n \in d..(2 * d - 1) : n % d = n - d
  BY Z3

LEMMA PlaceIs ==
  ASSUME UartConstants, uart_buffer_pos \in 0..BufferSize,
         NEW k \in 0..(BufferSize - 1)
  PROVE  /\ Place(k) = IF uart_buffer_pos + k < BufferSize THEN uart_buffer_pos + k
                       ELSE uart_buffer_pos + k - BufferSize
         /\ Place(k) \in 0..(BufferSize - 1)
  <1>. DEFINE p == uart_buffer_pos
  <1>1. BufferSize \in Nat \ {0} /\ p \in Nat /\ p <= BufferSize
    BY DEF UartConstants
  <1>2. CASE p + k < BufferSize
    <2>1. p + k \in 0..(BufferSize - 1)
      BY <1>1, <1>2
    <2>2. (p + k) % BufferSize = p + k
      BY <1>1, <2>1, ModSmall
    <2> QED
      BY <1>2, <2>1, <2>2 DEF Place
  <1>3. CASE ~(p + k < BufferSize)
    <2>1. p + k \in BufferSize..(2 * BufferSize - 1)
      BY <1>1, <1>3
    <2>2. (p + k) % BufferSize = p + k - BufferSize
      BY <1>1, <2>1, ModOnce
    <2>3. p + k - BufferSize \in 0..(BufferSize - 1)
      BY <1>1, <2>1
    <2> QED
      BY <1>3, <2>2, <2>3 DEF Place
  <1> QED
    BY <1>2, <1>3

LEMMA PlacesDiffer ==
  ASSUME UartConstants, uart_buffer_pos \in 0..BufferSize,
         NEW j \in 0..(BufferSize - 1), NEW k \in 0..(BufferSize - 1),
         Place(j) = Place(k)
  PROVE  j = k
  <1>. DEFINE p == uart_buffer_pos  x == Place(j)
  <1>1. BufferSize \in Nat /\ p \in Nat /\ p <= BufferSize /\ j \in Int /\ k \in Int
    BY DEF UartConstants
  <1>2. /\ x = IF p + j < BufferSize THEN p + j ELSE p + j - BufferSize
        /\ x = IF p + k < BufferSize THEN p + k ELSE p + k - BufferSize
    BY PlaceIs
  <1>. HIDE DEF p, x
  <1>3. CASE p + j < BufferSize /\ p + k < BufferSize
    BY <1>1, <1>2, <1>3
  <1>4. CASE p + j < BufferSize /\ ~(p + k < BufferSize)
    <2>1. p + j = p + k - BufferSize
      BY <1>2, <1>4
    <2> QED
      BY <1>1, <2>1
  <1>5. CASE ~(p + j < BufferSize) /\ p + k < BufferSize
    <2>1. p + k = p + j - BufferSize
      BY <1>2, <1>5
    <2> QED
      BY <1>1, <2>1
  <1>6. CASE ~(p + j < BufferSize) /\ ~(p + k < BufferSize)
    <2>1. p + k - BufferSize = p + j - BufferSize
      BY <1>2, <1>6
    <2> QED
      BY <1>1, <2>1
  <1> QED
    BY <1>3, <1>4, <1>5, <1>6

RingType ==
    /\ uart_buffer \in [0..(BufferSize - 1) -> ByteType \cup {None}]
    /\ uart_buffer_pos \in 0..BufferSize /\ uart_buffer_length \in 0..BufferSize
    /\ Ring \in Seq(Bytes)

LEMMA RingIs ==
  ASSUME UartConstants, RingType
  PROVE  /\ Len(Ring) = uart_buffer_length /\ uart_buffer_length \in Nat
         /\ \A k \in 1..uart_buffer_length : Ring[k] = Content(k - 1)
  <1>1. uart_buffer_length \in Nat
    BY DEF RingType, UartConstants
  <1>2. DOMAIN Ring = 1..uart_buffer_length
    BY DEF Ring
  <1>3. DOMAIN Ring = 1..Len(Ring) /\ Len(Ring) \in Nat
    BY LenProperties DEF RingType
  <1> QED
    BY <1>1, <1>2, <1>3 DEF Ring

LEMMA BytesTyped ==
  ASSUME UartConstants, NEW b \in Bytes
  PROVE  b \in ByteType
  <1>1. Lengths \subseteq Nat
    BY DEF UartConstants
  <1> QED
    BY <1>1 DEF Bytes, ByteType

(* What uart_buffer_add stores stands behind what was there.               *)
LEMMA RingAdd ==
  ASSUME UartConstants, RingType, NEW bytes \in Seq(Bytes), BufferAdd(bytes),
         NEW size, size = Lesser(Len(bytes), BufferSize - uart_buffer_length)
  PROVE  /\ size \in 0..Len(bytes) /\ uart_buffer_length + size <= BufferSize
         /\ uart_buffer_length' = uart_buffer_length + size
         /\ uart_buffer' \in [0..(BufferSize - 1) -> ByteType \cup {None}]
         /\ Ring' = Ring \o SubSeq(bytes, 1, size)
  <1>. DEFINE L == uart_buffer_length
              added == {k \in 1..size : TRUE}
              new == SubSeq(bytes, 1, size)
              t == Ring \o new
              after == uart_buffer'
  <1>1. /\ BufferSize \in Nat \ {0} /\ L \in Nat /\ L <= BufferSize
        /\ Len(bytes) \in Nat /\ uart_buffer_pos \in 0..BufferSize
        /\ \A k \in 1..Len(bytes) : bytes[k] \in Bytes
    BY LenProperties, ElementOfSeq DEF UartConstants, RingType
  <1>2. size \in Nat /\ size <= Len(bytes) /\ L + size <= BufferSize
    BY <1>1 DEF Lesser
  <1>3. /\ uart_buffer' =
              [j \in 0..(BufferSize - 1) |->
                  IF \E k \in added : Place(L + k - 1) = j
                  THEN bytes[CHOOSE k \in added : Place(L + k - 1) = j]
                  ELSE uart_buffer[j]]
        /\ L' = L + size /\ uart_buffer_pos' = uart_buffer_pos
    BY DEF BufferAdd
  <1>. HIDE DEF added
  <1>4. \A k \in added : k \in 1..size /\ k \in 1..Len(bytes) /\ L + k - 1 \in 0..(BufferSize - 1)
    BY <1>1, <1>2 DEF added
  <1>5. uart_buffer' \in [0..(BufferSize - 1) -> ByteType \cup {None}]
    <2> SUFFICES ASSUME NEW j \in 0..(BufferSize - 1)
                 PROVE  (IF \E k \in added : Place(L + k - 1) = j
                         THEN bytes[CHOOSE k \in added : Place(L + k - 1) = j]
                         ELSE uart_buffer[j]) \in ByteType \cup {None}
      BY <1>3
    <2>1. CASE \E k \in added : Place(L + k - 1) = j
      <3>. DEFINE k0 == CHOOSE k \in added : Place(L + k - 1) = j
      <3>1. k0 \in added
        BY <2>1
      <3>. HIDE DEF k0
      <3>2. bytes[k0] \in ByteType
        BY <1>1, <1>4, <3>1, BytesTyped
      <3> QED
        BY <2>1, <3>2 DEF k0
    <2>2. CASE ~ \E k \in added : Place(L + k - 1) = j
      BY <2>2 DEF RingType
    <2> QED
      BY <2>1, <2>2
  <1>6. after = [j \in 0..(BufferSize - 1) |->
                   IF \E k \in added : Place(L + k - 1) = j
                   THEN bytes[CHOOSE k \in added : Place(L + k - 1) = j]
                   ELSE uart_buffer[j]]
    BY <1>3
  <1>13. Ring' = [k \in 1..(L + size) |-> after[Place(k - 1)]]
    BY <1>3 DEF Ring, Content, Place
  <1>. HIDE DEF after
  <1>7. ASSUME NEW k \in 1..L PROVE after[Place(k - 1)] = Content(k - 1)
    <2>1. k - 1 \in 0..(BufferSize - 1)
      BY <1>1
    <2>2. Place(k - 1) \in 0..(BufferSize - 1)
      BY <1>1, <2>1, PlaceIs
    <2>3. ASSUME NEW i \in added, Place(L + i - 1) = Place(k - 1) PROVE FALSE
      <3>1. L + i - 1 = k - 1
        BY <1>1, <1>4, <2>1, <2>3, PlacesDiffer
      <3> QED
        BY <1>1, <1>4, <3>1
    <2>4. after[Place(k - 1)] = uart_buffer[Place(k - 1)]
      BY <1>6, <2>2, <2>3
    <2> QED
      BY <2>4 DEF Content
  <1>8. ASSUME NEW i \in added PROVE after[Place(L + i - 1)] = bytes[i]
    <2>1. L + i - 1 \in 0..(BufferSize - 1)
      BY <1>4
    <2>. DEFINE j == Place(L + i - 1)  i0 == CHOOSE k \in added : Place(L + k - 1) = j
    <2>2. j \in 0..(BufferSize - 1)
      BY <1>1, <2>1, PlaceIs
    <2>3. i0 \in added /\ Place(L + i0 - 1) = j
      OBVIOUS
    <2>4. after[j] = bytes[i0]
      BY <1>6, <2>2
    <2>. HIDE DEF i0
    <2>7. L + i0 - 1 \in 0..(BufferSize - 1) /\ Place(L + i0 - 1) = Place(L + i - 1)
      BY <1>4, <2>3
    <2>5. L + i0 - 1 = L + i - 1
      BY <1>1, <2>1, <2>7, PlacesDiffer
    <2>6. i0 = i
      BY <1>1, <1>4, <2>3, <2>5
    <2> QED
      BY <2>4, <2>6
  <1>9. /\ new \in Seq(Bytes) /\ Len(new) = size
        /\ \A k \in 1..size : new[k] = bytes[k]
    <2>1. \A i \in 1..size : bytes[i] \in Bytes
      BY <1>1, <1>2
    <2>2. /\ SubSeq(bytes, 1, size) \in Seq(Bytes)
          /\ Len(SubSeq(bytes, 1, size)) = IF 1 <= size THEN size - 1 + 1 ELSE 0
          /\ \A i \in 1..(size - 1 + 1) : SubSeq(bytes, 1, size)[i] = bytes[1 + i - 1]
      BY <1>2, <2>1, SubSeqProperties
    <2>. HIDE DEF new
    <2>3. /\ new \in Seq(Bytes)
          /\ Len(new) = IF 1 <= size THEN size - 1 + 1 ELSE 0
          /\ \A i \in 1..(size - 1 + 1) : new[i] = bytes[1 + i - 1]
      BY <2>2 DEF new
    <2> QED
      BY <1>2, <2>3
  <1>. HIDE DEF new
  <1>10. Ring \in Seq(Bytes) /\ Len(Ring) = L /\ \A k \in 1..L : Ring[k] = Content(k - 1)
    BY RingIs DEF RingType
  <1>11. /\ t \in Seq(Bytes) /\ Len(t) = L + size
         /\ \A k \in 1..(L + size) : t[k] = IF k <= L THEN Ring[k] ELSE new[k - L]
    <2>. DEFINE r == Ring
    <2>1. r \in Seq(Bytes) /\ new \in Seq(Bytes) /\ Len(r) = L /\ Len(new) = size
      BY <1>9, <1>10
    <2>. HIDE DEF r
    <2>2. /\ r \o new \in Seq(Bytes) /\ Len(r \o new) = Len(r) + Len(new)
          /\ \A k \in 1..(Len(r) + Len(new)) :
                (r \o new)[k] = IF k <= Len(r) THEN r[k] ELSE new[k - Len(r)]
      BY <2>1, ConcatProperties
    <2>3. /\ r \o new \in Seq(Bytes) /\ Len(r \o new) = L + size
          /\ \A k \in 1..(L + size) : (r \o new)[k] = IF k <= L THEN r[k] ELSE new[k - L]
      BY <2>1, <2>2
    <2> QED
      BY <2>3 DEF r
  <1>. HIDE DEF t
  <1>12. ASSUME NEW k \in 1..(L + size) PROVE after[Place(k - 1)] = t[k]
    <2>1. CASE k <= L
      <3>1. k \in 1..L
        BY <1>1, <1>2, <2>1
      <3> QED
        BY <1>7, <1>10, <1>11, <2>1, <3>1
    <2>2. CASE ~(k <= L)
      <3>1. k - L \in 1..size /\ L + (k - L) - 1 = k - 1
        BY <1>1, <1>2, <2>2
      <3>2. k - L \in added
        BY <3>1 DEF added
      <3>3. after[Place(k - 1)] = bytes[k - L]
        BY <1>8, <3>1, <3>2
      <3> QED
        BY <1>9, <1>11, <2>2, <3>1, <3>3
    <2> QED
      BY <2>1, <2>2
  <1>14. t = [k \in 1..(L + size) |-> t[k]]
    BY <1>11, LenProperties
  <1>15. Ring' = t
    BY <1>12, <1>13, <1>14
  <1>16. Ring' = Ring \o SubSeq(bytes, 1, size)
    BY <1>15 DEF t, new
  <1>17. size \in 0..Len(bytes) /\ L + size <= BufferSize /\ uart_buffer_length' = L + size
    BY <1>1, <1>2, <1>3
  <1> QED
    BY <1>5, <1>16, <1>17

\* The position uart_buffer_get leaves reads on where it stopped.
LEMMA ReadsOn ==
  ASSUME UartConstants, NEW p \in 0..BufferSize, NEW n \in 0..BufferSize,
         NEW k \in Nat, n + k < BufferSize
  PROVE  /\ AfterGet(p + n) \in 0..BufferSize
         /\ (AfterGet(p + n) + k) % BufferSize = (p + (n + k)) % BufferSize
  <1>. DEFINE q == AfterGet(p + n)
  <1>1. BufferSize \in Nat \ {0} /\ p \in Nat /\ p <= BufferSize /\ n \in Nat /\ n <= BufferSize
    BY DEF UartConstants
  <1>2. CASE p + n > BufferSize
    <2>1. q = p + n - BufferSize
      BY <1>2 DEF AfterGet
    <2>. HIDE DEF q
    <2>2. q \in 0..BufferSize
      BY <1>1, <1>2, <2>1
    <2>3. q + k \in 0..(BufferSize - 1) /\ p + (n + k) \in BufferSize..(2 * BufferSize - 1)
      BY <1>1, <1>2, <2>1
    <2>4. (q + k) % BufferSize = q + k
      BY <1>1, <2>3, ModSmall
    <2>5. (p + (n + k)) % BufferSize = p + (n + k) - BufferSize
      BY <1>1, <2>3, ModOnce
    <2>6. q + k = p + (n + k) - BufferSize
      BY <1>1, <2>1
    <2> QED
      BY <2>2, <2>4, <2>5, <2>6 DEF q
  <1>3. CASE ~(p + n > BufferSize)
    <2>1. q = p + n
      BY <1>3 DEF AfterGet
    <2>. HIDE DEF q
    <2>2. q \in 0..BufferSize /\ q + k = p + (n + k)
      BY <1>1, <1>3, <2>1
    <2> QED
      BY <2>2 DEF q
  <1> QED
    BY <1>2, <1>3

LEMMA RingGet ==
  ASSUME UartConstants, RingType, NEW n \in 1..uart_buffer_length, BufferGet(n)
  PROVE  /\ uart_buffer_pos' \in 0..BufferSize
         /\ uart_buffer_length' = uart_buffer_length - n
         /\ uart_buffer' = uart_buffer
         /\ n \in 0..Len(Ring) /\ Ring' = Without(Ring, n)
  <1>. DEFINE L == uart_buffer_length  p == uart_buffer_pos  q == AfterGet(p + n)
              t == Without(Ring, n)
  <1>1. /\ BufferSize \in Nat \ {0} /\ L \in Nat /\ L <= BufferSize
        /\ n \in Nat /\ n >= 1 /\ n <= L /\ p \in 0..BufferSize /\ n \in 0..BufferSize
    BY DEF UartConstants, RingType
  <1>2. uart_buffer_pos' = q /\ uart_buffer_length' = L - n /\ uart_buffer' = uart_buffer
    BY DEF BufferGet
  <1>3. n + 0 < BufferSize \/ n = BufferSize
    BY <1>1
  <1>4. q \in 0..BufferSize
    BY <1>1 DEF AfterGet
  <1>5. Ring \in Seq(Bytes) /\ Len(Ring) = L /\ \A k \in 1..L : Ring[k] = Content(k - 1)
    BY RingIs DEF RingType
  <1>6. n \in 0..Len(Ring)
    BY <1>1, <1>5
  <1>7. /\ t \in Seq(Bytes) /\ Len(t) = Len(Ring) - n
        /\ \A i \in 1..(Len(Ring) - n) : t[i] = Ring[i + n]
    BY <1>5, <1>6, WithoutIs
  <1>. HIDE DEF t
  <1>8. ASSUME NEW i \in 1..(L - n)
        PROVE  uart_buffer[(q + (i - 1)) % BufferSize] = t[i]
    <2>1. i - 1 \in Nat /\ n + (i - 1) < BufferSize /\ n + (i - 1) = (i + n) - 1
          /\ i + n \in 1..L /\ i \in 1..(Len(Ring) - n)
      BY <1>1, <1>5
    <2>2. (q + (i - 1)) % BufferSize = (p + (n + (i - 1))) % BufferSize
      BY <1>1, <2>1, ReadsOn
    <2>3. t[i] = Content((i + n) - 1)
      BY <1>5, <1>7, <2>1
    <2> QED
      BY <2>1, <2>2, <2>3 DEF Content, Place
  <1>9. Ring' = [k \in 1..(L - n) |-> uart_buffer[(q + (k - 1)) % BufferSize]]
    BY <1>2 DEF Ring, Content, Place
  <1>10. t = [k \in 1..(L - n) |-> t[k]]
    BY <1>5, <1>7, LenProperties
  <1>11. Ring' = t
    BY <1>8, <1>9, <1>10
  <1> QED
    BY <1>2, <1>4, <1>6, <1>11 DEF t

LEMMA RingClears ==
  ASSUME BufferClear
  PROVE  /\ Ring' = <<>> /\ uart_buffer_pos' = 0 /\ uart_buffer_length' = 0
         /\ uart_buffer' = uart_buffer
  <1>1. uart_buffer_length' = 0 /\ uart_buffer_pos' = 0 /\ uart_buffer' = uart_buffer
    BY DEF BufferClear
  <1>2. Ring' = [k \in 1..0 |-> Content(k - 1)']
    BY <1>1 DEF Ring
  <1>3. 1..0 = {}
    OBVIOUS
  <1>4. Ring' = <<>>
    BY <1>2, <1>3
  <1> QED
    BY <1>1, <1>4

LEMMA RingStays ==
  ASSUME uart_buffer' = uart_buffer, uart_buffer_pos' = uart_buffer_pos,
         uart_buffer_length' = uart_buffer_length
  PROVE  Ring' = Ring
  BY DEF Ring, Content, Place

-----------------------------------------------------------------------------
(* What the invariant says of the parts of the state.                      *)
LEMMA BytesIn == UartConstants => Seq(Bytes) \subseteq Seq(ByteType)
  <1> SUFFICES ASSUME UartConstants, NEW s \in Seq(Bytes) PROVE s \in Seq(ByteType)
    OBVIOUS
  <1>1. Bytes \subseteq ByteType
    BY BytesTyped
  <1> QED
    BY <1>1, SeqMonotonic

LEMMA Sizes ==
  ASSUME UartConstants, TypeInv
  PROVE  /\ RingType /\ uart_buffer_length \in Nat /\ uart_buffer_length <= BufferSize
         /\ Len(Ring) = uart_buffer_length
         /\ Len(input) \in Nat /\ Len(fifo) \in Nat /\ Len(events) \in Nat
         /\ BufferSize \in Nat \ {0} /\ HeaderSize \in Nat \ {0} /\ HeaderSize <= BufferSize
         /\ FifoSize \in Nat \ {0}
  <1>1. RingType
    BY DEF TypeInv, TypeOK, RingType
  <1>2. Ring \in Seq(Bytes) /\ input \in Seq(Bytes) /\ fifo \in Seq(Bytes) /\ events \in Seq(0..FifoSize)
    BY DEF TypeInv
  <1>3. Len(input) \in Nat /\ Len(fifo) \in Nat /\ Len(events) \in Nat
    BY <1>2, LenProperties
  <1>4. Len(Ring) = uart_buffer_length /\ uart_buffer_length \in Nat
    BY <1>1, RingIs
  <1> QED
    BY <1>1, <1>3, <1>4 DEF RingType, UartConstants

LEMMA StreamIs ==
  ASSUME UartConstants, TypeInv
  PROVE  /\ Stream \in Seq(Bytes)
         /\ Len(Stream) = uart_buffer_length + Len(input) + Len(fifo)
         /\ \A i \in 1..uart_buffer_length : Stream[i] = Ring[i]
  <1>1. Ring \in Seq(Bytes) /\ input \in Seq(Bytes) /\ fifo \in Seq(Bytes)
    BY DEF TypeInv
  <1>2. /\ Ring \o input \o fifo \in Seq(Bytes)
        /\ Len(Ring \o input \o fifo) = Len(Ring) + Len(input) + Len(fifo)
        /\ \A i \in 1..(Len(Ring) + Len(input) + Len(fifo)) :
              (Ring \o input \o fifo)[i] =
                 IF i <= Len(Ring) THEN Ring[i]
                 ELSE IF i <= Len(Ring) + Len(input) THEN input[i - Len(Ring)]
                 ELSE fifo[i - (Len(Ring) + Len(input))]
    BY <1>1, JoinIs
  <1>. DEFINE r == Ring  s == r \o input \o fifo
  <1>. HIDE DEF r
  <1>3. /\ s \in Seq(Bytes)
        /\ Len(s) = Len(r) + Len(input) + Len(fifo)
        /\ \A i \in 1..(Len(r) + Len(input) + Len(fifo)) :
              s[i] = IF i <= Len(r) THEN r[i]
                     ELSE IF i <= Len(r) + Len(input) THEN input[i - Len(r)]
                     ELSE fifo[i - (Len(r) + Len(input))]
    BY <1>2 DEF r
  <1>4. /\ Len(r) = uart_buffer_length /\ uart_buffer_length \in Nat
        /\ Len(input) \in Nat /\ Len(fifo) \in Nat
    BY Sizes DEF r
  <1>. HIDE DEF s
  <1>5. Len(s) = uart_buffer_length + Len(input) + Len(fifo)
    BY <1>3, <1>4
  <1>6. \A i \in 1..uart_buffer_length : s[i] = r[i]
    BY <1>3, <1>4
  <1> QED
    BY <1>3, <1>5, <1>6 DEF Stream, r, s

LEMMA PacketAtFront ==
  ASSUME UartConstants, TypeInv, PacketBegun
  PROVE  /\ HeaderSize <= uart_buffer_length /\ 1 \in 1..uart_buffer_length
         /\ HeaderSize \in 1..uart_buffer_length
         /\ Ring[1] = Content(0) /\ Ring[1].place = 1
         /\ PacketLen = Ring[HeaderSize].length
         /\ PacketLen \in Lengths /\ PacketLen \in Nat \ {0} /\ PacketLen <= BufferSize
         /\ ~Hopeless
  <1>1. /\ uart_buffer_length \in Nat /\ HeaderSize \in Nat \ {0} /\ BufferSize \in Nat
        /\ Len(Ring) = uart_buffer_length /\ Ring \in Seq(Bytes)
        /\ \A k \in 1..uart_buffer_length : Ring[k] = Content(k - 1)
    BY Sizes, RingIs DEF TypeInv
  <1>2. uart_buffer_length > 0 /\ IsHeader
    BY <1>1 DEF PacketBegun, NoPacket, Garbage
  <1>3. HeaderSize <= uart_buffer_length
    BY <1>1, <1>2 DEF PacketBegun, NoPacket
  <1>4. 1 \in 1..uart_buffer_length /\ HeaderSize \in 1..uart_buffer_length /\ 1 - 1 = 0
    BY <1>1, <1>3
  <1>5. Ring[1] = Content(0) /\ Ring[HeaderSize] = Content(HeaderSize - 1)
    BY <1>1, <1>4
  <1>6. Ring[HeaderSize] \in Bytes
    BY <1>1, <1>4, ElementOfSeq
  <1>7. PacketLen \in Lengths /\ PacketLen \in Nat
    BY <1>5, <1>6, ByteFields DEF PacketLen
  <1>8. PacketLen >= HeaderSize
    BY <1>7 DEF UartConstants
  <1>9. ~(PacketLen > BufferSize)
    BY <1>1, <1>2, <1>3 DEF PacketBegun, Garbage
  <1> QED
    BY <1>1, <1>2, <1>3, <1>4, <1>5, <1>7, <1>8, <1>9 DEF IsHeader, PacketLen, Hopeless

LEMMA SentNext ==
  ASSUME UartConstants, TypeInv, NEW n \in Lengths, ClientSends(n)
  PROVE  /\ Follows(LastSent, LastSent') /\ LastSent' \in Bytes
         /\ fifo' = Append(fifo, LastSent') /\ Len(fifo) < FifoSize
         /\ packet' \in Nat /\ length' \in Nat /\ place' \in 0..length'
         /\ \/ packet' = packet /\ place < length
            \/ packet' = packet + 1 /\ place = length
  <1>1. packet \in Nat /\ length \in Nat /\ place \in Nat /\ n \in Nat /\ n >= 1 /\ n \in Lengths
    BY DEF TypeInv, TypeOK, UartConstants
  <1>2. LastSent' = Byte(packet', place', length') /\ fifo' = Append(fifo, LastSent')
        /\ Len(fifo) < FifoSize
    BY DEF LastSent, ClientSends
  <1>3. /\ LastSent.packet = packet /\ LastSent.place = place /\ LastSent.length = length
    BY DEF LastSent, Byte
  <1>4. CASE place < length /\ place' = place + 1 /\ packet' = packet /\ length' = length
    <2>1. LastSent \in Bytes
      BY <1>1, <1>4 DEF TypeInv
    <2>2. packet \in Nat \ {0} /\ length \in Lengths
      BY <1>3, <2>1, ByteFields
    <2>3. LastSent' = Byte(packet, place + 1, length)
      BY <1>2, <1>4
    <2>4. Byte(packet, place + 1, length) \in Bytes
      BY <1>1, <1>4, <2>2 DEF Bytes, Byte
    <2> QED
      BY <1>1, <1>2, <1>3, <1>4, <2>3, <2>4 DEF Follows
  <1>5. CASE place = length /\ packet' = packet + 1 /\ place' = 1 /\ length' = n
    <2>1. LastSent' = Byte(packet + 1, 1, n)
      BY <1>2, <1>5
    <2>2. Byte(packet + 1, 1, n) \in Bytes /\ Byte(packet + 1, 1, n).packet = packet + 1
      BY <1>1 DEF Bytes, Byte
    <2> QED
      BY <1>1, <1>2, <1>3, <1>5, <2>1, <2>2 DEF Follows
  <1> QED
    BY <1>4, <1>5 DEF ClientSends, client

(* The event at the head of the queue announces bytes that are there.      *)
LEMMA FirstEvent ==
  ASSUME UartConstants, TypeInv, MarkInv, TakesEvent
  PROVE  /\ receiving = "wait" /\ events # <<>> /\ Len(events) \in Nat \ {0}
         /\ Head(events) = events[1] /\ Head(events) \in 0..FifoSize
         /\ Head(events) \in 0..Len(input)
         /\ events' \in Seq(0..FifoSize) /\ Len(events') = Len(events) - 1
         /\ \A k \in 1..(Len(events) - 1) : events'[k] = events[k + 1]
  <1>1. receiving = "wait" /\ events # <<>> /\ events' = Tail(events)
    BY DEF TakesEvent
  <1>2. events \in Seq(0..FifoSize)
    BY DEF TypeInv
  <1>3. /\ Head(events) \in 0..FifoSize /\ Tail(events) \in Seq(0..FifoSize)
        /\ Len(Tail(events)) = Len(events) - 1
        /\ \A i \in 1..Len(Tail(events)) : Tail(events)[i] = events[i + 1]
    BY <1>1, <1>2, HeadTailProperties
  <1>4. Len(events) \in Nat \ {0}
    BY <1>1, <1>2, EmptySeq
  <1>5. Head(events) = events[1]
    BY <1>1, <1>2
  <1>6. PICK m \in [0..Len(events) -> 0..Len(input)] : Marks(m, events)
    BY <1>1 DEF MarkInv
  <1>7. 1 \in 1..Len(events) /\ 1 \in 0..Len(events) /\ 1 - 1 = 0 /\ events[1] \in Nat
    BY <1>3, <1>4, <1>5, Sizes
  <1>8. m[1] = 0 + events[1] /\ m[1] \in 0..Len(input)
    BY <1>6, <1>7 DEF Marks
  <1>9. Head(events) \in 0..Len(input)
    BY <1>5, <1>7, <1>8
  <1> QED
    BY <1>1, <1>3, <1>4, <1>5, <1>9

-----------------------------------------------------------------------------
(* Types.                                                                  *)
LEMMA PrefixIs ==
  ASSUME NEW S, NEW s \in Seq(S), NEW n \in 0..Len(s)
  PROVE  SubSeq(s, 1, n) \in Seq(S) /\ Len(SubSeq(s, 1, n)) = n
  <1>1. Len(s) \in Nat /\ n \in Nat /\ \A i \in 1..n : s[i] \in S
    BY LenProperties, ElementOfSeq
  <1>. DEFINE t == SubSeq(s, 1, n)
  <1>2. t \in Seq(S) /\ Len(t) = IF 1 <= n THEN n - 1 + 1 ELSE 0
    BY <1>1, SubSeqProperties
  <1>. HIDE DEF t
  <1>3. Len(t) = n
    BY <1>1, <1>2
  <1> QED
    BY <1>2, <1>3 DEF t

(* What TakeData moves: all that the event announced, if there is room.    *)
LEMMA DataTaken ==
  ASSUME UartConstants, TypeInv, RoomInv, MarkInv, TakeData
  PROVE  /\ Ring' \in Seq(Bytes)
         /\ uart_buffer' \in [0..(BufferSize - 1) -> ByteType \cup {None}]
         /\ uart_buffer_length' \in 0..BufferSize /\ uart_buffer_length' >= uart_buffer_length
         /\ input' = Without(input, Head(events)) /\ input' \in Seq(Bytes)
         /\ Len(input') = Len(input) - Head(events)
         /\ ~Hopeless => /\ Ring' = Ring \o SubSeq(input, 1, Head(events))
                         /\ uart_buffer_length' = uart_buffer_length + Head(events)
  <1>. DEFINE h == Head(events)  L == uart_buffer_length
              bytes == SubSeq(input, 1, h)
              size == Lesser(Len(bytes), BufferSize - L)
  <1>1. TakesEvent /\ BufferAdd(bytes) /\ input' = Without(input, h)
    BY DEF TakeData, Without
  <1>2. input \in Seq(Bytes) /\ RingType /\ L \in Nat /\ L <= BufferSize /\ BufferSize \in Nat
    BY Sizes DEF TypeInv
  <1>3. h \in 0..Len(input) /\ h \in 0..FifoSize /\ receiving = "wait"
    BY <1>1, FirstEvent
  <1>4. bytes \in Seq(Bytes) /\ Len(bytes) = h
    BY <1>2, <1>3, PrefixIs
  <1>5. input' \in Seq(Bytes) /\ Len(input') = Len(input) - h
    BY <1>1, <1>2, <1>3, WithoutIs
  <1>. HIDE DEF bytes, h, size
  <1>6. /\ size \in 0..Len(bytes) /\ L + size <= BufferSize
        /\ L' = L + size
        /\ uart_buffer' \in [0..(BufferSize - 1) -> ByteType \cup {None}]
        /\ Ring' = Ring \o SubSeq(bytes, 1, size)
    BY <1>1, <1>2, <1>4, RingAdd DEF size
  <1>7. SubSeq(bytes, 1, size) \in Seq(Bytes)
    BY <1>4, <1>6, PrefixIs
  <1>8. Ring' \in Seq(Bytes)
    BY <1>2, <1>6, <1>7, ConcatProperties DEF RingType
  <1>9. size \in Nat /\ L + size \in 0..BufferSize /\ L + size >= L
    BY <1>2, <1>4, <1>3, <1>6
  <1>10. ASSUME ~Hopeless PROVE Ring' = Ring \o bytes /\ L' = L + h
    <2>1. L + FifoSize <= BufferSize /\ FifoSize \in Nat
      BY <1>3, <1>10, Sizes DEF RoomInv
    <2>2. size = h
      BY <1>2, <1>3, <1>4, <2>1 DEF size, Lesser
    <2>3. SubSeq(bytes, 1, Len(bytes)) = bytes
      BY <1>4, SubSeqFull
    <2> QED
      BY <1>4, <1>6, <2>2, <2>3
  <1> QED
    BY <1>1, <1>5, <1>6, <1>8, <1>9, <1>10 DEF h, bytes

(* The parts of the type invariant a step can disturb.                     *)
LEMMA TypeHolds ==
  ASSUME UartConstants, TypeInv,
         uart_buffer' \in [0..(BufferSize - 1) -> ByteType \cup {None}],
         uart_buffer_pos' \in 0..BufferSize, uart_buffer_length' \in 0..BufferSize,
         uart_packet_started' \in BOOLEAN,
         uart_packet_started' => uart_buffer_length' >= HeaderSize,
         Ring' \in Seq(Bytes), input' \in Seq(Bytes),
         fifo' \in Seq(Bytes), Len(fifo') <= FifoSize,
         events' \in Seq(0..FifoSize),
         receiving' \in {"wait", "parse", "reset"},
         receiving' = "reset" => uart_buffer_length' = 0,
         ticking' \in {"wait", "check", "clear", "give"},
         uart_packet_timer' \in 0..Timeout,
         ch_uart_packet_timer_sem' \in BOOLEAN, connected' \in BOOLEAN,
         packet' \in Nat, length' \in Nat, place' \in 0..length', faults' \in Nat,
         \/ packet' = 0 /\ place' = 0 /\ length' = 0
         \/ LastSent' \in Bytes,
         handed' \in Seq(ByteType), before' \in Nat,
         cut' \in BOOLEAN, unnoticed' \in BOOLEAN
  PROVE  TypeInv'
  <1>1. fifo' \in Seq(ByteType) /\ input' \in Seq(ByteType)
    BY BytesIn
  <1>2. (0..FifoSize) \subseteq Nat
    OBVIOUS
  <1>3. events' \in Seq(Nat)
    BY <1>2, SeqMonotonic
  <1>4. TypeOK'
    BY <1>1, <1>3 DEF TypeOK
  <1> QED
    BY <1>4 DEF TypeInv

(* What a step leaves alone keeps its type.                                *)
LEMMA TypeParts ==
  ASSUME UartConstants, TypeInv
  PROVE  /\ uart_buffer' = uart_buffer => uart_buffer' \in [0..(BufferSize - 1) -> ByteType \cup {None}]
         /\ uart_buffer_pos' = uart_buffer_pos => uart_buffer_pos' \in 0..BufferSize
         /\ uart_buffer_length' = uart_buffer_length => uart_buffer_length' \in 0..BufferSize
         /\ UNCHANGED <<uart_packet_started, uart_buffer_length>> =>
               /\ uart_packet_started' \in BOOLEAN
               /\ uart_packet_started' => uart_buffer_length' >= HeaderSize
         /\ UNCHANGED <<uart_buffer, uart_buffer_pos, uart_buffer_length>> => Ring' \in Seq(Bytes)
         /\ UNCHANGED input => input' \in Seq(Bytes)
         /\ UNCHANGED fifo => fifo' \in Seq(Bytes) /\ Len(fifo') <= FifoSize
         /\ UNCHANGED events => events' \in Seq(0..FifoSize)
         /\ UNCHANGED receiving => receiving' \in {"wait", "parse", "reset"}
         /\ UNCHANGED <<receiving, uart_buffer_length>> =>
               (receiving' = "reset" => uart_buffer_length' = 0)
         /\ UNCHANGED ticking => ticking' \in {"wait", "check", "clear", "give"}
         /\ UNCHANGED uart_packet_timer => uart_packet_timer' \in 0..Timeout
         /\ UNCHANGED ch_uart_packet_timer_sem => ch_uart_packet_timer_sem' \in BOOLEAN
         /\ UNCHANGED connected => connected' \in BOOLEAN
         /\ UNCHANGED client =>
               /\ packet' \in Nat /\ length' \in Nat /\ place' \in 0..length'
               /\ \/ packet' = 0 /\ place' = 0 /\ length' = 0
                  \/ LastSent' \in Bytes
         /\ UNCHANGED faults => faults' \in Nat
         /\ Fault => faults' \in Nat
         /\ UNCHANGED handed => handed' \in Seq(ByteType)
         /\ UNCHANGED before => before' \in Nat
         /\ UNCHANGED cut => cut' \in BOOLEAN
         /\ UNCHANGED unnoticed => unnoticed' \in BOOLEAN
  <1>1. TypeOK /\ ((packet = 0 /\ place = 0 /\ length = 0) \/ LastSent \in Bytes)
    BY DEF TypeInv
  <1>2. UNCHANGED <<uart_buffer, uart_buffer_pos, uart_buffer_length>> => Ring' \in Seq(Bytes)
    BY RingStays DEF TypeInv
  <1>3. UNCHANGED client => LastSent' = LastSent
    BY DEF client, LastSent, Byte
  <1>4. Fault => faults' \in Nat
    BY <1>1 DEF Fault, TypeOK
  <1>5. UNCHANGED fifo => fifo' \in Seq(Bytes) /\ Len(fifo') <= FifoSize
    BY DEF TypeInv
  <1>6. UNCHANGED events => events' \in Seq(0..FifoSize)
    BY DEF TypeInv
  <1>7. UNCHANGED <<receiving, uart_buffer_length>> =>
               (receiving' = "reset" => uart_buffer_length' = 0)
    BY DEF TypeInv
  <1>8. UNCHANGED input => input' \in Seq(Bytes)
    BY DEF TypeInv
  <1>9. UNCHANGED client =>
               /\ packet' \in Nat /\ length' \in Nat /\ place' \in 0..length'
               /\ \/ packet' = 0 /\ place' = 0 /\ length' = 0
                  \/ LastSent' \in Bytes
    <2> SUFFICES ASSUME UNCHANGED client
                 PROVE  /\ packet' \in Nat /\ length' \in Nat /\ place' \in 0..length'
                        /\ \/ packet' = 0 /\ place' = 0 /\ length' = 0
                           \/ LastSent' \in Bytes
      OBVIOUS
    <2>1. packet' = packet /\ place' = place /\ length' = length /\ LastSent' = LastSent
      BY <1>3 DEF client
    <2>2. packet' \in Nat /\ length' \in Nat /\ place' \in 0..length'
      BY <1>1, <2>1 DEF TypeOK
    <2>3. (packet' = 0 /\ place' = 0 /\ length' = 0) \/ LastSent' \in Bytes
      BY <1>1, <2>1
    <2> QED
      BY <2>2, <2>3
  <1>10. UNCHANGED <<uart_packet_started, uart_buffer_length>> =>
               /\ uart_packet_started' \in BOOLEAN
               /\ uart_packet_started' => uart_buffer_length' >= HeaderSize
    BY <1>1 DEF TypeOK
  <1>11. /\ uart_buffer' = uart_buffer => uart_buffer' \in [0..(BufferSize - 1) -> ByteType \cup {None}]
         /\ uart_buffer_pos' = uart_buffer_pos => uart_buffer_pos' \in 0..BufferSize
         /\ uart_buffer_length' = uart_buffer_length => uart_buffer_length' \in 0..BufferSize
    BY <1>1 DEF TypeOK
  <1>12. /\ UNCHANGED receiving => receiving' \in {"wait", "parse", "reset"}
         /\ UNCHANGED ticking => ticking' \in {"wait", "check", "clear", "give"}
         /\ UNCHANGED uart_packet_timer => uart_packet_timer' \in 0..Timeout
         /\ UNCHANGED ch_uart_packet_timer_sem => ch_uart_packet_timer_sem' \in BOOLEAN
         /\ UNCHANGED connected => connected' \in BOOLEAN
    BY <1>1 DEF TypeOK
  <1>13. /\ UNCHANGED faults => faults' \in Nat
         /\ UNCHANGED handed => handed' \in Seq(ByteType)
         /\ UNCHANGED before => before' \in Nat
         /\ UNCHANGED cut => cut' \in BOOLEAN
         /\ UNCHANGED unnoticed => unnoticed' \in BOOLEAN
    BY <1>1 DEF TypeOK
  <1> QED
    BY <1>2, <1>4, <1>5, <1>6, <1>7, <1>8, <1>9, <1>10, <1>11, <1>12, <1>13

LEMMA ClearTypes ==
  ASSUME UartConstants, TypeInv, BufferClear
  PROVE  /\ uart_buffer' \in [0..(BufferSize - 1) -> ByteType \cup {None}]
         /\ uart_buffer_pos' \in 0..BufferSize /\ uart_buffer_length' \in 0..BufferSize
         /\ uart_buffer_length' = 0
         /\ uart_packet_started' \in BOOLEAN
         /\ uart_packet_started' => uart_buffer_length' >= HeaderSize
         /\ Ring' \in Seq(Bytes) /\ cut' \in BOOLEAN
  <1>1. 0 \in 0..BufferSize
    BY Sizes
  <1>2. Ring' \in Seq(Bytes)
    BY RingClears, EmptySeq
  <1> QED
    BY <1>1, <1>2 DEF BufferClear, TypeInv, TypeOK

LEMMA TypeSends ==
  ASSUME UartConstants, TypeInv, NEW n \in Lengths, ClientSends(n)
  PROVE  TypeInv'
  <1>1. /\ UNCHANGED <<uart_buffer, uart_buffer_pos, uart_buffer_length, uart_packet_started>>
        /\ UNCHANGED <<input, events, receiving, ticking, uart_packet_timer>>
        /\ UNCHANGED <<ch_uart_packet_timer_sem, connected, faults, handed, before, cut, unnoticed>>
    BY DEF ClientSends, ring, handler, history
  <1>2. fifo' \in Seq(Bytes) /\ Len(fifo') <= FifoSize
    <2>1. fifo \in Seq(Bytes) /\ LastSent' \in Bytes /\ fifo' = Append(fifo, LastSent')
          /\ Len(fifo) < FifoSize /\ Len(fifo) \in Nat /\ FifoSize \in Nat
      BY SentNext, Sizes DEF TypeInv
    <2>2. fifo' \in Seq(Bytes) /\ Len(fifo') = Len(fifo) + 1
      BY <2>1, AppendProperties
    <2> QED
      BY <2>1, <2>2
  <1>3. /\ packet' \in Nat /\ length' \in Nat /\ place' \in 0..length'
        /\ LastSent' \in Bytes
    BY SentNext
  <1> QED
    BY <1>1, <1>2, <1>3, TypeParts, TypeHolds

LEMMA TypeStores ==
  ASSUME UartConstants, TypeInv, DriverStores
  PROVE  TypeInv'
  <1>1. /\ UNCHANGED <<uart_buffer, uart_buffer_pos, uart_buffer_length, uart_packet_started>>
        /\ UNCHANGED <<receiving, ticking, uart_packet_timer>>
        /\ UNCHANGED <<ch_uart_packet_timer_sem, connected, handed, before, cut, unnoticed>>
        /\ UNCHANGED client
    BY DEF DriverStores, ring, handler, history
  <1>2. fifo' \in Seq(Bytes) /\ Len(fifo') <= FifoSize
    <2>1. fifo' = <<>> /\ FifoSize \in Nat
      BY Sizes DEF DriverStores
    <2>2. Len(fifo') = 0 /\ fifo' \in Seq(Bytes)
      BY <2>1, EmptySeq
    <2> QED
      BY <2>1, <2>2
  <1>3. input' \in Seq(Bytes) /\ faults' \in Nat
    <2>1. input \in Seq(Bytes) /\ fifo \in Seq(Bytes) /\ faults \in Nat
      BY DEF TypeInv, TypeOK
    <2>2. input \o fifo \in Seq(Bytes)
      BY <2>1, ConcatProperties
    <2> QED
      BY <2>1, <2>2, TypeParts DEF DriverStores
  <1>4. events' \in Seq(0..FifoSize)
    <2>1. /\ events \in Seq(0..FifoSize) /\ Len(fifo) \in 0..FifoSize /\ 0 \in 0..FifoSize
      BY Sizes DEF TypeInv
    <2>2. \A x \in 0..FifoSize : Append(events, x) \in Seq(0..FifoSize)
      BY <2>1, AppendProperties
    <2> QED
      BY <2>1, <2>2 DEF DriverStores, Overflow
  <1> QED
    BY <1>1, <1>2, <1>3, <1>4, TypeParts, TypeHolds

LEMMA TypeTakes ==
  ASSUME UartConstants, TypeInv, RoomInv, MarkInv, TakeData
  PROVE  TypeInv'
  <1>1. /\ UNCHANGED <<uart_buffer_pos, uart_packet_started>>
        /\ UNCHANGED <<fifo, ticking, uart_packet_timer>>
        /\ UNCHANGED <<ch_uart_packet_timer_sem, connected, faults, handed, before, cut, unnoticed>>
        /\ UNCHANGED client
    BY DEF TakeData, BufferAdd, handler, history
  <1>2. receiving' = "parse" /\ TakesEvent
    BY DEF TakeData
  <1>3. events' \in Seq(0..FifoSize)
    BY <1>2, FirstEvent
  <1>4. uart_packet_started' \in BOOLEAN
        /\ (uart_packet_started' => uart_buffer_length' >= HeaderSize)
    <2>1. /\ uart_buffer_length' \in Nat /\ uart_buffer_length' >= uart_buffer_length
          /\ uart_buffer_length \in Nat /\ HeaderSize \in Nat
      BY DataTaken, Sizes
    <2>2. /\ uart_packet_started \in BOOLEAN
          /\ uart_packet_started => uart_buffer_length >= HeaderSize
      BY DEF TypeInv, TypeOK
    <2> QED
      BY <1>1, <2>1, <2>2
  <1> QED
    BY <1>1, <1>2, <1>3, <1>4, DataTaken, TypeParts, TypeHolds

LEMMA TypeTakeFails ==
  ASSUME UartConstants, TypeInv, MarkInv, TakeDataFails
  PROVE  TypeInv'
  <1>1. /\ UNCHANGED <<uart_buffer, uart_buffer_pos, uart_buffer_length, uart_packet_started>>
        /\ UNCHANGED <<fifo, input, receiving, ticking, uart_packet_timer>>
        /\ UNCHANGED <<ch_uart_packet_timer_sem, connected, handed, before, cut, unnoticed>>
        /\ UNCHANGED client /\ Fault /\ TakesEvent
    BY DEF TakeDataFails, ring, handler, history
  <1>2. events' \in Seq(0..FifoSize)
    BY <1>1, FirstEvent
  <1> QED
    BY <1>1, <1>2, TypeParts, TypeHolds

LEMMA TypeOverflow ==
  ASSUME UartConstants, TypeInv, MarkInv, TakeOverflow
  PROVE  TypeInv'
  <1>1. /\ UNCHANGED <<fifo, ticking, uart_packet_timer>>
        /\ UNCHANGED <<ch_uart_packet_timer_sem, connected, faults, handed, before, unnoticed>>
        /\ UNCHANGED client /\ BufferClear /\ TakesEvent
    BY DEF TakeOverflow, handler
  <1>2. events' \in Seq(0..FifoSize)
    BY <1>1, FirstEvent
  <1>3. input' \in Seq(Bytes) /\ receiving' = "reset"
    BY EmptySeq DEF TakeOverflow
  <1> QED
    BY <1>1, <1>2, <1>3, ClearTypes, TypeParts, TypeHolds

LEMMA TypeReset ==
  ASSUME UartConstants, TypeInv, ResetQueue
  PROVE  TypeInv'
  <1>1. /\ UNCHANGED <<uart_buffer, uart_buffer_pos, uart_buffer_length, uart_packet_started>>
        /\ UNCHANGED <<fifo, input, ticking, uart_packet_timer>>
        /\ UNCHANGED <<ch_uart_packet_timer_sem, connected, faults, handed, before, cut>>
        /\ UNCHANGED client
    BY DEF ResetQueue, ring, handler
  <1>2. events' \in Seq(0..FifoSize) /\ receiving' = "wait"
    BY EmptySeq DEF ResetQueue
  <1>3. unnoticed' \in BOOLEAN
    BY DEF ResetQueue, TypeInv, TypeOK
  <1> QED
    BY <1>1, <1>2, <1>3, TypeParts, TypeHolds

LEMMA TypeNothing ==
  ASSUME UartConstants, TypeInv, ParseNothing
  PROVE  TypeInv'
  <1>1. /\ UNCHANGED <<uart_buffer, uart_buffer_pos, uart_buffer_length, uart_packet_started>>
        /\ UNCHANGED <<fifo, input, events, ticking, uart_packet_timer>>
        /\ UNCHANGED <<ch_uart_packet_timer_sem, connected, faults, handed, before, cut, unnoticed>>
        /\ UNCHANGED client /\ receiving' = "wait"
    BY DEF ParseNothing, ring, handler, history
  <1> QED
    BY <1>1, TypeParts, TypeHolds

LEMMA TypeGarbage ==
  ASSUME UartConstants, TypeInv, ParseGarbage
  PROVE  TypeInv'
  <1>1. /\ UNCHANGED <<fifo, input, events, ticking, uart_packet_timer>>
        /\ UNCHANGED <<ch_uart_packet_timer_sem, connected, faults, handed, before, unnoticed>>
        /\ UNCHANGED client /\ receiving' = "wait" /\ BufferClear
    BY DEF ParseGarbage, handler
  <1> QED
    BY <1>1, ClearTypes, TypeParts, TypeHolds

LEMMA SemTyped ==
  ASSUME TypeInv, PacketStarts
  PROVE  ch_uart_packet_timer_sem' \in BOOLEAN
  BY DEF TypeInv, TypeOK, PacketStarts

LEMMA TypeBegun ==
  ASSUME UartConstants, TypeInv, ParseBegun
  PROVE  TypeInv'
  <1>1. /\ UNCHANGED <<uart_buffer, uart_buffer_pos, uart_buffer_length>>
        /\ UNCHANGED <<fifo, input, events, ticking, uart_packet_timer>>
        /\ UNCHANGED <<connected, faults, handed, before, cut, unnoticed>>
        /\ UNCHANGED client /\ receiving' = "wait" /\ uart_packet_started' = TRUE
        /\ PacketBegun /\ PacketStarts
    BY DEF ParseBegun, handler
  <1>2. uart_buffer_length >= HeaderSize
    BY <1>1, PacketAtFront, Sizes
  <1>3. ch_uart_packet_timer_sem' \in BOOLEAN
    BY <1>1, SemTyped
  <1>4. uart_buffer_length' >= HeaderSize
    BY <1>1, <1>2
  <1> QED
    BY <1>1, <1>3, <1>4, TypeParts, TypeHolds

(* The packet leaves the ring.                                             *)
LEMMA PacketLeaves ==
  ASSUME UartConstants, TypeInv, ParseComplete
  PROVE  /\ PacketBegun /\ PacketLen \in 1..uart_buffer_length
         /\ PacketLen \in 0..Len(Ring) /\ PacketLen \in 0..uart_buffer_length
         /\ uart_buffer_pos' \in 0..BufferSize
         /\ uart_buffer_length' = uart_buffer_length - PacketLen
         /\ uart_buffer' = uart_buffer
         /\ Ring' = Without(Ring, PacketLen)
         /\ handed' = [k \in 1..PacketLen |-> Ring[k]]
         /\ handed' \in Seq(Bytes) /\ Len(handed') = PacketLen
  <1>. DEFINE n == PacketLen  L == uart_buffer_length
  <1>1. PacketBegun /\ L >= n /\ BufferGet(n) /\ handed' = [k \in 1..n |-> Content(k - 1)]
    BY DEF ParseComplete
  <1>2. /\ n \in Nat \ {0} /\ L \in Nat /\ RingType /\ Len(Ring) = L /\ Ring \in Seq(Bytes)
        /\ \A k \in 1..L : Ring[k] = Content(k - 1)
    BY <1>1, PacketAtFront, Sizes, RingIs DEF TypeInv
  <1>. HIDE DEF n
  <1>3. n \in 1..L /\ n \in 0..L
    BY <1>1, <1>2
  <1>4. /\ uart_buffer_pos' \in 0..BufferSize
        /\ uart_buffer_length' = L - n
        /\ uart_buffer' = uart_buffer
        /\ n \in 0..Len(Ring) /\ Ring' = Without(Ring, n)
    BY <1>1, <1>2, <1>3, RingGet
  <1>5. \A k \in 1..n : k \in 1..L
    BY <1>2, <1>3
  <1>6. handed' = [k \in 1..n |-> Ring[k]]
    BY <1>1, <1>2, <1>5
  <1>7. \A k \in 1..n : Ring[k] \in Bytes
    BY <1>2, <1>5, ElementOfSeq
  <1>8. [k \in 1..n |-> Ring[k]] \in [1..n -> Bytes]
    BY <1>7
  <1>9. handed' \in Seq(Bytes)
    BY <1>2, <1>6, <1>8, SeqDef
  <1>10. Len(handed') = n
    <2>. DEFINE f == [k \in 1..n |-> Ring[k]]
    <2>1. DOMAIN f = 1..n /\ f \in Seq(Bytes)
      BY <1>6, <1>9
    <2>. HIDE DEF f
    <2>2. Len(f) = n
      BY <1>2, <2>1, LenProperties
    <2> QED
      BY <1>6, <2>2 DEF f
  <1> QED
    BY <1>1, <1>3, <1>4, <1>6, <1>9, <1>10 DEF n

LEMMA TypeComplete ==
  ASSUME UartConstants, TypeInv, ParseComplete
  PROVE  TypeInv'
  <1>1. /\ UNCHANGED <<fifo, input, events, ticking, uart_packet_timer>>
        /\ UNCHANGED <<faults, cut, unnoticed>>
        /\ UNCHANGED client /\ receiving' = "parse" /\ uart_packet_started' = FALSE
        /\ PacketStarts
    BY DEF ParseComplete, handler, AfterPacket
  <1>2. ch_uart_packet_timer_sem' \in BOOLEAN
    BY <1>1, SemTyped
  <1>3. connected' \in BOOLEAN
    BY DEF ParseComplete, TypeInv, TypeOK
  <1>4. handed' \in Seq(ByteType)
    BY PacketLeaves, BytesIn
  <1>5. before' \in Nat
    <2>1. before' = IF handed = <<>> THEN 0 ELSE Last(handed).packet
      BY DEF ParseComplete
    <2>2. handed \in Seq(ByteType)
      BY DEF TypeInv, TypeOK
    <2>3. CASE handed # <<>>
      <3>1. Len(handed) \in 1..Len(handed)
        BY <2>2, <2>3, EmptySeq
      <3>2. handed[Len(handed)] \in ByteType
        BY <2>2, <3>1, ElementOfSeq
      <3> QED
        BY <2>1, <2>3, <3>2 DEF Last, ByteType
    <2> QED
      BY <2>1, <2>3
  <1>6. uart_buffer_length' \in 0..BufferSize
    <2>1. /\ uart_buffer_length' = uart_buffer_length - PacketLen
          /\ PacketLen \in 1..uart_buffer_length
      BY PacketLeaves
    <2>2. uart_buffer_length \in Nat /\ uart_buffer_length <= BufferSize /\ BufferSize \in Nat
      BY Sizes
    <2>3. uart_buffer_length - PacketLen \in 0..BufferSize
      BY <2>1, <2>2
    <2> QED
      BY <2>1, <2>3
  <1>7. Ring' \in Seq(Bytes)
    BY PacketLeaves, WithoutIs DEF TypeInv
  <1>8. uart_buffer_pos' \in 0..BufferSize /\ uart_buffer' = uart_buffer
    BY PacketLeaves
  <1> QED
    BY <1>1, <1>2, <1>3, <1>4, <1>5, <1>6, <1>7, <1>8, TypeParts, TypeHolds

LEMMA TypeCompleteFails ==
  ASSUME UartConstants, TypeInv, ParseCompleteFails
  PROVE  TypeInv'
  <1>1. /\ UNCHANGED <<fifo, input, events, ticking, uart_packet_timer>>
        /\ UNCHANGED <<connected, handed, before, unnoticed>>
        /\ UNCHANGED client /\ receiving' = "wait" /\ BufferClear /\ Fault
        /\ PacketStarts
    BY DEF ParseCompleteFails, handler
  <1>2. ch_uart_packet_timer_sem' \in BOOLEAN
    BY <1>1, SemTyped
  <1> QED
    BY <1>1, <1>2, ClearTypes, TypeParts, TypeHolds

LEMMA TypeHandles ==
  ASSUME UartConstants, TypeInv, Handles
  PROVE  TypeInv'
  <1>1. CASE Tick
    <2>1. /\ UNCHANGED <<uart_buffer, uart_buffer_pos, uart_buffer_length, uart_packet_started>>
          /\ UNCHANGED <<fifo, input, events, receiving, uart_packet_timer>>
          /\ UNCHANGED <<ch_uart_packet_timer_sem, faults, handed, before, cut, unnoticed>>
          /\ UNCHANGED client /\ ticking' = "check"
      BY <1>1 DEF Tick, ring
    <2>2. connected' \in BOOLEAN
      BY <1>1 DEF Tick, TypeInv, TypeOK
    <2> QED
      BY <2>1, <2>2, TypeParts, TypeHolds
  <1>2. CASE CheckTimer
    <2>1. /\ UNCHANGED <<uart_buffer, uart_buffer_pos, uart_buffer_length, uart_packet_started>>
          /\ UNCHANGED <<fifo, input, events, receiving>>
          /\ UNCHANGED <<connected, faults, handed, before, cut, unnoticed>>
          /\ UNCHANGED client
      BY <1>2 DEF CheckTimer, ring, history
    <2>2. ch_uart_packet_timer_sem' \in BOOLEAN /\ ticking' \in {"wait", "check", "clear", "give"}
      BY <1>2 DEF CheckTimer, TypeInv, TypeOK
    <2>3. uart_packet_timer' \in 0..Timeout
      <3>1. uart_packet_timer \in 0..Timeout /\ Timeout \in Nat \ {0}
        BY DEF TypeInv, TypeOK, UartConstants
      <3>2. Counted(uart_packet_timer) \in 0..Timeout /\ Timeout \in 0..Timeout
        BY <3>1 DEF Counted
      <3> QED
        BY <1>2, <3>2 DEF CheckTimer
    <2> QED
      BY <2>1, <2>2, <2>3, TypeParts, TypeHolds
  <1>3. CASE TimerClears
    <2>1. /\ UNCHANGED <<fifo, input, events, receiving, uart_packet_timer>>
          /\ UNCHANGED <<ch_uart_packet_timer_sem, connected, faults, handed, before, unnoticed>>
          /\ UNCHANGED client /\ ticking' = "give" /\ BufferClear
      BY <1>3 DEF TimerClears
    <2> QED
      BY <2>1, ClearTypes, TypeParts, TypeHolds
  <1>4. CASE GiveTimer
    <2>1. /\ UNCHANGED <<uart_buffer, uart_buffer_pos, uart_buffer_length, uart_packet_started>>
          /\ UNCHANGED <<fifo, input, events, receiving, uart_packet_timer>>
          /\ UNCHANGED <<connected, faults, handed, before, cut, unnoticed>>
          /\ UNCHANGED client /\ ticking' = "wait" /\ ch_uart_packet_timer_sem' = TRUE
      BY <1>4 DEF GiveTimer, ring, history
    <2> QED
      BY <2>1, TypeParts, TypeHolds
  <1> QED
    BY <1>1, <1>2, <1>3, <1>4 DEF Handles

-----------------------------------------------------------------------------
(* Room for an event, whenever the task waits for one.                     *)
LEMMA RoomForShort ==
  ASSUME UartConstants, TypeInv, ~Hopeless, NEW l \in Nat, l < HeaderSize
  PROVE  l + FifoSize <= BufferSize
  <1>1. PICK n \in Lengths : ~(n > BufferSize)
    BY DEF Hopeless
  <1>2. n \in Nat /\ n >= HeaderSize /\ n + FifoSize <= BufferSize
    BY <1>1 DEF UartConstants
  <1>3. FifoSize \in Nat /\ BufferSize \in Nat /\ HeaderSize \in Nat
    BY Sizes
  <1> QED
    BY <1>2, <1>3

LEMMA StepRoom ==
  ASSUME UartConstants, TypeInv, RoomInv, [Next]_vars
  PROVE  RoomInv'
  <1>. DEFINE L == uart_buffer_length
  <1>1. Hopeless' <=> Hopeless
    BY DEF Hopeless
  <1>2. /\ L \in Nat /\ HeaderSize \in Nat \ {0} /\ FifoSize \in Nat /\ BufferSize \in Nat
    BY Sizes
  <1>3. ASSUME uart_buffer_length' = 0 PROVE RoomInv'
    <2>1. Hopeless \/ 0 + FifoSize <= BufferSize
      BY <1>2, RoomForShort
    <2> QED
      BY <1>1, <1>3, <2>1 DEF RoomInv
  <1>4. ASSUME receiving' = "parse" PROVE RoomInv'
    BY <1>4 DEF RoomInv
  <1>5. ASSUME receiving # "parse", uart_buffer_length' = uart_buffer_length PROVE RoomInv'
    BY <1>1, <1>5 DEF RoomInv
  <1>6. ASSUME receiving' = receiving, uart_buffer_length' = uart_buffer_length PROVE RoomInv'
    BY <1>1, <1>6 DEF RoomInv
  <1>7. CASE \E n \in Lengths : ClientSends(n)
    BY <1>6, <1>7 DEF ClientSends, ring
  <1>8. CASE DriverStores
    BY <1>6, <1>8 DEF DriverStores, ring
  <1>9. CASE TakeData
    BY <1>4, <1>9 DEF TakeData
  <1>10. CASE TakeOverflow
    BY <1>3, <1>10 DEF TakeOverflow, BufferClear
  <1>11. CASE ResetQueue
    BY <1>5, <1>11 DEF ResetQueue, ring
  <1>12. CASE ParseNothing
    <2>1. uart_buffer_length' = L
      BY <1>12 DEF ParseNothing, ring
    <2>2. L < HeaderSize
      BY <1>2, <1>12 DEF ParseNothing, NoPacket
    <2>3. Hopeless \/ L + FifoSize <= BufferSize
      BY <1>2, <2>2, RoomForShort
    <2> QED
      BY <1>1, <2>1, <2>3 DEF RoomInv
  <1>13. CASE ParseGarbage
    BY <1>3, <1>13 DEF ParseGarbage, BufferClear
  <1>14. CASE ParseBegun
    <2>1. uart_buffer_length' = L /\ PacketBegun /\ L < PacketLen
      BY <1>14 DEF ParseBegun
    <2>2. PacketLen \in Lengths /\ PacketLen \in Nat /\ PacketLen <= BufferSize
      BY <2>1, PacketAtFront
    <2>3. PacketLen + FifoSize <= BufferSize
      BY <1>2, <2>2 DEF UartConstants
    <2>. DEFINE n == PacketLen
    <2>. HIDE DEF n
    <2>4. n \in Nat /\ n + FifoSize <= BufferSize /\ L < n
      BY <2>1, <2>2, <2>3 DEF n
    <2>5. L + FifoSize <= BufferSize
      BY <1>2, <2>4
    <2> QED
      BY <2>1, <2>5 DEF RoomInv
  <1>15. CASE ParseComplete
    BY <1>4, <1>15 DEF ParseComplete, AfterPacket
  <1>16. CASE TakeDataFails
    BY <1>6, <1>16 DEF TakeDataFails, ring
  <1>17. CASE ParseCompleteFails
    BY <1>3, <1>17 DEF ParseCompleteFails, BufferClear
  <1>18. CASE Handles
    <2>1. CASE TimerClears
      BY <1>3, <2>1 DEF TimerClears, BufferClear
    <2>2. CASE Tick \/ CheckTimer \/ GiveTimer
      BY <1>6, <2>2 DEF Tick, CheckTimer, GiveTimer, ring
    <2> QED
      BY <1>18, <2>1, <2>2 DEF Handles
  <1>19. CASE UNCHANGED vars
    BY <1>6, <1>19 DEF vars, ring
  <1> QED
    BY <1>7, <1>8, <1>9, <1>10, <1>11, <1>12, <1>13, <1>14, <1>15, <1>16, <1>17,
       <1>18, <1>19 DEF Next, Receives

LEMMA StepType ==
  ASSUME UartConstants, TypeInv, RoomInv, MarkInv, [Next]_vars
  PROVE  TypeInv'
  <1>1. CASE UNCHANGED vars
    <2>1. /\ UNCHANGED <<uart_buffer, uart_buffer_pos, uart_buffer_length, uart_packet_started>>
          /\ UNCHANGED <<fifo, input, events, receiving, ticking, uart_packet_timer>>
          /\ UNCHANGED <<ch_uart_packet_timer_sem, connected, faults, handed, before, cut, unnoticed>>
          /\ UNCHANGED client
      BY <1>1 DEF vars, ring, handler, history
    <2> QED
      BY <2>1, TypeParts, TypeHolds
  <1>2. CASE Next
    BY <1>2, TypeSends, TypeStores, TypeTakes, TypeTakeFails, TypeOverflow, TypeReset,
       TypeNothing, TypeGarbage, TypeBegun, TypeComplete, TypeCompleteFails, TypeHandles
       DEF Next, Receives
  <1> QED
    BY <1>1, <1>2

-----------------------------------------------------------------------------
(* Steps that take n bytes from the front of the ring, if any.             *)
LEMMA FrontGone ==
  ASSUME NEW S, NEW a \in Seq(S), NEW b \in Seq(S), NEW c \in Seq(S), NEW n \in 0..Len(a)
  PROVE  Without(a, n) \o b \o c = Without(a \o b \o c, n)
  <1>. DEFINE w == Without(a, n)  s == a \o b \o c  t == w \o b \o c  u == Without(s, n)
  <1>1. /\ w \in Seq(S) /\ Len(w) = Len(a) - n
        /\ \A i \in 1..(Len(a) - n) : w[i] = a[i + n]
    BY WithoutIs
  <1>2. Len(a) \in Nat /\ Len(b) \in Nat /\ Len(c) \in Nat /\ n \in Nat /\ n <= Len(a)
    BY LenProperties
  <1>3. /\ s \in Seq(S) /\ Len(s) = Len(a) + Len(b) + Len(c)
        /\ \A i \in 1..(Len(a) + Len(b) + Len(c)) :
              s[i] = IF i <= Len(a) THEN a[i]
                     ELSE IF i <= Len(a) + Len(b) THEN b[i - Len(a)]
                     ELSE c[i - (Len(a) + Len(b))]
    BY JoinIs
  <1>. HIDE DEF w, s
  <1>4. /\ t \in Seq(S) /\ Len(t) = Len(w) + Len(b) + Len(c)
        /\ \A i \in 1..(Len(w) + Len(b) + Len(c)) :
              t[i] = IF i <= Len(w) THEN w[i]
                     ELSE IF i <= Len(w) + Len(b) THEN b[i - Len(w)]
                     ELSE c[i - (Len(w) + Len(b))]
    <2>1. w \in Seq(S)
      BY <1>1
    <2> QED
      BY <2>1, JoinIs
  <1>5. n \in 0..Len(s) /\ Len(s) \in Nat
    BY <1>2, <1>3
  <1>6. /\ u \in Seq(S) /\ Len(u) = Len(s) - n
        /\ \A i \in 1..(Len(s) - n) : u[i] = s[i + n]
    BY <1>3, <1>5, WithoutIs
  <1>. HIDE DEF t, u
  <1>. DEFINE N == Len(a) + Len(b) + Len(c) - n
  <1>7. Len(t) = N /\ Len(u) = N /\ N \in Nat
    BY <1>1, <1>2, <1>3, <1>4, <1>6
  <1>8. ASSUME NEW i \in 1..N PROVE t[i] = u[i]
    <2>1. u[i] = s[i + n]
      BY <1>2, <1>3, <1>6
    <2>2. CASE i <= Len(a) - n
      <3>1. i \in 1..(Len(a) - n) /\ i + n <= Len(a) /\ i + n \in 1..(Len(a) + Len(b) + Len(c))
            /\ i <= Len(w) /\ i \in 1..(Len(w) + Len(b) + Len(c))
        BY <1>1, <1>2, <2>2
      <3>2. s[i + n] = a[i + n]
        BY <1>3, <3>1
      <3>3. t[i] = w[i]
        BY <1>4, <3>1
      <3> QED
        BY <1>1, <2>1, <3>1, <3>2, <3>3
    <2>3. CASE ~(i <= Len(a) - n) /\ i <= Len(a) - n + Len(b)
      <3>1. /\ i + n \in 1..(Len(a) + Len(b) + Len(c)) /\ ~(i + n <= Len(a))
            /\ i + n <= Len(a) + Len(b) /\ (i + n) - Len(a) = i - Len(w)
            /\ ~(i <= Len(w)) /\ i <= Len(w) + Len(b) /\ i \in 1..(Len(w) + Len(b) + Len(c))
        BY <1>1, <1>2, <2>3
      <3>2. s[i + n] = b[(i + n) - Len(a)]
        BY <1>3, <3>1
      <3>3. t[i] = b[i - Len(w)]
        BY <1>4, <3>1
      <3> QED
        BY <2>1, <3>1, <3>2, <3>3
    <2>4. CASE ~(i <= Len(a) - n) /\ ~(i <= Len(a) - n + Len(b))
      <3>1. /\ i + n \in 1..(Len(a) + Len(b) + Len(c)) /\ ~(i + n <= Len(a))
            /\ ~(i + n <= Len(a) + Len(b))
            /\ (i + n) - (Len(a) + Len(b)) = i - (Len(w) + Len(b))
            /\ ~(i <= Len(w)) /\ ~(i <= Len(w) + Len(b)) /\ i \in 1..(Len(w) + Len(b) + Len(c))
        BY <1>1, <1>2, <2>4
      <3>2. s[i + n] = c[(i + n) - (Len(a) + Len(b))]
        BY <1>3, <3>1
      <3>3. t[i] = c[i - (Len(w) + Len(b))]
        BY <1>4, <3>1
      <3> QED
        BY <2>1, <3>1, <3>2, <3>3
    <2> QED
      BY <2>2, <2>3, <2>4
  <1>. HIDE DEF N
  <1>9. \A i \in 1..Len(t) : t[i] = u[i]
    BY <1>7, <1>8
  <1>10. t \in Seq(S) /\ u \in Seq(S) /\ Len(t) = Len(u)
    BY <1>4, <1>6, <1>7
  <1>11. t = u
    BY <1>9, <1>10, SeqEqual
  <1> QED
    BY <1>11 DEF t, u, s, w

\* A step from the front, n bytes.
FromFront(n) ==
    /\ n \in 0..uart_buffer_length
    /\ Ring' = Without(Ring, n) /\ uart_buffer_length' = uart_buffer_length - n
    /\ UNCHANGED <<input, fifo, events, client, unnoticed>>
    /\ receiving' # "reset" => receiving # "reset"

LEMMA StreamFront ==
  ASSUME UartConstants, TypeInv, NEW n, FromFront(n)
  PROVE  /\ Stream' = Without(Stream, n) /\ n \in 0..Len(Stream) /\ n \in Nat
         /\ LastSent' = LastSent /\ (Certain' <=> Certain) /\ (Clean' <=> Clean)
  <1>1. /\ Ring \in Seq(Bytes) /\ input \in Seq(Bytes) /\ fifo \in Seq(Bytes)
        /\ n \in 0..Len(Ring)
    BY Sizes DEF TypeInv, FromFront
  <1>. DEFINE r == Ring
  <1>2. Without(r, n) \o input \o fifo = Without(r \o input \o fifo, n)
    <2>1. r \in Seq(Bytes) /\ input \in Seq(Bytes) /\ fifo \in Seq(Bytes) /\ n \in 0..Len(r)
      BY <1>1
    <2>. HIDE DEF r
    <2> QED
      BY <2>1, FrontGone
  <1>3. Stream' = Without(r, n) \o input \o fifo
    BY DEF FromFront, Stream
  <1>4. n \in 0..Len(Stream) /\ n \in Nat
    BY StreamIs, Sizes DEF FromFront
  <1>5. LastSent' = LastSent
    BY DEF FromFront, client, LastSent, Byte
  <1>6. (Certain' <=> Certain) /\ (Clean' <=> Clean)
    BY DEF FromFront, Certain, Clean, Hopeless
  <1> QED
    BY <1>2, <1>3, <1>4, <1>5, <1>6 DEF Stream

LEMMA GapFront ==
  ASSUME UartConstants, TypeInv, NEW n, FromFront(n), GapInv
  PROVE  GapInv'
  <1>1. /\ Stream' = Without(Stream, n) /\ n \in 0..Len(Stream) /\ n \in Nat
        /\ LastSent' = LastSent /\ (Clean' <=> Clean) /\ fifo' = fifo
    BY StreamFront DEF FromFront
  <1>2. Gapless(fifo', Len(fifo')) /\ EndsWith(fifo', LastSent')
    BY <1>1 DEF GapInv
  <1>3. ASSUME Clean PROVE Gapless(Stream', Len(Stream')) /\ EndsWith(Stream', LastSent')
    <2>. DEFINE s == Stream
    <2>1. s \in Seq(Bytes) /\ Gapless(s, Len(s)) /\ EndsWith(s, LastSent) /\ n \in 0..Len(s)
      BY <1>1, <1>3, StreamIs DEF GapInv
    <2>. HIDE DEF s
    <2>2. Len(s) \in n..Len(s)
      BY <2>1, LenProperties
    <2>3. Gapless(Without(s, n), Len(s) - n) /\ EndsWith(Without(s, n), LastSent)
          /\ Len(Without(s, n)) = Len(s) - n
      BY <2>1, <2>2, WithoutFront, WithoutIs
    <2>4. Gapless(Without(s, n), Len(Without(s, n))) /\ EndsWith(Without(s, n), LastSent)
      BY <2>3
    <2> QED
      BY <1>1, <2>4 DEF s
  <1>4. (Gapless(fifo, Len(fifo)) /\ EndsWith(fifo, LastSent))'
    BY <1>2
  <1>5. (Clean => Gapless(Stream, Len(Stream)) /\ EndsWith(Stream, LastSent))'
    BY <1>1, <1>3
  <1> QED
    BY <1>4, <1>5 DEF GapInv

LEMMA MarkFront ==
  ASSUME UartConstants, TypeInv, NEW n, FromFront(n), MarkInv
  PROVE  MarkInv'
  <1> SUFFICES ASSUME receiving' # "reset"
               PROVE  (\E m \in [0..Len(events) -> 0..Len(input)] :
                         /\ Marks(m, events)
                         /\ Certain => \A k \in 0..Len(events) :
                              CleanTo(k) => Gapless(Stream, uart_buffer_length + m[k]))'
    BY DEF MarkInv
  <1>1. receiving # "reset" /\ events' = events /\ input' = input
        /\ uart_buffer_length' = uart_buffer_length - n /\ n \in 0..uart_buffer_length
    BY DEF FromFront
  <1>2. PICK m \in [0..Len(events) -> 0..Len(input)] :
            /\ Marks(m, events)
            /\ Certain => \A k \in 0..Len(events) :
                              CleanTo(k) => Gapless(Stream, uart_buffer_length + m[k])
    BY <1>1 DEF MarkInv
  <1>3. /\ Stream' = Without(Stream, n) /\ n \in 0..Len(Stream) /\ n \in Nat
        /\ (Certain' <=> Certain)
    BY StreamFront
  <1>4. Marks(m, events)'
    BY <1>1, <1>2 DEF Marks
  <1>5. ASSUME Certain, NEW k \in 0..Len(events), CleanTo(k)
        PROVE  Gapless(Without(Stream, n), (uart_buffer_length - n) + m[k])
    <2>. DEFINE s == Stream  L == uart_buffer_length
    <2>1. /\ s \in Seq(Bytes) /\ Len(s) = L + Len(input) + Len(fifo)
          /\ L \in Nat /\ Len(input) \in Nat /\ Len(fifo) \in Nat /\ n \in 0..Len(s)
      BY <1>3, StreamIs, Sizes
    <2>2. m[k] \in 0..Len(input)
      BY <1>2
    <2>3. Gapless(s, L + m[k])
      BY <1>2, <1>5
    <2>. HIDE DEF s
    <2>4. L + m[k] \in n..Len(s) /\ (L + m[k]) - n = (L - n) + m[k]
      BY <1>1, <1>3, <2>1, <2>2
    <2>5. Gapless(Without(s, n), (L + m[k]) - n)
      BY <2>1, <2>3, <2>4, WithoutFront
    <2> QED
      BY <2>4, <2>5 DEF s
  <1>6. \A k : CleanTo(k)' <=> CleanTo(k)
    BY <1>1 DEF CleanTo
  <1>7. (Certain => \A k \in 0..Len(events) :
                       CleanTo(k) => Gapless(Stream, uart_buffer_length + m[k]))'
    BY <1>1, <1>3, <1>5, <1>6
  <1>8. m \in [0..Len(events') -> 0..Len(input')]
    BY <1>1, <1>2
  <1> QED
    BY <1>4, <1>7, <1>8

LEMMA OrderFront ==
  ASSUME UartConstants, TypeInv, NEW n, FromFront(n), OrderInv
  PROVE  /\ InOrder(Stream') /\ UpTo(Stream', LastSent')
         /\ handed # <<>> => Beyond(Stream', Last(handed).packet)
         /\ handed' = handed => OrderInv'
  <1>1. /\ Stream' = Without(Stream, n) /\ n \in 0..Len(Stream) /\ LastSent' = LastSent
        /\ Stream \in Seq(Bytes)
    BY StreamFront, StreamIs
  <1>. DEFINE s == Stream  t == Without(s, n)  p == Last(handed).packet
  <1>2. /\ s \in Seq(Bytes) /\ n \in 0..Len(s) /\ InOrder(s) /\ UpTo(s, LastSent)
        /\ handed # <<>> => Beyond(s, p)
    BY <1>1 DEF OrderInv
  <1>. HIDE DEF s, p
  <1>3. InOrder(t) /\ UpTo(t, LastSent) /\ (handed # <<>> => Beyond(t, p))
    BY <1>2, WithoutFront
  <1>4. Stream' = t
    BY <1>1 DEF s
  <1>. HIDE DEF t
  <1>5. packet' = packet /\ place' = place /\ length' = length
    BY DEF FromFront, client
  <1>6. /\ InOrder(Stream') /\ UpTo(Stream', LastSent')
        /\ handed # <<>> => Beyond(Stream', Last(handed).packet)
    BY <1>1, <1>3, <1>4 DEF p
  <1>7. ASSUME handed' = handed PROVE OrderInv'
    <2>1. (InOrder(Stream) /\ UpTo(Stream, LastSent))'
      BY <1>6
    <2>2. (handed # <<>> =>
             /\ Beyond(Stream, Last(handed).packet)
             /\ \/ packet > Last(handed).packet
                \/ packet = Last(handed).packet /\ place = length)'
      BY <1>5, <1>6, <1>7 DEF OrderInv
    <2> QED
      BY <2>1, <2>2 DEF OrderInv
  <1> QED
    BY <1>6, <1>7

(* The steps that do, and hand over no packet.                             *)
Idles ==
    \/ ParseNothing \/ ParseGarbage \/ ParseBegun \/ ParseCompleteFails
    \/ Handles \/ UNCHANGED vars

LEMMA IdlesFront ==
  ASSUME UartConstants, TypeInv, Idles
  PROVE  (\E n : FromFront(n)) /\ UNCHANGED <<handed, before>>
  <1>. DEFINE L == uart_buffer_length
  <1>1. /\ L \in Nat /\ Ring \in Seq(Bytes) /\ Len(Ring) = L
    BY Sizes DEF TypeInv
  <1>2. Without(Ring, 0) = Ring /\ L - 0 = L /\ 0 \in 0..L
    <2>1. SubSeq(Ring, 1, Len(Ring)) = Ring
      BY <1>1, SubSeqFull
    <2>2. 0 + 1 = 1
      OBVIOUS
    <2> QED
      BY <1>1, <2>1, <2>2 DEF Without
  <1>3. Without(Ring, L) = <<>> /\ L - L = 0 /\ L \in 0..L
    <2>1. L + 1 \in Int /\ L \in Int /\ L < L + 1
      BY <1>1
    <2>2. SubSeq(Ring, L + 1, L) = <<>>
      BY <2>1, SubSeqEmpty
    <2> QED
      BY <1>1, <2>2 DEF Without
  <1>4. ASSUME UNCHANGED <<uart_buffer, uart_buffer_pos, uart_buffer_length>>,
               UNCHANGED <<input, fifo, events, client, unnoticed>>,
               receiving' # "reset" => receiving # "reset"
        PROVE  FromFront(0)
    <2>1. Ring' = Ring /\ L' = L
      BY <1>4, RingStays
    <2> QED
      BY <1>2, <1>4, <2>1 DEF FromFront
  <1>5. ASSUME BufferClear,
               UNCHANGED <<input, fifo, events, client, unnoticed>>,
               receiving' # "reset" => receiving # "reset"
        PROVE  FromFront(L)
    <2>1. Ring' = <<>> /\ L' = 0
      BY <1>5, RingClears
    <2> QED
      BY <1>3, <1>5, <2>1 DEF FromFront
  <1>6. CASE ParseNothing
    BY <1>4, <1>6 DEF ParseNothing, ring, history
  <1>7. CASE ParseGarbage
    BY <1>5, <1>7 DEF ParseGarbage
  <1>8. CASE ParseBegun
    BY <1>4, <1>8 DEF ParseBegun
  <1>9. CASE ParseCompleteFails
    BY <1>5, <1>9 DEF ParseCompleteFails
  <1>10. CASE Handles
    <2>1. CASE TimerClears
      BY <1>5, <2>1 DEF TimerClears
    <2>2. CASE Tick \/ CheckTimer \/ GiveTimer
      BY <1>4, <2>2 DEF Tick, CheckTimer, GiveTimer, ring, history
    <2> QED
      BY <1>10, <2>1, <2>2 DEF Handles
  <1>11. CASE UNCHANGED vars
    BY <1>4, <1>11 DEF vars, ring, history
  <1> QED
    BY <1>6, <1>7, <1>8, <1>9, <1>10, <1>11 DEF Idles

\* What was delivered stays so while the client goes on.
LEMMA HandStays ==
  ASSUME TypeInv, UNCHANGED <<handed, before>>, packet' \in Nat, packet' >= packet,
         unnoticed => unnoticed', HandInv
  PROVE  HandInv'
  <1>1. packet \in Nat /\ before \in Nat
    BY DEF TypeInv, TypeOK
  <1>2. (Hopeless' <=> Hopeless) /\ (Certain' => Certain)
    BY DEF Hopeless, Certain
  <1>3. ASSUME DeliveredWhole PROVE DeliveredWhole'
    <2>1. CASE handed = <<>> \/ unnoticed
      BY <2>1 DEF DeliveredWhole
    <2>2. CASE \E p \in (before + 1)..packet, n \in Lengths : handed = Whole(p, n)
      <3>1. PICK p \in (before + 1)..packet, n \in Lengths : handed = Whole(p, n)
        BY <2>2
      <3>2. p \in (before + 1)..(packet')
        BY <1>1, <3>1
      <3>3. handed' = Whole(p, n) /\ before' = before
        BY <3>1
      <3> QED
        BY <3>2, <3>3 DEF DeliveredWhole, Whole, Byte
    <2> QED
      BY <1>3, <2>1, <2>2 DEF DeliveredWhole
  <1> QED
    BY <1>2, <1>3 DEF HandInv

LEMMA StepIdles ==
  ASSUME UartConstants, UartInv, Idles
  PROVE  MarkInv' /\ HandInv' /\ (Certain' => OrderInv' /\ GapInv')
  <1>1. TypeInv /\ MarkInv /\ HandInv /\ (Certain => OrderInv /\ GapInv)
    BY DEF UartInv
  <1>2. PICK n : FromFront(n)
    BY <1>1, IdlesFront
  <1>3. UNCHANGED <<handed, before>>
    BY <1>1, IdlesFront
  <1>4. MarkInv'
    BY <1>1, <1>2, MarkFront
  <1>5. Certain' <=> Certain
    BY <1>1, <1>2, StreamFront
  <1>6. Certain => OrderInv' /\ GapInv'
    BY <1>1, <1>2, <1>3, OrderFront, GapFront
  <1>7. HandInv'
    <2>1. packet' = packet /\ unnoticed' = unnoticed
      BY <1>2 DEF FromFront, client
    <2>2. packet \in Nat
      BY <1>1 DEF TypeInv, TypeOK
    <2>3. packet' \in Nat /\ packet' >= packet
      BY <2>1, <2>2
    <2> QED
      BY <1>1, <1>3, <2>1, <2>3, HandStays
  <1> QED
    BY <1>4, <1>5, <1>6, <1>7

-----------------------------------------------------------------------------
(* A packet is handed over.                                                *)
LEMMA CompleteFront ==
  ASSUME UartConstants, TypeInv, ParseComplete
  PROVE  FromFront(PacketLen)
  <1>1. UNCHANGED <<input, fifo, events, client, unnoticed>> /\ receiving = "parse"
    BY DEF ParseComplete
  <1> QED
    BY <1>1, PacketLeaves DEF FromFront

(* In the ring no byte is missing.                                         *)
LEMMA RingGapless ==
  ASSUME UartConstants, TypeInv, MarkInv, Certain, receiving # "reset"
  PROVE  Gapless(Stream, uart_buffer_length)
  <1>1. PICK m \in [0..Len(events) -> 0..Len(input)] :
            /\ Marks(m, events)
            /\ \A k \in 0..Len(events) :
                  CleanTo(k) => Gapless(Stream, uart_buffer_length + m[k])
    BY DEF MarkInv
  <1>2. 0 \in 0..Len(events) /\ uart_buffer_length + 0 = uart_buffer_length
    BY Sizes
  <1>3. CleanTo(0)
    BY DEF CleanTo
  <1>4. m[0] = 0
    BY <1>1 DEF Marks
  <1> QED
    BY <1>1, <1>2, <1>3, <1>4

LEMMA HandedIsWhole ==
  ASSUME UartConstants, UartInv, Certain, ParseComplete
  PROVE  \E p \in Nat :
            /\ PacketLen \in Lengths /\ handed' = Whole(p, PacketLen)
            /\ Last(handed').packet = p
            /\ handed # <<>> => p > Last(handed).packet
            /\ p >= 1
            /\ packet > p \/ (packet = p /\ place = length)
            /\ \A i \in (PacketLen + 1)..Len(Stream) : Stream[i].packet > p
  <1>. DEFINE s == Stream  L == uart_buffer_length  n == PacketLen  p == Stream[1].packet
  <1>1. TypeInv /\ MarkInv /\ OrderInv /\ receiving = "parse"
    BY DEF UartInv, ParseComplete
  <1>2. /\ PacketBegun /\ n \in 1..L /\ handed' = [k \in 1..n |-> Ring[k]]
        /\ handed' \in Seq(Bytes) /\ Len(handed') = n
    BY <1>1, PacketLeaves
  <1>3. /\ HeaderSize <= L /\ 1 \in 1..L /\ HeaderSize \in 1..L
        /\ Ring[1].place = 1 /\ n = Ring[HeaderSize].length /\ n \in Nat \ {0}
    BY <1>1, <1>2, PacketAtFront
  <1>4. /\ s \in Seq(Bytes) /\ Len(s) = L + Len(input) + Len(fifo)
        /\ \A i \in 1..L : s[i] = Ring[i]
    BY <1>1, StreamIs
  <1>5. L \in Nat /\ Len(input) \in Nat /\ Len(fifo) \in Nat
    BY <1>1, Sizes
  <1>6. InOrder(s) /\ Gapless(s, L) /\ UpTo(s, LastSent)
    BY <1>1, RingGapless DEF OrderInv
  <1>7. s[1].place = 1 /\ n = s[HeaderSize].length
    BY <1>3, <1>4
  <1>8. L \in 0..Len(s) /\ n <= L /\ 1 \in 1..Len(s) /\ n \in 1..Len(s)
    BY <1>2, <1>4, <1>5
  <1>9. p = s[1].packet
    OBVIOUS
  <1>. HIDE DEF s, n, p
  <1>10. /\ n \in Lengths /\ n \in 1..L
         /\ \A k \in 1..n : s[k] = Byte(p, k, n)
         /\ \A i \in (n + 1)..Len(s) : s[i].packet > p
    BY <1>3, <1>4, <1>6, <1>7, <1>8, <1>9, FrontIsWhole
  <1>11. \A k \in 1..n : k \in 1..L
    BY <1>2, <1>5
  <1>12. handed' = Whole(p, n)
    BY <1>2, <1>4, <1>10, <1>11 DEF Whole, Byte
  <1>13. s[1] \in Bytes /\ p \in Nat \ {0}
    <2>1. s[1] \in Bytes
      BY <1>4, <1>8, ElementOfSeq
    <2> QED
      BY <1>9, <2>1, ByteFields
  <1>14. Last(handed').packet = p
    <2>1. n \in 1..n
      BY <1>2
    <2>2. Last(handed') = Byte(p, n, n)
      BY <1>2, <1>12, <2>1 DEF Last, Whole
    <2> QED
      BY <2>2 DEF Byte
  <1>15. handed # <<>> => p > Last(handed).packet
    BY <1>1, <1>8, <1>9 DEF OrderInv, Beyond, s
  <1>16. packet > p \/ (packet = p /\ place = length)
    <2>1. s[n] = LastSent \/ After(s[n], LastSent)
      BY <1>6, <1>8 DEF UpTo
    <2>2. n \in 1..n
      BY <1>2
    <2>6. s[n] = Byte(p, n, n)
      BY <1>10, <2>2
    <2>3. s[n].packet = p /\ s[n].place = n /\ s[n].length = n
      BY <2>6 DEF Byte
    <2>4. LastSent.packet = packet /\ LastSent.place = place /\ LastSent.length = length
      BY DEF LastSent, Byte
    <2>5. packet \in Nat /\ length \in Nat /\ place \in 0..length
      BY <1>1 DEF TypeInv, TypeOK
    <2> QED
      BY <1>3, <2>1, <2>3, <2>4, <2>5 DEF After
  <1>17. p \in Nat /\ p >= 1
    BY <1>13
  <1> QED
    BY <1>10, <1>12, <1>14, <1>15, <1>16, <1>17 DEF n, s

LEMMA StepComplete ==
  ASSUME UartConstants, UartInv, ParseComplete
  PROVE  MarkInv' /\ HandInv' /\ (Certain' => OrderInv' /\ GapInv')
  <1>. DEFINE n == PacketLen  s == Stream
  <1>1. TypeInv /\ MarkInv /\ HandInv /\ (Certain => OrderInv /\ GapInv)
    BY DEF UartInv
  <1>2. FromFront(n)
    BY <1>1, CompleteFront
  <1>. HIDE DEF n
  <1>3. MarkInv'
    BY <1>1, <1>2, MarkFront
  <1>4. /\ Certain' <=> Certain
        /\ Stream' = Without(s, n) /\ n \in 0..Len(s) /\ LastSent' = LastSent
    BY <1>1, <1>2, StreamFront
  <1>5. /\ packet' = packet /\ place' = place /\ length' = length
        /\ packet \in Nat /\ handed \in Seq(ByteType)
        /\ before' = IF handed = <<>> THEN 0 ELSE Last(handed).packet
    BY <1>1, <1>2 DEF FromFront, client, TypeInv, TypeOK, ParseComplete
  <1>6. ~Hopeless
    BY <1>1, PacketAtFront DEF ParseComplete
  <1>7. ASSUME Certain PROVE DeliveredWhole' /\ OrderInv' /\ GapInv'
    <2>1. PICK p \in Nat :
            /\ n \in Lengths /\ handed' = Whole(p, n)
            /\ Last(handed').packet = p
            /\ handed # <<>> => p > Last(handed).packet
            /\ p >= 1
            /\ packet > p \/ (packet = p /\ place = length)
            /\ \A i \in (n + 1)..Len(s) : s[i].packet > p
      BY <1>7, HandedIsWhole DEF n
    <2>2. DeliveredWhole'
      <3>1. before' \in Nat /\ p > before'
        <4>1. CASE handed = <<>>
          BY <1>5, <2>1, <4>1
        <4>2. CASE handed # <<>>
          <5>1. Len(handed) \in 1..Len(handed)
            BY <1>5, <4>2, EmptySeq
          <5>2. handed[Len(handed)] \in ByteType
            BY <1>5, <5>1, ElementOfSeq
          <5>3. Last(handed).packet \in Nat
            BY <5>2 DEF Last, ByteType
          <5> QED
            BY <1>5, <2>1, <4>2, <5>3
        <4> QED
          BY <4>1, <4>2
      <3>. DEFINE b == before'  q == packet'
      <3>2. b \in Nat /\ p > b /\ q \in Nat /\ q >= p
        BY <1>5, <2>1, <3>1
      <3>. HIDE DEF b, q
      <3>3. p \in (b + 1)..q
        BY <3>2
      <3>4. \E x \in (b + 1)..q, y \in Lengths : handed' = Whole(x, y)
        BY <2>1, <3>3
      <3> QED
        BY <3>4 DEF DeliveredWhole, Whole, Byte, b, q
    <2>3. GapInv'
      BY <1>1, <1>2, <1>7, GapFront
    <2>4. OrderInv'
      <3>1. InOrder(Stream') /\ UpTo(Stream', LastSent')
        BY <1>1, <1>2, <1>7, OrderFront
      <3>2. Beyond(Stream', p)
        <4>. DEFINE t == Without(s, n)
        <4>1. s \in Seq(Bytes)
          BY <1>1, StreamIs
        <4>. HIDE DEF s
        <4>2. Len(t) = Len(s) - n /\ \A i \in 1..(Len(s) - n) : t[i] = s[i + n]
          BY <1>4, <4>1, WithoutIs
        <4>3. Len(s) \in Nat /\ n \in Nat
          BY <1>4, <4>1, LenProperties
        <4>. HIDE DEF t
        <4>4. ASSUME NEW i \in 1..Len(t) PROVE t[i].packet > p
          <5>1. i \in 1..(Len(s) - n) /\ i + n \in (n + 1)..Len(s)
            BY <4>2, <4>3
          <5> QED
            BY <2>1, <4>2, <5>1
        <4>5. Stream' = t
          BY <1>4 DEF t
        <4> QED
          BY <4>4, <4>5 DEF Beyond
      <3>3. (handed # <<>> =>
               /\ Beyond(Stream, Last(handed).packet)
               /\ \/ packet > Last(handed).packet
                  \/ packet = Last(handed).packet /\ place = length)'
        BY <1>5, <2>1, <3>2
      <3>4. (InOrder(Stream) /\ UpTo(Stream, LastSent))'
        BY <3>1
      <3> QED
        BY <3>3, <3>4 DEF OrderInv
    <2> QED
      BY <2>2, <2>3, <2>4
  <1>8. HandInv'
    BY <1>4, <1>6, <1>7 DEF HandInv, Hopeless
  <1> QED
    BY <1>3, <1>4, <1>7, <1>8

-----------------------------------------------------------------------------
(* The client sends a byte.                                                *)
LEMMA SendStream ==
  ASSUME UartConstants, TypeInv, NEW n \in Lengths, ClientSends(n)
  PROVE  /\ Stream' = Append(Stream, LastSent')
         /\ uart_buffer_length' = uart_buffer_length /\ input' = input
         /\ events' = events /\ receiving' = receiving
         /\ handed' = handed /\ before' = before /\ unnoticed' = unnoticed
         /\ (Certain' <=> Certain) /\ (Clean' <=> Clean)
  <1>1. /\ UNCHANGED <<uart_buffer, uart_buffer_pos, uart_buffer_length>>
        /\ UNCHANGED <<input, events, receiving, handed, before, unnoticed>>
    BY DEF ClientSends, ring, history
  <1>2. Ring' = Ring
    BY <1>1, RingStays
  <1>3. fifo' = Append(fifo, LastSent') /\ LastSent' \in Bytes
    BY SentNext
  <1>. DEFINE r == Ring  x == LastSent'
  <1>4. r \in Seq(Bytes) /\ input \in Seq(Bytes) /\ fifo \in Seq(Bytes) /\ x \in Bytes
    BY <1>3 DEF TypeInv
  <1>5. Stream' = r \o input \o Append(fifo, x)
    BY <1>1, <1>2, <1>3 DEF Stream
  <1>. HIDE DEF r, x
  <1>6. r \o input \o Append(fifo, x) = Append(r \o input \o fifo, x)
    BY <1>4, AppendJoins
  <1>7. Stream' = Append(Stream, LastSent')
    BY <1>5, <1>6 DEF Stream, r, x
  <1> QED
    BY <1>1, <1>7 DEF Certain, Clean, Hopeless

LEMMA StepSends ==
  ASSUME UartConstants, UartInv, NEW n \in Lengths, ClientSends(n)
  PROVE  MarkInv' /\ HandInv' /\ (Certain' => OrderInv' /\ GapInv')
  <1>. DEFINE s == Stream  x == LastSent'  last == LastSent  N == Len(s)
  <1>1. TypeInv /\ MarkInv /\ HandInv /\ (Certain => OrderInv /\ GapInv)
    BY DEF UartInv
  <1>2. /\ Stream' = Append(s, x)
        /\ uart_buffer_length' = uart_buffer_length /\ input' = input
        /\ events' = events /\ receiving' = receiving
        /\ handed' = handed /\ before' = before /\ unnoticed' = unnoticed
        /\ (Certain' <=> Certain) /\ (Clean' <=> Clean)
    BY <1>1, SendStream
  <1>3. /\ Follows(last, x) /\ x \in Bytes
        /\ fifo' = Append(fifo, x)
        /\ packet' \in Nat
        /\ \/ packet' = packet /\ place < length
           \/ packet' = packet + 1 /\ place = length
    BY <1>1, SentNext
  <1>4. /\ s \in Seq(Bytes) /\ fifo \in Seq(Bytes) /\ packet \in Nat
        /\ length \in Nat /\ place \in Nat
        /\ Len(s) = uart_buffer_length + Len(input) + Len(fifo)
        /\ uart_buffer_length \in Nat /\ Len(input) \in Nat /\ Len(fifo) \in Nat
    BY <1>1, StreamIs, Sizes DEF TypeInv, TypeOK
  <1>5. Stream' \in Seq(Bytes) /\ Len(Stream') = N + 1 /\ Len(fifo') = Len(fifo) + 1
    <2>1. /\ Append(s, x) \in Seq(Bytes) /\ Len(Append(s, x)) = N + 1
          /\ Len(Append(fifo, x)) = Len(fifo) + 1
      BY <1>3, <1>4, AppendProperties
    <2> QED
      BY <1>2, <1>3, <2>1
  <1>. HIDE DEF s, x, last
  <1>6. /\ InOrder(s) /\ UpTo(s, last) => InOrder(Append(s, x)) /\ UpTo(Append(s, x), x)
        /\ Gapless(s, N) /\ EndsWith(s, last) => Gapless(Append(s, x), N + 1)
        /\ \A k \in 0..N : Gapless(s, k) => Gapless(Append(s, x), k)
        /\ EndsWith(Append(s, x), x)
        /\ \A p : Beyond(s, p) /\ x.packet > p => Beyond(Append(s, x), p)
    BY <1>3, <1>4, Extended
  <1>7. /\ Gapless(fifo, Len(fifo)) /\ EndsWith(fifo, last) =>
               Gapless(Append(fifo, x), Len(fifo) + 1)
        /\ EndsWith(Append(fifo, x), x)
    BY <1>3, <1>4, Extended
  <1>8. MarkInv'
    <2> SUFFICES ASSUME receiving' # "reset"
                 PROVE  (\E m \in [0..Len(events) -> 0..Len(input)] :
                           /\ Marks(m, events)
                           /\ Certain => \A k \in 0..Len(events) :
                                CleanTo(k) => Gapless(Stream, uart_buffer_length + m[k]))'
      BY DEF MarkInv
    <2>1. PICK m \in [0..Len(events) -> 0..Len(input)] :
              /\ Marks(m, events)
              /\ Certain => \A k \in 0..Len(events) :
                                CleanTo(k) => Gapless(s, uart_buffer_length + m[k])
      BY <1>1, <1>2 DEF MarkInv, s
    <2>2. ASSUME Certain, NEW k \in 0..Len(events), CleanTo(k)
          PROVE  Gapless(Append(s, x), uart_buffer_length + m[k])
      <3>1. m[k] \in 0..Len(input)
        BY <2>1
      <3>2. uart_buffer_length + m[k] \in 0..N
        BY <1>4, <3>1
      <3>3. Gapless(s, uart_buffer_length + m[k])
        BY <2>1, <2>2
      <3> QED
        BY <1>6, <3>2, <3>3
    <2>3. Marks(m, events)' /\ \A k : CleanTo(k)' <=> CleanTo(k)
      BY <1>2, <2>1 DEF Marks, CleanTo
    <2>4. (Certain => \A k \in 0..Len(events) :
                         CleanTo(k) => Gapless(Stream, uart_buffer_length + m[k]))'
      BY <1>2, <2>2, <2>3
    <2>5. m \in [0..Len(events') -> 0..Len(input')]
      BY <1>2, <2>1
    <2> QED
      BY <2>3, <2>4, <2>5
  <1>9. HandInv'
    <2>1. packet' >= packet
      BY <1>3, <1>4
    <2> QED
      BY <1>1, <1>2, <1>3, <2>1, HandStays
  <1>10. ASSUME Certain PROVE GapInv'
    <2>1. Gapless(fifo, Len(fifo)) /\ EndsWith(fifo, last)
      BY <1>1, <1>10 DEF GapInv, last
    <2>2. (Gapless(fifo, Len(fifo)) /\ EndsWith(fifo, LastSent))'
      BY <1>3, <1>5, <1>7, <2>1 DEF x
    <2>3. ASSUME Clean PROVE Gapless(Stream', Len(Stream')) /\ EndsWith(Stream', LastSent')
      <3>1. Gapless(s, N) /\ EndsWith(s, last)
        BY <1>1, <1>10, <2>3 DEF GapInv, last, s
      <3> QED
        BY <1>2, <1>5, <1>6, <3>1 DEF x
    <2>4. (Clean => Gapless(Stream, Len(Stream)) /\ EndsWith(Stream, LastSent))'
      BY <1>2, <2>3
    <2> QED
      BY <2>2, <2>4 DEF GapInv
  <1>11. ASSUME Certain PROVE OrderInv'
    <2>1. InOrder(s) /\ UpTo(s, last)
      BY <1>1, <1>11 DEF OrderInv, s, last
    <2>2. (InOrder(Stream) /\ UpTo(Stream, LastSent))'
      BY <1>2, <1>6, <2>1 DEF x
    <2>3. ASSUME handed # <<>>
          PROVE  /\ Beyond(Stream', Last(handed).packet)
                 /\ packet' > Last(handed).packet
      <3>. DEFINE p == Last(handed).packet
      <3>1. /\ Beyond(s, p)
            /\ packet > p \/ (packet = p /\ place = length)
        BY <1>1, <1>11, <2>3 DEF OrderInv, s
      <3>2. p \in Nat
        <4>1. handed \in Seq(ByteType)
          BY <1>1 DEF TypeInv, TypeOK
        <4>2. Len(handed) \in 1..Len(handed)
          BY <2>3, <4>1, EmptySeq
        <4>3. handed[Len(handed)] \in ByteType
          BY <4>1, <4>2, ElementOfSeq
        <4> QED
          BY <4>3 DEF Last, ByteType
      <3>. HIDE DEF p
      <3>3. packet' > p
        BY <1>3, <1>4, <3>1, <3>2
      <3>4. x.packet = packet'
        BY DEF x, LastSent, Byte
      <3> QED
        BY <1>2, <1>6, <3>1, <3>3, <3>4 DEF p
    <2>4. (handed # <<>> =>
             /\ Beyond(Stream, Last(handed).packet)
             /\ \/ packet > Last(handed).packet
                \/ packet = Last(handed).packet /\ place = length)'
      BY <1>2, <2>3
    <2> QED
      BY <2>2, <2>4 DEF OrderInv
  <1> QED
    BY <1>2, <1>8, <1>9, <1>10, <1>11

-----------------------------------------------------------------------------
(* An event more, an event less.                                           *)
Marked(m, n, x) == [k \in 0..(n + 1) |-> IF k <= n THEN m[k] ELSE m[n] + x]

LEMMA MarkAppended ==
  ASSUME NEW e \in Seq(Nat), NEW x \in Nat, NEW b \in Nat, NEW c \in Nat,
         NEW m, m \in [0..Len(e) -> 0..b], Marks(m, e), m[Len(e)] + x <= c, b <= c
  PROVE  /\ Marked(m, Len(e), x) \in [0..(Len(e) + 1) -> 0..c]
         /\ Marks(Marked(m, Len(e), x), Append(e, x))
         /\ \A k \in 0..Len(e) : Marked(m, Len(e), x)[k] = m[k]
         /\ Marked(m, Len(e), x)[Len(e) + 1] = m[Len(e)] + x
  <1>. DEFINE N == Len(e)  f == Append(e, x)
              z == Marked(m, N, x)
  <1>1. N \in Nat /\ \A i \in 1..N : e[i] \in Nat
    BY LenProperties, ElementOfSeq
  <1>2. Len(f) = N + 1 /\ (\A i \in 1..N : f[i] = e[i]) /\ f[N + 1] = x
    BY AppendProperties
  <1>3. /\ m[0] = 0
        /\ \A k \in 1..N : m[k] = m[k - 1] + e[k]
        /\ \A j, k \in 0..N : j <= k => m[j] <= m[k]
    BY DEF Marks
  <1>4. \A k \in 0..N : m[k] \in 0..b /\ m[k] \in Nat
    <2>1. \A k \in 0..N : m[k] \in 0..b
      OBVIOUS
    <2>2. 0..b \subseteq Nat
      OBVIOUS
    <2> QED
      BY <2>1, <2>2
  <1>5. N \in 0..N /\ m[N] \in Nat /\ m[N] + x \in 0..c
    BY <1>1, <1>4
  <1>. HIDE DEF N, f
  <1>6. ASSUME NEW k \in 0..N PROVE z[k] = m[k]
    <2>1. k \in 0..(N + 1) /\ k <= N
      BY <1>1
    <2> QED
      BY <2>1 DEF Marked
  <1>7. z[N + 1] = m[N] + x
    BY <1>1 DEF Marked
  <1>8. z \in [0..(N + 1) -> 0..c]
    <2> SUFFICES ASSUME NEW k \in 0..(N + 1)
                 PROVE  (IF k <= N THEN m[k] ELSE m[N] + x) \in 0..c
      BY DEF Marked
    <2>1. CASE k <= N
      <3>1. k \in 0..N
        BY <1>1, <2>1
      <3> QED
        BY <1>4, <2>1, <3>1
    <2>2. CASE ~(k <= N)
      BY <1>5, <2>2
    <2> QED
      BY <2>1, <2>2
  <1>. HIDE DEF z
  <1>9. Marks(z, f)
    <2>1. z[0] = 0
      BY <1>1, <1>3, <1>6
    <2>2. ASSUME NEW k \in 1..(N + 1) PROVE z[k] = z[k - 1] + f[k]
      <3>1. CASE k \in 1..N
        <4>1. k \in 0..N /\ k - 1 \in 0..N
          BY <1>1, <3>1
        <4> QED
          BY <1>2, <1>3, <1>6, <3>1, <4>1
      <3>2. CASE k = N + 1
        <4>1. k - 1 = N
          BY <1>1, <3>2
        <4> QED
          BY <1>2, <1>5, <1>6, <1>7, <3>2, <4>1
      <3> QED
        BY <1>1, <3>1, <3>2
    <2>3. ASSUME NEW j \in 0..(N + 1), NEW k \in 0..(N + 1), j <= k PROVE z[j] <= z[k]
      <3>1. CASE k \in 0..N
        <4>1. j \in 0..N
          BY <1>1, <2>3, <3>1
        <4> QED
          BY <1>3, <1>6, <2>3, <3>1, <4>1
      <3>2. CASE k = N + 1 /\ j \in 0..N
        <4>1. m[j] <= m[N] /\ m[j] \in Nat /\ m[N] \in Nat
          BY <1>1, <1>3, <1>4, <1>5, <3>2
        <4>2. m[j] <= m[N] + x
          BY <4>1
        <4> QED
          BY <1>6, <1>7, <3>2, <4>2
      <3>3. CASE k = N + 1 /\ j = N + 1
        BY <1>5, <1>7, <3>3
      <3> QED
        BY <1>1, <3>1, <3>2, <3>3
    <2> QED
      BY <1>2, <2>1, <2>2, <2>3 DEF Marks
  <1> QED
    BY <1>6, <1>7, <1>8, <1>9 DEF N, f, z

(* f is e without its first element.                                       *)
RestOf(f, e) ==
    /\ Len(e) \in Nat \ {0} /\ Len(f) = Len(e) - 1
    /\ \A k \in 1..(Len(e) - 1) : f[k] = e[k + 1]

Left(m, n, h) == [k \in 0..(n - 1) |-> m[k + 1] - h]

LEMMA MarkTaken ==
  ASSUME NEW e \in Seq(Nat), NEW f \in Seq(Nat), NEW b \in Nat,
         RestOf(f, e),
         NEW m, m \in [0..Len(e) -> 0..b], Marks(m, e)
  PROVE  /\ Left(m, Len(e), e[1]) \in [0..(Len(e) - 1) -> 0..(b - e[1])]
         /\ Marks(Left(m, Len(e), e[1]), f)
  <1>. DEFINE N == Len(e)  h == e[1]
              z == Left(m, N, h)
  <1>1. N \in Nat /\ N >= 1 /\ \A i \in 1..N : e[i] \in Nat
    BY ElementOfSeq DEF RestOf
  <1>2. h \in Nat
    BY <1>1
  <1>3. /\ m[0] = 0
        /\ \A k \in 1..N : m[k] = m[k - 1] + e[k]
        /\ \A j, k \in 0..N : j <= k => m[j] <= m[k]
    BY DEF Marks
  <1>4. \A k \in 0..N : m[k] \in 0..b /\ m[k] \in Nat
    <2>1. \A k \in 0..N : m[k] \in 0..b
      OBVIOUS
    <2>2. 0..b \subseteq Nat
      OBVIOUS
    <2> QED
      BY <2>1, <2>2
  <1>5. m[1] = h
    <2>1. 1 \in 1..N /\ 1 - 1 = 0
      BY <1>1
    <2>2. m[1] = 0 + e[1]
      BY <1>3, <2>1
    <2> QED
      BY <1>2, <2>2
  <1>. HIDE DEF N, h
  <1>11. Len(f) = N - 1 /\ \A k \in 1..(N - 1) : f[k] = e[k + 1]
    BY DEF N, RestOf
  <1>6. \A k \in 0..(N - 1) : z[k] = m[k + 1] - h
    BY DEF Left
  <1>7. ASSUME NEW k \in 0..(N - 1)
        PROVE  k + 1 \in 0..N /\ k + 1 \in 1..N /\ m[k + 1] \in 0..b /\ m[k + 1] >= h
    <2>1. k + 1 \in 0..N /\ k + 1 \in 1..N /\ 1 \in 0..N /\ 1 <= k + 1
      BY <1>1
    <2>2. m[1] <= m[k + 1]
      BY <1>3, <2>1
    <2>3. m[k + 1] \in 0..b
      BY <1>4, <2>1
    <2>4. m[k + 1] >= h
      BY <1>2, <1>5, <2>2, <2>3
    <2> QED
      BY <2>1, <2>3, <2>4
  <1>8. z \in [0..(N - 1) -> 0..(b - h)]
    <2> SUFFICES ASSUME NEW k \in 0..(N - 1) PROVE m[k + 1] - h \in 0..(b - h)
      BY DEF Left
    <2>1. m[k + 1] \in 0..b /\ m[k + 1] >= h
      BY <1>7
    <2>. DEFINE y == m[k + 1]
    <2>. HIDE DEF y
    <2>2. y \in 0..b /\ y >= h
      BY <2>1 DEF y
    <2>3. y - h \in 0..(b - h)
      BY <1>2, <2>2
    <2> QED
      BY <2>3 DEF y
  <1>. HIDE DEF z
  <1>9. Marks(z, f)
    <2>1. z[0] = 0
      <3>1. 0 \in 0..(N - 1) /\ 0 + 1 = 1
        BY <1>1
      <3>2. z[0] = m[1] - h
        BY <1>6, <3>1
      <3> QED
        BY <1>2, <1>5, <3>2
    <2>2. ASSUME NEW k \in 1..(N - 1) PROVE z[k] = z[k - 1] + f[k]
      <3>1. k \in 0..(N - 1) /\ k - 1 \in 0..(N - 1) /\ (k - 1) + 1 = k /\ (k + 1) - 1 = k
            /\ k + 1 \in 1..N /\ k \in 0..N
        BY <1>1
      <3>2. z[k] = m[k + 1] - h /\ z[k - 1] = m[k] - h
        BY <1>6, <3>1
      <3>3. m[k + 1] = m[k] + e[k + 1]
        BY <1>3, <3>1
      <3>4. f[k] = e[k + 1] /\ e[k + 1] \in Nat /\ m[k] \in Nat
        BY <1>1, <1>4, <1>11, <3>1
      <3> QED
        BY <1>2, <3>2, <3>3, <3>4
    <2>3. ASSUME NEW j \in 0..(N - 1), NEW k \in 0..(N - 1), j <= k PROVE z[j] <= z[k]
      <3>1. j + 1 \in 0..N /\ k + 1 \in 0..N /\ j + 1 <= k + 1
        BY <1>1, <2>3
      <3>2. m[j + 1] <= m[k + 1] /\ m[j + 1] \in Nat /\ m[k + 1] \in Nat
        BY <1>3, <1>4, <3>1
      <3>3. m[j + 1] - h <= m[k + 1] - h
        BY <1>2, <3>2
      <3> QED
        BY <1>6, <3>3
    <2> QED
      BY <1>11, <2>1, <2>2, <2>3 DEF Marks
  <1> QED
    BY <1>8, <1>9 DEF N, h, z

-----------------------------------------------------------------------------
(* The driver stores what came, or loses it.                               *)
LEMMA Cuts ==
  ASSUME UartConstants, TypeInv
  PROVE  /\ Ring \o input \in Seq(Bytes)
         /\ Len(Ring \o input) = uart_buffer_length + Len(input)
         /\ \A i \in 1..(uart_buffer_length + Len(input)) : (Ring \o input)[i] = Stream[i]
  <1>. DEFINE r == Ring  t == r \o input  s == t \o fifo  L == uart_buffer_length
  <1>1. /\ r \in Seq(Bytes) /\ input \in Seq(Bytes) /\ fifo \in Seq(Bytes) /\ Len(r) = L
        /\ L \in Nat /\ Len(input) \in Nat /\ Len(fifo) \in Nat
    BY Sizes DEF TypeInv
  <1>. HIDE DEF r
  <1>2. t \in Seq(Bytes) /\ Len(t) = Len(r) + Len(input)
    <2>1. r \in Seq(Bytes) /\ input \in Seq(Bytes)
      BY <1>1
    <2> QED
      BY <2>1, ConcatProperties
  <1>. HIDE DEF t
  <1>3. \A i \in 1..(Len(t) + Len(fifo)) : s[i] = IF i <= Len(t) THEN t[i] ELSE fifo[i - Len(t)]
    <2>1. t \in Seq(Bytes) /\ fifo \in Seq(Bytes)
      BY <1>1, <1>2
    <2> QED
      BY <2>1, ConcatProperties
  <1>. HIDE DEF s
  <1>4. Len(t) = L + Len(input)
    BY <1>1, <1>2
  <1>5. ASSUME NEW i \in 1..(L + Len(input)) PROVE t[i] = s[i]
    <2>1. i \in 1..(Len(t) + Len(fifo)) /\ i <= Len(t)
      BY <1>1, <1>4
    <2> QED
      BY <1>3, <2>1
  <1> QED
    BY <1>2, <1>4, <1>5 DEF Stream, r, s, t

LEMMA StepStores ==
  ASSUME UartConstants, UartInv, DriverStores
  PROVE  MarkInv' /\ HandInv' /\ (Certain' => OrderInv' /\ GapInv')
  <1>. DEFINE L == uart_buffer_length  N == Len(events)  s == Stream
  <1>1. TypeInv /\ MarkInv /\ HandInv /\ (Certain => OrderInv /\ GapInv)
    BY DEF UartInv
  <1>2. /\ UNCHANGED <<uart_buffer, uart_buffer_pos, uart_buffer_length>>
        /\ UNCHANGED <<receiving, handed, before, unnoticed, packet, place, length>>
        /\ fifo # <<>> /\ fifo' = <<>>
    BY DEF DriverStores, ring, history, client
  <1>3. Ring' = Ring /\ LastSent' = LastSent /\ (Certain' <=> Certain)
    BY <1>2, RingStays DEF LastSent, Byte, Certain, Hopeless
  <1>4. /\ Ring \in Seq(Bytes) /\ input \in Seq(Bytes) /\ fifo \in Seq(Bytes)
        /\ events \in Seq(Nat) /\ packet \in Nat
        /\ s \in Seq(Bytes) /\ Len(s) = L + Len(input) + Len(fifo)
        /\ L \in Nat /\ Len(input) \in Nat /\ Len(fifo) \in Nat /\ N \in Nat
    BY <1>1, StreamIs, Sizes DEF TypeInv, TypeOK
  <1>5. Len(fifo) > 0
    BY <1>2, <1>4, EmptySeq
  <1>6. HandInv'
    <2>1. packet' \in Nat /\ packet' >= packet
      BY <1>2, <1>4
    <2> QED
      BY <1>1, <1>2, <2>1, HandStays
  <1>7. Gapless(fifo', Len(fifo')) /\ EndsWith(fifo', LastSent')
    <2>1. Len(fifo') = 0
      BY <1>2
    <2> QED
      BY <1>2, <2>1 DEF Gapless, EndsWith
  \* The stream is s up to some point.
  <1>8. ASSUME NEW c \in Nat, c <= Len(s), Stream' \in Seq(Bytes), Len(Stream') = c,
               \A i \in 1..c : Stream'[i] = s[i], Certain
        PROVE  OrderInv'
    <2>. DEFINE t == Stream'  p == Last(handed).packet
    <2>1. InOrder(s) /\ UpTo(s, LastSent) /\ (handed # <<>> => Beyond(s, p))
      BY <1>1, <1>8 DEF OrderInv
    <2>. HIDE DEF s, p
    <2>2. t \in Seq(Bytes) /\ Len(t) = c /\ \A i \in 1..c : t[i] = s[i]
      BY <1>8
    <2>. HIDE DEF t
    <2>3. 0 \in Nat /\ Len(t) + 0 <= Len(s) /\ \A i \in 1..Len(t) : t[i] = s[i + 0]
      BY <1>8, <2>2
    <2>4. InOrder(t) /\ UpTo(t, LastSent) /\ (handed # <<>> => Beyond(t, p))
      BY <1>4, <2>1, <2>2, <2>3, OrderShifts
    <2>5. (InOrder(Stream) /\ UpTo(Stream, LastSent))'
      BY <1>3, <2>4 DEF t
    <2>6. (handed # <<>> =>
             /\ Beyond(Stream, Last(handed).packet)
             /\ \/ packet > Last(handed).packet
                \/ packet = Last(handed).packet /\ place = length)'
      BY <1>1, <1>2, <1>8, <2>4 DEF OrderInv, t, p
    <2> QED
      BY <2>5, <2>6 DEF OrderInv
  \* A gapless part of s stays one.
  <1>9. ASSUME NEW c \in Nat, \A i \in 1..c : Stream'[i] = s[i],
               NEW k \in 0..c, Gapless(s, k)
        PROVE  Gapless(Stream', k)
    <2>. DEFINE t == Stream'
    <2>1. \A i \in 1..c : t[i] = s[i]
      BY <1>9
    <2>. HIDE DEF s, t
    <2>2. k \in Nat /\ 0 \in Nat /\ k + 0 <= k /\ \A i \in 1..k : t[i] = s[i + 0]
      BY <1>9, <2>1
    <2>3. Gapless(t, k)
      BY <1>9, <2>2, GaplessShifts
    <2> QED
      BY <2>3 DEF t
  <1>10. CASE input' = input \o fifo /\ events' = Append(events, Len(fifo))
    <2>1. Stream' = s
      <3>1. Stream' = Ring \o (input \o fifo) \o <<>>
        BY <1>2, <1>3, <1>10 DEF Stream
      <3>. DEFINE r == Ring
      <3>2. r \in Seq(Bytes) /\ input \in Seq(Bytes) /\ fifo \in Seq(Bytes)
        BY <1>4
      <3>. HIDE DEF r
      <3>3. r \o (input \o fifo) \o <<>> = r \o input \o fifo
        BY <3>2, Moved
      <3> QED
        BY <3>1, <3>3 DEF r, Stream
    <2>2. Len(input') = Len(input) + Len(fifo)
      <3>1. Len(input \o fifo) = Len(input) + Len(fifo)
        BY <1>4, ConcatProperties
      <3> QED
        BY <1>10, <3>1
    <2>3. /\ Len(events') = N + 1
          /\ \A i \in 1..N : events'[i] = events[i]
          /\ events'[N + 1] = Len(fifo)
      <3>1. LET f == Append(events, Len(fifo))
            IN  /\ Len(f) = N + 1 /\ (\A i \in 1..N : f[i] = events[i])
                /\ f[N + 1] = Len(fifo)
        BY <1>4, AppendProperties
      <3> QED
        BY <1>10, <3>1
    <2>4. ASSUME Clean' PROVE Clean
      BY <1>4, <2>3, <2>4 DEF Clean
    <2>5. ASSUME Certain PROVE GapInv' /\ OrderInv'
      <3>1. OrderInv'
        <4>1. Len(s) \in Nat /\ Len(s) <= Len(s)
          BY <1>4
        <4> QED
          BY <1>4, <1>8, <2>1, <2>5, <4>1
      <3>2. (Clean => Gapless(Stream, Len(Stream)) /\ EndsWith(Stream, LastSent))'
        BY <1>1, <1>3, <2>1, <2>4, <2>5 DEF GapInv
      <3>3. (Gapless(fifo, Len(fifo)) /\ EndsWith(fifo, LastSent))'
        BY <1>7
      <3> QED
        BY <3>1, <3>2, <3>3 DEF GapInv
    <2>6. MarkInv'
      <3> SUFFICES ASSUME receiving' # "reset"
                   PROVE  (\E m \in [0..Len(events) -> 0..Len(input)] :
                             /\ Marks(m, events)
                             /\ Certain => \A k \in 0..Len(events) :
                                  CleanTo(k) => Gapless(Stream, uart_buffer_length + m[k]))'
        BY DEF MarkInv
      <3>1. PICK m \in [0..N -> 0..Len(input)] :
                /\ Marks(m, events)
                /\ Certain => \A k \in 0..N :
                                  CleanTo(k) => Gapless(s, L + m[k])
        BY <1>1, <1>2 DEF MarkInv
      <3>2. N \in 0..N /\ m[N] \in 0..Len(input)
        <4>1. N \in 0..N
          BY <1>4
        <4>2. m \in [0..N -> 0..Len(input)]
          BY <3>1
        <4>. HIDE DEF N
        <4> QED
          BY <4>1, <4>2
      <3>3. m[N] + Len(fifo) <= Len(input) + Len(fifo) /\ Len(input) <= Len(input) + Len(fifo)
            /\ Len(input) + Len(fifo) \in Nat
        BY <1>4, <3>2
      <3>4. PICK z \in [0..(N + 1) -> 0..(Len(input) + Len(fifo))] :
                /\ Marks(z, Append(events, Len(fifo)))
                /\ \A k \in 0..N : z[k] = m[k]
                /\ z[N + 1] = m[N] + Len(fifo)
        <4>. DEFINE x == Len(fifo)  b == Len(input)  c == Len(input) + Len(fifo)
        <4>1. /\ events \in Seq(Nat) /\ x \in Nat /\ b \in Nat /\ c \in Nat
              /\ m \in [0..Len(events) -> 0..b] /\ Marks(m, events)
              /\ m[Len(events)] + x <= c /\ b <= c
          BY <1>4, <3>1, <3>3
        <4>. HIDE DEF x, b, c
        <4>. DEFINE z == Marked(m, Len(events), x)
        <4>2. /\ z \in [0..(Len(events) + 1) -> 0..c]
              /\ Marks(z, Append(events, x))
              /\ \A k \in 0..Len(events) : z[k] = m[k]
              /\ z[Len(events) + 1] = m[Len(events)] + x
          BY <4>1, MarkAppended
        <4>. HIDE DEF z
        <4> QED
          BY <4>2 DEF x, c
      <3>5. ASSUME Certain, NEW k \in 0..(N + 1), CleanTo(k)' PROVE Gapless(s, L + z[k])
        <4>1. CASE k \in 0..N
          <5>1. \A j \in 1..k : j \in 1..N
            BY <1>4, <4>1
          <5>2. CleanTo(k)
            BY <2>3, <3>5, <5>1 DEF CleanTo
          <5> QED
            BY <3>1, <3>4, <3>5, <4>1, <5>2
        <4>2. CASE k = N + 1
          <5>1. \A j \in 1..N : j \in 1..k
            BY <1>4, <4>2
          <5>2. Clean
            BY <2>3, <3>5, <5>1 DEF CleanTo, Clean
          <5>3. Gapless(s, Len(s))
            BY <1>1, <3>5, <5>2 DEF GapInv
          <5>4. L + z[k] \in Nat /\ L + z[k] <= Len(s)
            BY <1>4, <3>2, <3>4, <4>2
          <5> QED
            BY <1>4, <5>3, <5>4, GaplessPrefix
        <4> QED
          BY <1>4, <4>1, <4>2
      <3>6. Marks(z, events') /\ z \in [0..Len(events') -> 0..Len(input')]
        BY <1>10, <2>2, <2>3, <3>4
      <3>7. (Certain => \A k \in 0..Len(events) :
                           CleanTo(k) => Gapless(Stream, uart_buffer_length + z[k]))'
        BY <1>2, <1>3, <2>1, <2>3, <3>5
      <3> QED
        BY <3>6, <3>7
    <2> QED
      BY <1>3, <1>6, <2>5, <2>6
  <1>11. CASE input' = input /\ events' = Append(events, Overflow)
    <2>. DEFINE c == L + Len(input)
    <2>1. /\ Stream' \in Seq(Bytes) /\ Len(Stream') = c
          /\ \A i \in 1..c : Stream'[i] = s[i]
      <3>. DEFINE t == Ring \o input
      <3>1. t \in Seq(Bytes) /\ Len(t) = c /\ \A i \in 1..c : t[i] = s[i]
        BY <1>1, Cuts
      <3>2. Stream' = t \o <<>>
        BY <1>2, <1>3, <1>11 DEF Stream
      <3>. HIDE DEF t
      <3>3. t \o <<>> = t
        BY <3>1, ConcatEmptySeq
      <3> QED
        BY <3>1, <3>2, <3>3
    <2>2. c \in Nat /\ c <= Len(s)
      BY <1>4
    <2>3. /\ Len(events') = N + 1
          /\ \A i \in 1..N : events'[i] = events[i]
          /\ events'[N + 1] = Overflow
      <3>1. Overflow \in Nat
        BY DEF Overflow
      <3>2. LET f == Append(events, Overflow)
            IN  /\ Len(f) = N + 1 /\ (\A i \in 1..N : f[i] = events[i])
                /\ f[N + 1] = Overflow
        BY <1>4, <3>1, AppendProperties
      <3> QED
        BY <1>11, <3>2
    <2>4. ~Clean'
      <3>1. N + 1 \in 1..(N + 1)
        BY <1>4
      <3> QED
        BY <2>3, <3>1 DEF Clean
    <2>5. ASSUME Certain PROVE GapInv' /\ OrderInv'
      <3>1. OrderInv'
        BY <1>8, <2>1, <2>2, <2>5
      <3>2. (Clean => Gapless(Stream, Len(Stream)) /\ EndsWith(Stream, LastSent))'
        BY <2>4
      <3>3. (Gapless(fifo, Len(fifo)) /\ EndsWith(fifo, LastSent))'
        BY <1>7
      <3> QED
        BY <3>1, <3>2, <3>3 DEF GapInv
    <2>6. MarkInv'
      <3> SUFFICES ASSUME receiving' # "reset"
                   PROVE  (\E m \in [0..Len(events) -> 0..Len(input)] :
                             /\ Marks(m, events)
                             /\ Certain => \A k \in 0..Len(events) :
                                  CleanTo(k) => Gapless(Stream, uart_buffer_length + m[k]))'
        BY DEF MarkInv
      <3>1. PICK m \in [0..N -> 0..Len(input)] :
                /\ Marks(m, events)
                /\ Certain => \A k \in 0..N :
                                  CleanTo(k) => Gapless(s, L + m[k])
        BY <1>1, <1>2 DEF MarkInv
      <3>2. N \in 0..N /\ m[N] \in 0..Len(input)
        <4>1. N \in 0..N
          BY <1>4
        <4>2. m \in [0..N -> 0..Len(input)]
          BY <3>1
        <4>. HIDE DEF N
        <4> QED
          BY <4>1, <4>2
      <3>3. m[N] + 0 <= Len(input) /\ Len(input) <= Len(input) /\ 0 \in Nat
        BY <1>4, <3>2
      <3>4. PICK z \in [0..(N + 1) -> 0..Len(input)] :
                /\ Marks(z, Append(events, 0))
                /\ \A k \in 0..N : z[k] = m[k]
                /\ z[N + 1] = m[N] + 0
        <4>. DEFINE b == Len(input)
        <4>1. /\ events \in Seq(Nat) /\ 0 \in Nat /\ b \in Nat
              /\ m \in [0..Len(events) -> 0..b] /\ Marks(m, events)
              /\ m[Len(events)] + 0 <= b /\ b <= b
          BY <1>4, <3>1, <3>3
        <4>. HIDE DEF b
        <4>. DEFINE z == Marked(m, Len(events), 0)
        <4>2. /\ z \in [0..(Len(events) + 1) -> 0..b]
              /\ Marks(z, Append(events, 0))
              /\ \A k \in 0..Len(events) : z[k] = m[k]
              /\ z[Len(events) + 1] = m[Len(events)] + 0
          BY <4>1, MarkAppended
        <4>. HIDE DEF z
        <4> QED
          BY <4>2 DEF b
      <3>5. ASSUME Certain, NEW k \in 0..(N + 1), CleanTo(k)' PROVE Gapless(Stream', L + z[k])
        <4>1. CASE k \in 0..N
          <5>1. \A j \in 1..k : j \in 1..N
            BY <1>4, <4>1
          <5>2. CleanTo(k)
            BY <2>3, <3>5, <5>1 DEF CleanTo
          <5>3. Gapless(s, L + z[k])
            BY <3>1, <3>4, <3>5, <4>1, <5>2
          <5>4. z[k] \in 0..Len(input)
            BY <3>4
          <5>5. L + z[k] \in 0..c
            BY <1>4, <5>4
          <5> QED
            BY <1>9, <2>1, <2>2, <5>3, <5>5
        <4>2. CASE k = N + 1
          <5>1. N + 1 \in 1..k
            BY <1>4, <4>2
          <5> QED
            BY <2>3, <3>5, <5>1 DEF CleanTo
        <4> QED
          BY <1>4, <4>1, <4>2
      <3>6. Marks(z, events') /\ z \in [0..Len(events') -> 0..Len(input')]
        BY <1>11, <2>3, <3>4 DEF Overflow
      <3>7. (Certain => \A k \in 0..Len(events) :
                           CleanTo(k) => Gapless(Stream, uart_buffer_length + z[k]))'
        BY <1>2, <1>3, <2>3, <3>5
      <3> QED
        BY <3>6, <3>7
    <2> QED
      BY <1>3, <1>6, <2>5, <2>6
  <1> QED
    BY <1>10, <1>11 DEF DriverStores

-----------------------------------------------------------------------------
(* The task takes an event.                                                *)

\* The events that are left end where they did, h bytes less.
LEMMA MarksLeft ==
  ASSUME UartConstants, TypeInv, MarkInv, TakesEvent,
         NEW m, m \in [0..Len(events) -> 0..Len(input)], Marks(m, events)
  PROVE  \E z \in [0..Len(events') -> 0..(Len(input) - Head(events))] :
            /\ Marks(z, events')
            /\ \A k \in 0..(Len(events) - 1) : z[k] = m[k + 1] - Head(events)
  <1>. DEFINE e == events  f == events'  b == Len(input)  h == Head(events)
  <1>1. /\ Len(e) \in Nat \ {0} /\ h = e[1]
        /\ f \in Seq(0..FifoSize) /\ Len(f) = Len(e) - 1
        /\ \A k \in 1..(Len(e) - 1) : f[k] = e[k + 1]
    BY FirstEvent
  <1>2. e \in Seq(Nat) /\ b \in Nat
    BY Sizes DEF TypeInv, TypeOK
  <1>3. f \in Seq(Nat)
    <2>1. (0..FifoSize) \subseteq Nat
      OBVIOUS
    <2> QED
      BY <1>1, <2>1, SeqMonotonic
  <1>4. m \in [0..Len(e) -> 0..b] /\ Marks(m, e)
    OBVIOUS
  <1>. HIDE DEF e, f, b, h
  <1>. DEFINE z == Left(m, Len(e), e[1])
  <1>7. f \in Seq(Nat) /\ RestOf(f, e)
    BY <1>1, <1>3 DEF RestOf
  <1>5. /\ z \in [0..(Len(e) - 1) -> 0..(b - e[1])]
        /\ Marks(z, f)
    BY <1>2, <1>4, <1>7, MarkTaken, Zenon
  <1>8. \A k \in 0..(Len(e) - 1) : z[k] = m[k + 1] - e[1]
    BY DEF Left
  <1>. HIDE DEF z
  <1>6. /\ z \in [0..Len(f) -> 0..(b - h)]
        /\ Marks(z, f)
        /\ \A k \in 0..(Len(e) - 1) : z[k] = m[k + 1] - h
    BY <1>1, <1>5, <1>8
  <1> QED
    BY <1>6 DEF e, f, b, h

\* If nothing was lost up to an event, nothing is up to the one before it.
LEMMA CleanLeft ==
  ASSUME UartConstants, TypeInv, MarkInv, TakesEvent, Head(events) # Overflow
  PROVE  /\ \A k \in 0..(Len(events) - 1) : CleanTo(k)' => CleanTo(k + 1)
         /\ Clean' => Clean
  <1>1. /\ Len(events) \in Nat \ {0} /\ Head(events) = events[1]
        /\ Len(events') = Len(events) - 1
        /\ \A k \in 1..(Len(events) - 1) : events'[k] = events[k + 1]
    BY FirstEvent
  <1>2. ASSUME NEW k \in 0..(Len(events) - 1), \A j \in 1..k : events'[j] # Overflow,
               NEW j \in 1..(k + 1)
        PROVE  events[j] # Overflow
    <2>1. CASE j = 1
      BY <1>1, <2>1
    <2>2. CASE j # 1
      <3>1. j - 1 \in 1..k /\ j - 1 \in 1..(Len(events) - 1) /\ (j - 1) + 1 = j
        BY <1>1, <2>2
      <3> QED
        BY <1>1, <1>2, <3>1
    <2> QED
      BY <2>1, <2>2
  <1>3. ASSUME NEW k \in 0..(Len(events) - 1), CleanTo(k)' PROVE CleanTo(k + 1)
    <2>1. \A j \in 1..k : events'[j] # Overflow
      BY <1>3 DEF CleanTo
    <2> QED
      BY <1>2, <2>1 DEF CleanTo
  <1>4. ASSUME Clean' PROVE Clean
    <2>. DEFINE k == Len(events) - 1
    <2>1. k \in 0..(Len(events) - 1) /\ k + 1 = Len(events)
      BY <1>1
    <2>2. \A j \in 1..k : events'[j] # Overflow
      BY <1>1, <1>4 DEF Clean
    <2> QED
      BY <1>2, <2>1, <2>2 DEF Clean
  <1> QED
    BY <1>3, <1>4

\* Both ways TakeData can go, if the stream is the same.
LEMMA TakesStream ==
  ASSUME UartConstants, UartInv, TakesEvent, Head(events) # Overflow, Certain,
         Stream' = Stream, UNCHANGED <<fifo, client, handed>>
  PROVE  OrderInv' /\ GapInv'
  <1>1. TypeInv /\ MarkInv /\ OrderInv /\ GapInv
    BY DEF UartInv
  <1>2. LastSent' = LastSent /\ packet' = packet /\ place' = place /\ length' = length
    BY DEF client, LastSent, Byte
  <1>3. OrderInv'
    BY <1>1, <1>2 DEF OrderInv
  <1>4. Clean' => Clean
    BY <1>1, CleanLeft
  <1>5. GapInv'
    BY <1>1, <1>2, <1>4 DEF GapInv
  <1> QED
    BY <1>3, <1>5

LEMMA TakesHand ==
  ASSUME UartConstants, UartInv, UNCHANGED <<client, handed, before, unnoticed>>
  PROVE  HandInv' /\ (Certain' <=> Certain)
  <1>1. TypeInv /\ HandInv /\ packet' = packet /\ packet \in Nat
    BY DEF UartInv, client, TypeInv, TypeOK
  <1>2. packet' \in Nat /\ packet' >= packet
    BY <1>1
  <1>3. HandInv'
    BY <1>1, <1>2, HandStays
  <1> QED
    BY <1>3 DEF Certain, Hopeless

LEMMA StepTakes ==
  ASSUME UartConstants, UartInv, TakeData
  PROVE  MarkInv' /\ HandInv' /\ (Certain' => OrderInv' /\ GapInv')
  <1>. DEFINE L == uart_buffer_length  N == Len(events)  s == Stream  h == Head(events)
  <1>1. /\ TypeInv /\ RoomInv /\ MarkInv /\ HandInv /\ (Certain => OrderInv /\ GapInv)
    BY DEF UartInv
  <1>2. /\ TakesEvent /\ h # Overflow
        /\ UNCHANGED <<fifo, client, handed, before, unnoticed>>
    BY DEF TakeData, history
  <1>3. /\ receiving = "wait" /\ N \in Nat \ {0}
        /\ h = events[1] /\ h \in 0..Len(input)
        /\ Len(events') = N - 1
    BY <1>1, <1>2, FirstEvent
  <1>4. HandInv' /\ (Certain' <=> Certain)
    BY <1>2, TakesHand
  <1>5. /\ input' = Without(input, h) /\ Len(input') = Len(input) - h
        /\ ~Hopeless => Ring' = Ring \o SubSeq(input, 1, h) /\ L' = L + h
    BY <1>1, DataTaken
  <1>6. /\ Ring \in Seq(Bytes) /\ input \in Seq(Bytes) /\ fifo \in Seq(Bytes)
        /\ L \in Nat /\ Len(input) \in Nat
    BY <1>1, Sizes DEF TypeInv
  <1>7. ASSUME ~Hopeless PROVE Stream' = s
    <2>. DEFINE r == Ring
    <2>1. Stream' = (r \o SubSeq(input, 1, h)) \o Without(input, h) \o fifo
      BY <1>2, <1>5, <1>7 DEF Stream
    <2>2. r \in Seq(Bytes) /\ input \in Seq(Bytes) /\ fifo \in Seq(Bytes) /\ h \in 0..Len(input)
      BY <1>3, <1>6
    <2>. DEFINE p == SubSeq(input, 1, h)  q == Without(input, h)
    <2>3. p \in Seq(Bytes) /\ q \in Seq(Bytes) /\ p \o q = input
      BY <2>2, PartsJoin
    <2>. HIDE DEF r, p, q
    <2>6. r \in Seq(Bytes) /\ p \in Seq(Bytes) /\ q \in Seq(Bytes)
      BY <2>2, <2>3
    <2>4. (r \o p) \o q = r \o (p \o q)
      BY <2>6, ConcatAssociative
    <2>5. Stream' = (r \o p) \o q \o fifo
      BY <2>1 DEF p, q
    <2> QED
      BY <2>3, <2>4, <2>5 DEF Stream, r
  <1>8. ASSUME Certain PROVE OrderInv' /\ GapInv'
    <2>1. Stream' = s
      BY <1>7, <1>8 DEF Certain
    <2> QED
      BY <1>2, <1>8, <2>1, TakesStream
  <1>9. MarkInv'
    <2>1. PICK m \in [0..N -> 0..Len(input)] :
              /\ Marks(m, events)
              /\ Certain => \A k \in 0..N : CleanTo(k) => Gapless(s, L + m[k])
      BY <1>1, <1>3 DEF MarkInv
    <2>2. PICK z \in [0..Len(events') -> 0..(Len(input) - h)] :
              /\ Marks(z, events')
              /\ \A k \in 0..(N - 1) : z[k] = m[k + 1] - h
      BY <1>1, <1>2, <2>1, MarksLeft
    <2>3. z \in [0..Len(events') -> 0..Len(input')]
      BY <1>5, <2>2
    <2>4. ASSUME Certain, NEW k \in 0..(N - 1), CleanTo(k)'
          PROVE  Gapless(s, (L + h) + z[k])
      <3>1. k + 1 \in 0..N
        BY <1>3
      <3>2. CleanTo(k + 1)
        BY <1>1, <1>2, <2>4, CleanLeft
      <3>3. Gapless(s, L + m[k + 1])
        BY <2>1, <2>4, <3>1, <3>2
      <3>4. m[k + 1] \in 0..Len(input)
        BY <2>1, <3>1
      <3>5. z[k] = m[k + 1] - h
        BY <2>2
      <3>. DEFINE y == m[k + 1]  x == z[k]
      <3>. HIDE DEF y, x, h, s, L
      <3>6. (L + h) + x = L + y
        BY <1>3, <1>6, <3>4, <3>5 DEF x, y, L
      <3>7. Gapless(s, L + y)
        BY <3>3 DEF y
      <3> QED
        BY <3>6, <3>7 DEF x
    <2>5. ASSUME Certain
          PROVE  \A k \in 0..Len(events') :
                    CleanTo(k)' => Gapless(Stream', uart_buffer_length' + z[k])
      <3>1. Stream' = s /\ uart_buffer_length' = L + h
        BY <1>5, <1>7, <2>5 DEF Certain
      <3> QED
        BY <1>3, <2>4, <2>5, <3>1
    <2>6. (Certain => \A k \in 0..Len(events) :
                         CleanTo(k) => Gapless(Stream, uart_buffer_length + z[k]))'
      BY <1>4, <2>5
    <2> QED
      BY <2>2, <2>3, <2>6 DEF MarkInv
  <1> QED
    BY <1>4, <1>8, <1>9

LEMMA StepTakeFails ==
  ASSUME UartConstants, UartInv, TakeDataFails
  PROVE  MarkInv' /\ HandInv' /\ (Certain' => OrderInv' /\ GapInv')
  <1>. DEFINE L == uart_buffer_length  N == Len(events)  s == Stream  h == Head(events)
  <1>1. TypeInv /\ MarkInv
    BY DEF UartInv
  <1>2. /\ TakesEvent /\ h # Overflow
        /\ UNCHANGED <<fifo, input, client, handed, before, unnoticed>>
        /\ UNCHANGED <<uart_buffer, uart_buffer_pos, uart_buffer_length>>
    BY DEF TakeDataFails, ring, history
  <1>3. /\ receiving = "wait" /\ N \in Nat \ {0}
        /\ h \in 0..Len(input) /\ Len(events') = N - 1
    BY <1>1, <1>2, FirstEvent
  <1>4. HandInv' /\ (Certain' <=> Certain)
    BY <1>2, TakesHand
  <1>5. Stream' = s /\ L' = L
    BY <1>2, RingStays DEF Stream
  <1>6. ASSUME Certain PROVE OrderInv' /\ GapInv'
    BY <1>2, <1>5, <1>6, TakesStream
  <1>7. L \in Nat /\ Len(input) \in Nat
    BY <1>1, Sizes
  <1>8. MarkInv'
    <2>1. PICK m \in [0..N -> 0..Len(input)] :
              /\ Marks(m, events)
              /\ Certain => \A k \in 0..N : CleanTo(k) => Gapless(s, L + m[k])
      BY <1>1, <1>3 DEF MarkInv
    <2>2. PICK z \in [0..Len(events') -> 0..(Len(input) - h)] :
              /\ Marks(z, events')
              /\ \A k \in 0..(N - 1) : z[k] = m[k + 1] - h
      BY <1>1, <1>2, <2>1, MarksLeft
    <2>3. z \in [0..Len(events') -> 0..Len(input')]
      <3>1. 0..(Len(input) - h) \subseteq 0..Len(input)
        BY <1>3, <1>7
      <3>2. z \in [0..Len(events') -> 0..Len(input)]
        BY <2>2, <3>1
      <3> QED
        BY <1>2, <3>2
    <2>4. ASSUME Certain, NEW k \in 0..(N - 1), CleanTo(k)'
          PROVE  Gapless(s, L + z[k])
      <3>1. k + 1 \in 0..N
        BY <1>3
      <3>2. CleanTo(k + 1)
        BY <1>1, <1>2, <2>4, CleanLeft
      <3>3. Gapless(s, L + m[k + 1])
        BY <2>1, <2>4, <3>1, <3>2
      <3>4. m[k + 1] \in 0..Len(input)
        BY <2>1, <3>1
      <3>5. z[k] = m[k + 1] - h
        BY <2>2
      <3>6. z[k] \in 0..(Len(input) - h)
        BY <1>3, <2>2
      <3>. DEFINE y == m[k + 1]  x == z[k]
      <3>. HIDE DEF y, x, h, s, L
      <3>7. L + x \in Nat /\ L + y \in Nat /\ L + x <= L + y
        BY <1>3, <1>7, <3>4, <3>5, <3>6 DEF x, y, L
      <3>8. Gapless(s, L + y)
        BY <3>3 DEF y
      <3>9. Gapless(s, L + x)
        BY <3>7, <3>8, GaplessPrefix
      <3> QED
        BY <3>9 DEF x
    <2>5. (Certain => \A k \in 0..Len(events) :
                         CleanTo(k) => Gapless(Stream, uart_buffer_length + z[k]))'
      BY <1>3, <1>4, <1>5, <2>4
    <2> QED
      BY <2>2, <2>3, <2>5 DEF MarkInv
  <1> QED
    BY <1>4, <1>6, <1>8

LEMMA StepOverflow ==
  ASSUME UartConstants, UartInv, TakeOverflow
  PROVE  MarkInv' /\ HandInv' /\ (Certain' => OrderInv' /\ GapInv')
  <1>. DEFINE L == uart_buffer_length  s == Stream  c == L + Len(input)
  <1>1. TypeInv /\ (Certain => OrderInv /\ GapInv)
    BY DEF UartInv
  <1>2. /\ BufferClear /\ input' = <<>> /\ receiving' = "reset"
        /\ UNCHANGED <<fifo, client, handed, before, unnoticed>>
    BY DEF TakeOverflow
  <1>3. HandInv' /\ (Certain' <=> Certain)
    BY <1>2, TakesHand
  <1>4. MarkInv'
    BY <1>2 DEF MarkInv
  <1>5. LastSent' = LastSent /\ packet' = packet /\ place' = place /\ length' = length
    BY <1>2 DEF client, LastSent, Byte
  <1>6. /\ Ring \in Seq(Bytes) /\ input \in Seq(Bytes) /\ fifo \in Seq(Bytes)
        /\ Len(Ring) = L
        /\ L \in Nat /\ Len(input) \in Nat /\ Len(fifo) \in Nat
    BY <1>1, Sizes DEF TypeInv
  <1>7. Stream' = fifo
    <2>1. Stream' = <<>> \o <<>> \o fifo
      BY <1>2, RingClears DEF Stream
    <2> QED
      BY <1>6, <2>1, Cut
  \* What the hardware has is the end of the stream.
  <1>8. /\ s \in Seq(Bytes) /\ c \in Nat /\ Len(fifo) + c <= Len(s)
        /\ \A i \in 1..Len(fifo) : fifo[i] = s[i + c]
    <2>. DEFINE r == Ring  t == r \o input \o fifo
    <2>1. r \in Seq(Bytes) /\ input \in Seq(Bytes) /\ fifo \in Seq(Bytes)
      BY <1>6
    <2>5. Len(r) = L
      BY <1>6
    <2>. HIDE DEF r
    <2>2. /\ t \in Seq(Bytes)
          /\ Len(t) = Len(r) + Len(input) + Len(fifo)
          /\ \A i \in 1..(Len(r) + Len(input) + Len(fifo)) :
                t[i] = IF i <= Len(r) THEN r[i]
                       ELSE IF i <= Len(r) + Len(input) THEN input[i - Len(r)]
                       ELSE fifo[i - (Len(r) + Len(input))]
      BY <2>1, JoinIs
    <2>. HIDE DEF t
    <2>3. c \in Nat /\ Len(fifo) + c <= Len(t)
      BY <1>6, <2>5, <2>2
    <2>4. ASSUME NEW i \in 1..Len(fifo) PROVE fifo[i] = t[i + c]
      <3>1. /\ i + c \in 1..(Len(r) + Len(input) + Len(fifo))
            /\ ~(i + c <= Len(r)) /\ ~(i + c <= Len(r) + Len(input))
            /\ (i + c) - (Len(r) + Len(input)) = i
        BY <1>6, <2>5
      <3> QED
        BY <2>2, <3>1
    <2> QED
      BY <2>2, <2>3, <2>4 DEF Stream, r, t
  <1>9. ASSUME Certain PROVE OrderInv'
    <2>. DEFINE p == Last(handed).packet
    <2>1. /\ InOrder(s) /\ UpTo(s, LastSent)
          /\ handed # <<>> => Beyond(s, p)
      BY <1>1, <1>9 DEF OrderInv
    <2>. HIDE DEF s, p, c
    <2>2. InOrder(fifo) /\ UpTo(fifo, LastSent) /\ (handed # <<>> => Beyond(fifo, p))
      BY <1>6, <1>8, <2>1, OrderShifts
    <2>3. (InOrder(Stream) /\ UpTo(Stream, LastSent))'
      BY <1>5, <1>7, <2>2
    <2>4. (handed # <<>> =>
             /\ Beyond(Stream, Last(handed).packet)
             /\ \/ packet > Last(handed).packet
                \/ packet = Last(handed).packet /\ place = length)'
      BY <1>1, <1>2, <1>5, <1>7, <1>9, <2>2 DEF OrderInv, p
    <2> QED
      BY <2>3, <2>4 DEF OrderInv
  <1>10. ASSUME Certain PROVE GapInv'
    BY <1>1, <1>2, <1>5, <1>7, <1>10 DEF GapInv
  <1> QED
    BY <1>3, <1>4, <1>9, <1>10

LEMMA StepReset ==
  ASSUME UartConstants, UartInv, ResetQueue
  PROVE  MarkInv' /\ HandInv' /\ (Certain' => OrderInv' /\ GapInv')
  <1>. DEFINE L == uart_buffer_length  s == Stream
  <1>1. TypeInv /\ HandInv /\ (Certain => OrderInv /\ GapInv)
    BY DEF UartInv
  <1>2. /\ events' = <<>> /\ unnoticed' = (unnoticed \/ Overflow \in ToSet(events))
        /\ UNCHANGED <<uart_buffer, uart_buffer_pos, uart_buffer_length>>
        /\ UNCHANGED <<fifo, input, packet, place, length, handed, before>>
    BY DEF ResetQueue, ring, client
  <1>3. Stream' = s /\ L' = L /\ LastSent' = LastSent
    BY <1>2, RingStays DEF Stream, LastSent, Byte
  <1>4. ASSUME Certain' PROVE Certain /\ Clean
    <2>1. Certain /\ Overflow \notin ToSet(events)
      BY <1>2, <1>4 DEF Certain, Hopeless
    <2>2. events \in Seq(0..FifoSize)
      BY <1>1 DEF TypeInv
    <2>3. DOMAIN events = 1..Len(events)
      BY <2>2, LenProperties
    <2> QED
      BY <2>1, <2>3 DEF Clean, ToSet
  <1>5. HandInv'
    <2>1. packet \in Nat /\ packet' = packet
      BY <1>1, <1>2 DEF TypeInv, TypeOK
    <2>2. packet' \in Nat /\ packet' >= packet
      BY <1>2, <2>1
    <2>3. unnoticed => unnoticed'
      BY <1>2, Zenon
    <2> QED
      BY <1>1, <1>2, <2>2, <2>3, HandStays
  <1>6. ASSUME Certain' PROVE OrderInv' /\ GapInv'
    <2>1. OrderInv /\ GapInv /\ Clean
      BY <1>1, <1>4, <1>6
    <2>2. OrderInv'
      BY <1>2, <1>3, <2>1 DEF OrderInv
    <2>3. GapInv'
      BY <1>2, <1>3, <2>1 DEF GapInv
    <2> QED
      BY <2>2, <2>3
  <1>7. MarkInv'
    <2>. DEFINE z == [k \in 0..0 |-> 0]
    <2>1. /\ s \in Seq(Bytes) /\ Len(s) = L + Len(input) + Len(fifo)
          /\ L \in Nat /\ Len(input) \in Nat /\ Len(fifo) \in Nat
      BY <1>1, StreamIs, Sizes
    <2>2. Len(events') = 0 /\ input' = input
      BY <1>2
    <2>3. z \in [0..0 -> 0..Len(input)] /\ z[0] = 0
      BY <2>1
    <2>4. z \in [0..Len(events') -> 0..Len(input')]
      BY <2>2, <2>3
    <2>5. Marks(z, events')
      BY <2>2, <2>3 DEF Marks
    <2>6. ASSUME Certain' PROVE Gapless(s, L + 0)
      <3>1. Gapless(s, Len(s))
        BY <1>1, <1>4, <2>6 DEF GapInv
      <3>2. L + 0 \in Nat /\ L + 0 <= Len(s)
        BY <2>1
      <3> QED
        BY <2>1, <3>1, <3>2, GaplessPrefix
    <2>7. ASSUME Certain', NEW k \in 0..0 PROVE Gapless(Stream', uart_buffer_length' + z[k])
      <3>1. k = 0 /\ z[k] = 0 /\ uart_buffer_length' = L
        BY <1>3
      <3> QED
        BY <1>3, <2>6, <2>7, <3>1
    <2>8. (Certain => \A k \in 0..Len(events) :
                         CleanTo(k) => Gapless(Stream, uart_buffer_length + z[k]))'
      BY <2>2, <2>7
    <2> QED
      BY <2>4, <2>5, <2>8 DEF MarkInv
  <1> QED
    BY <1>5, <1>6, <1>7

-----------------------------------------------------------------------------
LEMMA UartInitInv ==
  ASSUME UartConstants, Init
  PROVE  UartInv
  <1>1. /\ uart_buffer = [k \in 0..(BufferSize - 1) |-> None]
        /\ uart_buffer_pos = 0 /\ uart_buffer_length = 0
        /\ uart_packet_started = FALSE
        /\ fifo = <<>> /\ input = <<>> /\ events = <<>>
        /\ receiving = "wait" /\ ticking = "wait"
        /\ uart_packet_timer = 0 /\ ch_uart_packet_timer_sem = FALSE
        /\ connected = FALSE
        /\ packet = 0 /\ place = 0 /\ length = 0
        /\ faults = 0
        /\ handed = <<>> /\ before = 0
        /\ cut = FALSE /\ unnoticed = FALSE
    BY DEF Init
  <1>2. /\ BufferSize \in Nat \ {0} /\ Timeout \in Nat /\ FifoSize \in Nat \ {0}
        /\ HeaderSize \in Nat \ {0} /\ HeaderSize <= BufferSize
    BY DEF UartConstants
  <1>3. Ring = <<>>
    <2>1. Ring = [k \in 1..0 |-> Content(k - 1)]
      BY <1>1 DEF Ring
    <2>2. 1..0 = {}
      OBVIOUS
    <2> QED
      BY <2>1, <2>2
  <1>4. TypeInv
    <2>1. uart_buffer \in [0..(BufferSize - 1) -> ByteType \cup {None}]
      BY <1>1
    <2>2. /\ uart_buffer_pos \in 0..BufferSize /\ uart_buffer_length \in 0..BufferSize
          /\ uart_packet_timer \in 0..Timeout /\ place \in 0..length
      BY <1>1, <1>2
    <2>3. /\ fifo \in Seq(ByteType) /\ input \in Seq(ByteType) /\ events \in Seq(Nat)
          /\ handed \in Seq(ByteType)
          /\ Ring \in Seq(Bytes) /\ input \in Seq(Bytes) /\ fifo \in Seq(Bytes)
          /\ events \in Seq(0..FifoSize)
      BY <1>1, <1>3, EmptySeq
    <2>4. TypeOK
      BY <1>1, <2>1, <2>2, <2>3 DEF TypeOK
    <2>5. Len(fifo) <= FifoSize
      BY <1>1, <1>2
    <2> QED
      BY <1>1, <2>3, <2>4, <2>5 DEF TypeInv
  <1>5. RoomInv
    <2>1. Hopeless \/ 0 + FifoSize <= BufferSize
      BY <1>2, <1>4, RoomForShort
    <2> QED
      BY <1>1, <2>1 DEF RoomInv
  <1>6. Stream = <<>> /\ Len(Stream) = 0
    <2>1. Stream = <<>> \o <<>> \o <<>>
      BY <1>1, <1>3 DEF Stream
    <2>2. <<>> \o <<>> = <<>>
      BY EmptySeq, ConcatEmptySeq
    <2> QED
      BY <2>1, <2>2
  <1>7. OrderInv
    BY <1>1, <1>6 DEF OrderInv, InOrder, UpTo
  <1>8. GapInv
    <2>1. Len(fifo) = 0 /\ fifo = <<>>
      BY <1>1
    <2> QED
      BY <1>6, <2>1, GaplessNone DEF GapInv, EndsWith
  <1>9. MarkInv
    <2>. DEFINE z == [k \in 0..0 |-> 0]
    <2>1. Len(events) = 0 /\ Len(input) = 0
      BY <1>1
    <2>2. z \in [0..0 -> 0..0] /\ z[0] = 0
      OBVIOUS
    <2>3. Marks(z, events)
      BY <2>1, <2>2 DEF Marks
    <2>4. ASSUME NEW k \in 0..0 PROVE Gapless(Stream, uart_buffer_length + z[k])
      <3>1. k = 0 /\ z[k] = 0 /\ 0 + 0 = 0
        OBVIOUS
      <3> QED
        BY <1>1, <3>1, GaplessNone
    <2>5. \A k \in 0..Len(events) : CleanTo(k) => Gapless(Stream, uart_buffer_length + z[k])
      BY <2>1, <2>4
    <2>6. z \in [0..Len(events) -> 0..Len(input)]
      BY <2>1, <2>2
    <2> QED
      BY <2>3, <2>5, <2>6 DEF MarkInv
  <1>10. HandInv
    BY <1>1 DEF HandInv, DeliveredWhole
  <1> QED
    BY <1>4, <1>5, <1>7, <1>8, <1>9, <1>10 DEF UartInv

LEMMA UartStepInv ==
  ASSUME UartConstants, UartInv, [Next]_vars
  PROVE  UartInv'
  <1>1. TypeInv /\ RoomInv /\ MarkInv
    BY DEF UartInv
  <1>2. TypeInv' /\ RoomInv'
    BY <1>1, StepType, StepRoom
  <1>3. MarkInv' /\ HandInv' /\ (Certain' => OrderInv' /\ GapInv')
    <2>1. CASE \E n \in Lengths : ClientSends(n)
      BY <2>1, StepSends
    <2>2. CASE DriverStores
      BY <2>2, StepStores
    <2>3. CASE TakeData
      BY <2>3, StepTakes
    <2>4. CASE TakeDataFails
      BY <2>4, StepTakeFails
    <2>5. CASE TakeOverflow
      BY <2>5, StepOverflow
    <2>6. CASE ResetQueue
      BY <2>6, StepReset
    <2>7. CASE ParseComplete
      BY <2>7, StepComplete
    <2>8. CASE Idles
      BY <2>8, StepIdles
    <2> QED
      BY <2>1, <2>2, <2>3, <2>4, <2>5, <2>6, <2>7, <2>8 DEF Next, Receives, Idles
  <1> QED
    BY <1>2, <1>3 DEF UartInv

(* What the lemmas come to: the invariant holds in every state.            *)
LEMMA UartInvariance == Spec => []UartInv
  <1>1. Init => UartInv
    BY UartConstants, UartInitInv
  <1>2. UartInv /\ [Next]_vars => UartInv'
    BY UartConstants, UartStepInv
  <1> QED
    BY <1>1, <1>2, PTL DEF Spec

(* The ring's position and length stay in its array, and                   *)
(* uart_packet_started never outlives the header it was set for: whatever  *)
(* the driver loses, whatever malloc fails and whenever ch_task clears.    *)
THEOREM UartTypes == Spec => []TypeOK
  <1>1. UartInv => TypeOK
    BY DEF UartInv, TypeInv
  <1> QED
    BY <1>1, UartInvariance, PTL

(* What uart_data_received gets is a packet the client sent, whole, and    *)
(* later than the one before, unless an overflow event was dropped with    *)
(* the queue.                                                              *)
THEOREM UartDeliversWhole == Spec => []DeliveredWhole
  <1>1. UartInv => DeliveredWhole
    BY DEF UartInv, HandInv, Certain, DeliveredWhole
  <1> QED
    BY <1>1, UartInvariance, PTL

-----------------------------------------------------------------------------
(* The CAN driver (Twai).                                                  *)

(* A task passes the gate with the mutex in its hand, and so does the      *)
(* alert task change the driver.                                           *)
GateInv ==
    /\ \A t \in Tasks : doing[t] = "pass" => twai_bus_off_mutex = t
    /\ alerting \in {"initiate", "give"} => twai_bus_off_mutex = Alert
    /\ driver \in {"recovering", "stopped"} => twai_bus_off_mutex = Alert

(* An alert that was not acted on is still true, and not raised twice.     *)
AlertInv ==
    /\ "BUS_OFF" \in alerts => driver \in {"bus_off", "uninstalled"}
    /\ "BUS_RECOVERED" \in alerts => driver \in {"stopped", "uninstalled"}
    /\ alerting = "bus_off" /\ "BUS_OFF" \in told =>
          driver = "bus_off" /\ "BUS_OFF" \notin alerts
    /\ alerting = "initiate" =>
          driver = "bus_off" /\ "BUS_OFF" \notin alerts /\ "BUS_RECOVERED" \notin told
    /\ alerting \in {"bus_off", "recovered"} /\ "BUS_RECOVERED" \in told =>
          driver = "stopped" /\ "BUS_RECOVERED" \notin alerts
    /\ alerting = "give" => driver \in {"running", "bus_off"}

(* What app_main has joined has stopped.                                   *)
StopInv ==
    /\ main \in {"join_rx", "join_alert", "uninstall", "stopped"}
           => \A l \in Links : doing[l] = "stopped"
    /\ main \in {"join_alert", "uninstall", "stopped"} => doing[Rx] = "stopped"
    /\ main \in {"uninstall", "stopped"} => alerting = "stopped"
    /\ driver = "uninstalled" => main = "stopped"

DriverStates == {"running", "bus_off", "recovering", "stopped", "uninstalled"}

Places == {"loop", "wait", "lock", "gate", "pass", "transmit", "unlock", "stopped"}

TwaiTypeInv == doing \in [Tasks -> Places] /\ driver \in DriverStates

TwaiInv == TwaiTypeInv /\ GateInv /\ AlertInv /\ StopInv

-----------------------------------------------------------------------------
LEMMA TwaiInitInv == TwaiInit => TwaiInv
  <1> SUFFICES ASSUME TwaiInit PROVE TwaiInv
    OBVIOUS
  <1>1. /\ doing = [t \in Tasks |-> "loop"] /\ driver = "running" /\ alerts = {}
        /\ alerting = "loop" /\ main = "running"
    BY DEF TwaiInit
  <1>2. TwaiTypeInv
    BY <1>1 DEF TwaiTypeInv, DriverStates, Places
  <1>5. GateInv
    BY <1>1 DEF GateInv
  <1>3. AlertInv
    BY <1>1 DEF AlertInv
  <1>4. StopInv
    BY <1>1 DEF StopInv
  <1> QED
    BY <1>2, <1>3, <1>4, <1>5 DEF TwaiInv

(* Nothing a sending task does changes the driver.                         *)
LEMMA SendStep ==
  ASSUME TwaiInv, NEW t \in Tasks, Sends(t) \/ \E l \in Links : Begins(t, l)
  PROVE  TwaiInv'
  <1>1. UNCHANGED <<driver, alerts, alerting, told, main>>
    BY DEF Sends, Begins, Loops, WaitTimesOut, Locks, TakesGate, GivesGate, Transmits, Unlocks,
           bus, alert, stop
  <1>2. /\ doing[t] # "stopped"
        /\ doing' = [doing EXCEPT ![t] = doing'[t]] /\ doing'[t] \in Places
    <2>1. PICK from \in Places \ {"stopped"}, to \in Places : Steps(t, from, to)
      <3>1. CASE Sends(t)
        BY <3>1 DEF Places, Sends, Loops, WaitTimesOut, Locks, TakesGate, GivesGate, Transmits, Unlocks
      <3>2. ASSUME NEW l \in Links, Begins(t, l)
            PROVE  Steps(t, "wait", "lock")
        BY <3>2 DEF Begins
      <3> QED
        BY <3>1, <3>2 DEF Places
    <2> QED
      BY <2>1 DEF TwaiInv, TwaiTypeInv, Steps
  <1>3. \/ twai_bus_off_mutex' = twai_bus_off_mutex /\ doing'[t] # "pass"
        \/ twai_bus_off_mutex = Nobody /\ twai_bus_off_mutex' = t /\ doing'[t] = "pass"
        \/ doing[t] = "pass" /\ twai_bus_off_mutex' = Nobody /\ doing'[t] # "pass"
    BY DEF TwaiInv, TwaiTypeInv, Tasks, Sends, Begins, Loops, WaitTimesOut, Locks, TakesGate,
           GivesGate, Transmits, Unlocks, Steps, mutexes
  <1>4. GateInv'
    BY <1>1, <1>2, <1>3, TwaiConstants DEF TwaiInv, TwaiTypeInv, GateInv, Tasks
  <1>5. AlertInv'
    BY <1>1 DEF TwaiInv, AlertInv
  <1>6. StopInv'
    BY <1>1, <1>2 DEF TwaiInv, TwaiTypeInv, StopInv, Tasks
  <1>7. TwaiTypeInv'
    BY <1>1, <1>2 DEF TwaiInv, TwaiTypeInv
  <1> QED
    BY <1>4, <1>5, <1>6, <1>7 DEF TwaiInv

(* The bus.                                                                *)
LEMMA BusStep == TwaiInv /\ (FrameGoes \/ GoesOff \/ Recovers) => TwaiInv'
  <1> SUFFICES ASSUME TwaiInv, FrameGoes \/ GoesOff \/ Recovers PROVE TwaiInv'
    OBVIOUS
  <1> USE DEF TwaiInv, TwaiTypeInv, DriverStates, GateInv, AlertInv, StopInv,
              mutexes, senders, alert, stop
  <1>1. CASE FrameGoes
    BY <1>1 DEF FrameGoes
  <1>2. CASE GoesOff
    BY <1>2 DEF GoesOff
  <1>3. CASE Recovers
    BY <1>3 DEF Recovers
  <1> QED
    BY <1>1, <1>2, <1>3

(* The alert task.                                                         *)
LEMMA AlertStep == TwaiInv /\ (AlertTask \/ TakeTimesOut) => TwaiInv'
  <1> SUFFICES ASSUME TwaiInv, AlertTask \/ TakeTimesOut PROVE TwaiInv'
    OBVIOUS
  <1> USE DEF Goes, bus, mutexes, senders, stop
  <1>1. UNCHANGED <<doing, main>> /\ alerting # "stopped"
    BY DEF AlertTask, AlertLoop, ReadTimesOut, Reads, TakesBusOff, TakeTimesOut, NotOff,
           Initiates, NotRecovered, Starts, Gives
  <1>2. driver # "uninstalled" /\ driver' # "uninstalled"
    BY <1>1 DEF TwaiInv, StopInv, AlertTask, AlertLoop, ReadTimesOut, Reads, TakesBusOff,
                TakeTimesOut, NotOff, Initiates, NotRecovered, Starts, Gives
  <1>3. StopInv'
    BY <1>1, <1>2 DEF TwaiInv, StopInv
  <1>4. GateInv' /\ AlertInv'
    <2> USE <1>1, <1>2 DEF TwaiInv, GateInv, AlertInv
    <2>1. CASE AlertLoop
      BY <2>1 DEF AlertLoop
    <2>2. CASE ReadTimesOut
      BY <2>2 DEF ReadTimesOut
    <2>3. CASE Reads
      BY <2>3 DEF Reads
    <2>4. CASE TakesBusOff
      BY <2>4, TwaiConstants DEF TakesBusOff, Tasks
    <2>5. CASE TakeTimesOut \/ NotOff
      BY <2>5 DEF TakeTimesOut, NotOff
    <2>6. CASE Initiates
      BY <2>6 DEF Initiates
    <2>7. CASE NotRecovered
      BY <2>7 DEF NotRecovered
    <2>8. CASE Starts
      BY <2>8 DEF Starts
    <2>9. CASE Gives
      BY <2>9, TwaiConstants DEF Gives
    <2> QED
      BY <2>1, <2>2, <2>3, <2>4, <2>5, <2>6, <2>7, <2>8, <2>9 DEF AlertTask
  <1>5. TwaiTypeInv'
    BY <1>1 DEF TwaiInv, TwaiTypeInv, DriverStates, AlertTask, AlertLoop, ReadTimesOut, Reads,
                TakesBusOff, TakeTimesOut, NotOff, Initiates, NotRecovered, Starts, Gives
  <1> QED
    BY <1>1, <1>3, <1>4, <1>5 DEF TwaiInv

(* app_main.                                                               *)
LEMMA StopStep == TwaiInv /\ (StopBegins \/ Stop) => TwaiInv'
  <1> SUFFICES ASSUME TwaiInv, StopBegins \/ Stop PROVE TwaiInv'
    OBVIOUS
  <1> USE DEF TwaiInv, TwaiTypeInv, DriverStates, GateInv, AlertInv, StopInv,
              bus, mutexes, senders, alert
  <1>1. CASE StopBegins
    BY <1>1 DEF StopBegins
  <1>2. CASE JoinsLinks
    BY <1>2 DEF JoinsLinks
  <1>3. CASE JoinsRx
    BY <1>3 DEF JoinsRx
  <1>4. CASE JoinsAlert
    BY <1>4 DEF JoinsAlert
  <1>5. CASE Uninstalls
    BY <1>5 DEF Uninstalls
  <1> QED
    BY <1>1, <1>2, <1>3, <1>4, <1>5 DEF Stop

LEMMA TwaiInvariance == TwaiSpec => []TwaiInv
  <1>1. TwaiInv /\ [TwaiNext]_twai_vars => TwaiInv'
    <2> SUFFICES ASSUME TwaiInv, [TwaiNext]_twai_vars PROVE TwaiInv'
      OBVIOUS
    <2>1. CASE UNCHANGED twai_vars
      BY <2>1 DEF twai_vars, bus, mutexes, senders, alert, stop, TwaiInv,
                  TwaiTypeInv, GateInv, AlertInv, StopInv
    <2>2. CASE TwaiNext
      BY <2>2, SendStep, BusStep, AlertStep, StopStep DEF TwaiNext
    <2> QED
      BY <2>1, <2>2
  <1> QED
    BY TwaiInitInv, <1>1, PTL DEF TwaiSpec

(* Recovery is initiated on a bus that is off and the driver started when  *)
(* it is stopped; nobody passes the gate meanwhile; and the driver is not  *)
(* uninstalled under a task.                                               *)
THEOREM DriverCallsAreLegal == TwaiSpec => []CallsFindTheirState
  <1>1. TwaiInv => CallsFindTheirState
    <2> SUFFICES ASSUME TwaiInv PROVE CallsFindTheirState
      OBVIOUS
    <2>1. RecoveryIsLegal
      BY DEF TwaiInv, GateInv, AlertInv, RecoveryIsLegal
    <2>2. InstalledInUse
      BY DEF TwaiInv, StopInv, InstalledInUse, Tasks
    <2>3. GateIsClosed
      BY <2>2, TwaiConstants DEF TwaiInv, TwaiTypeInv, DriverStates, GateInv, InstalledInUse, GateIsClosed
    <2> QED
      BY <2>1, <2>2, <2>3 DEF CallsFindTheirState
  <1> QED
    BY <1>1, TwaiInvariance, PTL
=============================================================================
