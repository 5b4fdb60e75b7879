--------------------------- MODULE ClientsProofs ---------------------------
(***************************************************************************)
(* Proofs about Clients, for every time-out and any number of links: the   *)
(* bridge can be reached whenever nobody uses it, and a session ends only  *)
(* in silence.  The invariant says, for a bridge that is invisible or      *)
(* lets nobody in, which task is about to change that.                     *)
(***************************************************************************)
EXTENDS Clients, SequenceTheorems, TLAPS

(* ch_task has read a timer that runs; a stack that advertises has room.   *)
TypeInv ==
    /\ TypeOK
    /\ ticking = "count" => counted > 0
    /\ advertising => links < MaxLinks

Flags ==
    /\ allow_connection \in BOOLEAN /\ is_connected \in BOOLEAN
    /\ advertising \in BOOLEAN /\ overtaken \in BOOLEAN

(* Nobody is let in only during a session or while a task begins or ends   *)
(* one.                                                                    *)
AllowInv ==
    ~allow_connection =>
        \/ uart_connection_timer > 0
        \/ receiving \in {"stop", "set"}
        \/ ticking = "allow"

(* A bridge without a client is invisible only then, or while the GATT     *)
(* handler has the end of a connection before it.                          *)
VisibleInv ==
    ~advertising /\ links = 0 =>
        \/ uart_connection_timer > 0
        \/ receiving \in {"stop", "set"}
        \/ ticking \in {"allow", "start"}
        \/ handling \in {"ask", "start"}
        \/ \E k \in DOMAIN events : events[k] = "disconnect"

(* Unless the last packet was overtaken, what is left of the timer and     *)
(* what has passed of it make Timeout.                                     *)
SilenceInv ==
    ~overtaken =>
        IF ticking = "count"
        THEN counted + silent = Timeout + 1
        ELSE uart_connection_timer > 0 => uart_connection_timer + silent = Timeout

-----------------------------------------------------------------------------
LEMMA InitInv == Init => TypeInv /\ AllowInv /\ VisibleInv /\ SilenceInv
  <1> SUFFICES ASSUME Init PROVE TypeInv /\ AllowInv /\ VisibleInv /\ SilenceInv
    OBVIOUS
  <1>1. TypeInv
    <2>1. events \in Seq({"connect", "disconnect"})
      BY DEF Init
    <2>2. Flags
      BY Zenon DEF Init, Flags
    <2> QED
      BY <2>1, <2>2, ClientsConstants DEF Init, TypeInv, TypeOK, Flags
  <1>2. AllowInv /\ VisibleInv
    BY DEF Init, AllowInv, VisibleInv
  <1>3. SilenceInv
    BY DEF Init, SilenceInv
  <1> QED
    BY <1>1, <1>2, <1>3

(* What is behind the head of the events stays when the head is taken.     *)
LEMMA TailKeeps ==
  ASSUME NEW s \in Seq({"connect", "disconnect"}), s # <<>>, Head(s) = "connect",
         \E k \in DOMAIN s : s[k] = "disconnect"
  PROVE  \E k \in DOMAIN Tail(s) : Tail(s)[k] = "disconnect"
  <1>1. PICK k \in DOMAIN s : s[k] = "disconnect"
    OBVIOUS
  <1>2. k \in 1..Len(s) /\ k # 1
    BY <1>1
  <1>3. k - 1 \in DOMAIN Tail(s) /\ Tail(s)[k - 1] = "disconnect"
    BY <1>1, <1>2
  <1> QED
    BY <1>3

LEMMA AppendedLast ==
  ASSUME NEW s \in Seq({"connect", "disconnect"})
  PROVE  /\ \E k \in DOMAIN Append(s, "disconnect") :
                Append(s, "disconnect")[k] = "disconnect"
         /\ Append(s, "disconnect") \in Seq({"connect", "disconnect"})
         /\ Append(s, "connect") \in Seq({"connect", "disconnect"})
  <1>1. Append(s, "disconnect")[Len(s) + 1] = "disconnect"
    OBVIOUS
  <1>2. Len(s) + 1 \in DOMAIN Append(s, "disconnect")
    OBVIOUS
  <1> QED
    BY <1>1, <1>2

(* Of a packet that sets the timer.                                        *)
LEMMA SetsTimerFacts ==
  ASSUME SetsTimer
  PROVE  /\ overtaken' \in BOOLEAN /\ (ticking = "count" => overtaken')
         /\ receiving = "set" /\ receiving' = "wait"
         /\ uart_connection_timer' = Timeout /\ silent' = 0
         /\ UNCHANGED <<allow_connection, is_connected, advertising, links, events,
                        ticking, handling, counted>>
  BY Zenon DEF SetsTimer, stack

LEMMA NextFlags == Flags /\ [Next]_vars => Flags'
  <1> SUFFICES ASSUME Flags, [Next]_vars PROVE Flags'
    OBVIOUS
  <1> USE DEF Flags, stack, tasks, history
  <1>1. CASE Connects \/ Disconnects
    BY <1>1, Zenon DEF Connects, Disconnects
  <1>2. CASE PacketArrives \/ LooksAtTimer \/ Forbids \/ Stops
    BY <1>2, Zenon DEF PacketArrives, LooksAtTimer, Forbids, Stops, StopsAdvertising
  <1>3. CASE SetsTimer
    BY <1>3, SetsTimerFacts, Zenon
  <1>4. CASE Handles
    BY <1>4, Zenon
    DEF Handles, Tick, Reads, CountsDown, Allows, Starts, StartsAdvertising
  <1>5. CASE HandlesGatt
    BY <1>5, Zenon
    DEF HandlesGatt, HandlesConnect, HandlesDisconnect, TakesEvent, Asks,
        HandlerStarts, StartsAdvertising
  <1>6. CASE UNCHANGED vars
    BY <1>6, Zenon DEF vars
  <1> QED
    BY <1>1, <1>2, <1>3, <1>4, <1>5, <1>6 DEF Next, Receives

LEMMA NextTypeInv == TypeInv /\ [Next]_vars => TypeInv'
  <1> SUFFICES ASSUME TypeInv, [Next]_vars PROVE TypeInv'
    OBVIOUS
  <1>0. Flags'
    BY NextFlags, Zenon DEF TypeInv, TypeOK, Flags
  <1> USE ClientsConstants DEF TypeInv, TypeOK, Flags, stack, tasks, history
  <1>1. CASE Connects
    <2>1. events' \in Seq({"connect", "disconnect"})
      BY <1>1, AppendedLast DEF Connects
    <2>2. links < MaxLinks
      BY <1>1 DEF Connects
    <2> QED
      BY <1>0, <1>1, <2>1, <2>2 DEF Connects
  <1>2. CASE Disconnects
    BY <1>2, AppendedLast DEF Disconnects
  <1>3. CASE PacketArrives \/ LooksAtTimer \/ Forbids \/ Stops
    BY <1>0, <1>3 DEF PacketArrives, LooksAtTimer, Forbids, Stops, StopsAdvertising
  <1>10. CASE SetsTimer
    BY <1>10, SetsTimerFacts
  <1>4. CASE Tick
    BY <1>4 DEF Tick, Reads
  <1>5. CASE CountsDown
    BY <1>5 DEF CountsDown
  <1>6. CASE Allows \/ Starts
    BY <1>0, <1>6 DEF Allows, Starts, StartsAdvertising
  <1>7. CASE HandlesConnect \/ HandlesDisconnect
    <2>1. events' = Tail(events) /\ events # <<>>
      BY <1>7 DEF HandlesConnect, HandlesDisconnect, TakesEvent
    <2>2. events' \in Seq({"connect", "disconnect"})
      BY <2>1
    <2> QED
      BY <1>0, <1>7, <2>2 DEF HandlesConnect, HandlesDisconnect, TakesEvent
  <1>8. CASE Asks \/ HandlerStarts
    BY <1>0, <1>8 DEF Asks, HandlerStarts, StartsAdvertising
  <1>9. CASE UNCHANGED vars
    BY <1>9 DEF vars
  <1> QED
    BY <1>1, <1>2, <1>3, <1>4, <1>5, <1>6, <1>7, <1>8, <1>9, <1>10
    DEF Next, Receives, Handles, HandlesGatt

LEMMA NextAllowInv == TypeInv /\ AllowInv /\ [Next]_vars => AllowInv'
  <1> SUFFICES ASSUME TypeInv, AllowInv, [Next]_vars PROVE AllowInv'
    OBVIOUS
  <1> USE ClientsConstants DEF TypeInv, TypeOK, AllowInv, stack, tasks, history
  <1>1. CASE Connects \/ Disconnects
    BY <1>1 DEF Connects, Disconnects
  <1>2. CASE PacketArrives \/ Receives
    BY <1>2
    DEF PacketArrives, Receives, LooksAtTimer, Forbids, Stops, StopsAdvertising,
        SetsTimer
  <1>3. CASE Handles
    BY <1>3 DEF Handles, Tick, Reads, CountsDown, Allows, Starts
  <1>4. CASE HandlesGatt
    BY <1>4
    DEF HandlesGatt, HandlesConnect, HandlesDisconnect, TakesEvent, Asks,
        HandlerStarts
  <1>5. CASE UNCHANGED vars
    BY <1>5 DEF vars
  <1> QED
    BY <1>1, <1>2, <1>3, <1>4, <1>5 DEF Next

LEMMA NextVisibleInv ==
  TypeInv /\ AllowInv /\ VisibleInv /\ [Next]_vars => VisibleInv'
  <1> SUFFICES ASSUME TypeInv, AllowInv, VisibleInv, [Next]_vars PROVE VisibleInv'
    OBVIOUS
  <1> USE ClientsConstants DEF TypeInv, TypeOK, VisibleInv, stack, tasks, history
  <1>1. CASE Connects
    BY <1>1 DEF Connects
  <1>2. CASE Disconnects
    BY <1>2, AppendedLast DEF Disconnects
  <1>3. CASE PacketArrives \/ Receives
    BY <1>3
    DEF PacketArrives, Receives, LooksAtTimer, Forbids, Stops, StopsAdvertising,
        SetsTimer
  <1>4. CASE Tick \/ CountsDown \/ Allows
    BY <1>4 DEF Tick, Reads, CountsDown, Allows
  <1>10. CASE Starts
    BY <1>10 DEF Starts, StartsAdvertising
  <1>5. CASE HandlesConnect
    BY <1>5, TailKeeps DEF HandlesConnect, TakesEvent
  <1>6. CASE HandlesDisconnect
    BY <1>6 DEF HandlesDisconnect, TakesEvent
  <1>7. CASE Asks
    BY <1>7 DEF Asks, AllowInv
  <1>8. CASE HandlerStarts
    BY <1>8 DEF HandlerStarts, StartsAdvertising
  <1>9. CASE UNCHANGED vars
    BY <1>9 DEF vars
  <1> QED
    BY <1>1, <1>2, <1>3, <1>4, <1>5, <1>6, <1>7, <1>8, <1>9, <1>10
  DEF Next, Handles, HandlesGatt

LEMMA NextSilenceInv == TypeInv /\ SilenceInv /\ [Next]_vars => SilenceInv'
  <1> SUFFICES ASSUME TypeInv, SilenceInv, [Next]_vars PROVE SilenceInv'
    OBVIOUS
  <1> USE ClientsConstants DEF TypeInv, TypeOK, SilenceInv, stack, tasks, history
  <1>1. CASE Connects \/ Disconnects
    BY <1>1 DEF Connects, Disconnects
  <1>2. CASE PacketArrives \/ LooksAtTimer \/ Forbids \/ Stops
    BY <1>2 DEF PacketArrives, LooksAtTimer, Forbids, Stops
  <1>6. CASE SetsTimer
    BY <1>6, SetsTimerFacts
  <1>3. CASE Handles
    BY <1>3 DEF Handles, Tick, Reads, CountsDown, Allows, Starts
  <1>4. CASE HandlesGatt
    BY <1>4
    DEF HandlesGatt, HandlesConnect, HandlesDisconnect, TakesEvent, Asks,
        HandlerStarts
  <1>5. CASE UNCHANGED vars
    BY <1>5 DEF vars
  <1> QED
    BY <1>1, <1>2, <1>3, <1>4, <1>5, <1>6 DEF Next, Receives

LEMMA AllInv == Spec => [](TypeInv /\ AllowInv /\ VisibleInv /\ SilenceInv)
  BY InitInv, NextTypeInv, NextAllowInv, NextVisibleInv, NextSilenceInv, PTL
  DEF Spec

-----------------------------------------------------------------------------
(* The timer stays within its bounds though ch_task counts it down without *)
(* the lock, and the stack never holds more links than it can.             *)
THEOREM ClientsTypeCorrect == Spec => []TypeOK
  <1>1. TypeInv => TypeOK
    BY DEF TypeInv
  <1> QED
    BY <1>1, AllInv, PTL

(* Once the tasks rest without a session the bridge lets a client in, and  *)
(* advertises if there is none.                                            *)
THEOREM IdleIsReachable == Spec => []ReachableWhenIdle
  <1>1. TypeInv /\ AllowInv /\ VisibleInv => ReachableWhenIdle
    BY DEF TypeInv, TypeOK, AllowInv, VisibleInv, ReachableWhenIdle, AtRest
  <1> QED
    BY <1>1, AllInv, PTL

(* A session ends only after Timeout ticks without a packet, unless the    *)
(* last packet was overtaken by the count.                                 *)
THEOREM SessionEndsInSilence == Spec => EndsInSilence
  <1> DEFINE Ends == ticking = "count" /\ ticking' = "allow"
                         => overtaken \/ silent >= Timeout
  <1>1. TypeInv /\ SilenceInv /\ [Next]_vars => [Ends]_vars
    <2> SUFFICES ASSUME TypeInv, SilenceInv, Next,
                        ticking = "count", ticking' = "allow", ~overtaken
                 PROVE  silent >= Timeout
      BY Zenon
    <2>1. counted = 1
      BY DEF Next, Connects, Disconnects, PacketArrives, Receives, LooksAtTimer,
             Forbids, Stops, SetsTimer, Handles, Tick, Reads, CountsDown, Allows,
             Starts, HandlesGatt, HandlesConnect, HandlesDisconnect, TakesEvent,
             Asks, HandlerStarts, tasks
    <2> QED
      BY <2>1, ClientsConstants DEF SilenceInv, TypeInv, TypeOK
  <1> QED
    BY <1>1, AllInv, PTL DEF Spec, EndsInSilence
=============================================================================
