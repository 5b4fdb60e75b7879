---------------------------- MODULE PersistProofs ----------------------------
(***************************************************************************)
(* What TLAPS proves of Persist, for any number of slots, messages and     *)
(* places in the queue, and of PersistPace, for any clock, ticks and       *)
(* delays.                                                                 *)
(***************************************************************************)
EXTENDS Persist, PersistPace, TLAPS

(* A packet is there while parse_packet is at work, and the count that     *)
(* persist_add read still leaves room when it adds.                        *)
PacketInv ==
    /\ step # "idle" => packet \in Packets
    /\ step = "insert" => /\ packet.link \in Slots
                          /\ Len(messages[packet.link]) < MaxMessage
    /\ step \notin {"clear_on", "clear_off"} => clear_at["packet"] = -1

(* A task that holds data_mutex has a message to send; one about to queue  *)
(* has a copy with data.                                                   *)
TaskInv ==
    \A i \in Slots :
        /\ task[i] = "send" => messages[i] # <<>>
        /\ task[i] = "queue" => held[i] \in StoredMessage /\ HasData(held[i])

(* How far a session that no packet disturbs has come, and what it leaves. *)
CalmInv ==
    /\ calm # "no" => step = "idle" /\ ~persist_msg_enabled
    /\ calm = "clearing" =>
           /\ clear_at["session"] # -1
           /\ \A i \in Slots : i < clear_at["session"] => messages[i] = <<>>
    /\ calm = "yes" =>
           /\ clear_at["session"] = -1
           /\ \A i \in Slots :
                  /\ messages[i] = <<>>
                  /\ late[i] <= 1
                  /\ task[i] = "queue" => late[i] = 0

IInv == TypeOK /\ PacketInv /\ TaskInv /\ CalmInv

LEMMA ClearersAre ==
    /\ "packet" \in Clearers /\ "session" \in Clearers
    /\ \A c \in Clearers : c = "packet" \/ c = "session"
  BY DEF Clearers

(* Where a clearer is, a message more in a list or in the queue.           *)
LEMMA ClearAtType ==
    ASSUME NEW f \in [Clearers -> -1..PersistCount], NEW c \in Clearers,
           NEW n \in -1..PersistCount
    PROVE  [f EXCEPT ![c] = n] \in [Clearers -> -1..PersistCount]
  OBVIOUS

LEMMA ListType ==
    ASSUME NEW f \in [Slots -> Seq(StoredMessage)], NEW i \in Slots,
           NEW m \in StoredMessage
    PROVE  /\ [f EXCEPT ![i] = Append(@, m)] \in [Slots -> Seq(StoredMessage)]
           /\ [f EXCEPT ![i] = <<>>] \in [Slots -> Seq(StoredMessage)]
           /\ Len(Append(f[i], m)) = Len(f[i]) + 1
  OBVIOUS

LEMMA QueueType ==
    ASSUME NEW q \in Seq(QueuedMessage), NEW m \in QueuedMessage
    PROVE  Append(q, m) \in Seq(QueuedMessage) /\ Len(Append(q, m)) = Len(q) + 1
  OBVIOUS

LEMMA InitIInv == Init => IInv
  <1> SUFFICES ASSUME Init PROVE IInv
    OBVIOUS
  <1> USE PersistConstants DEF Init
  <1>1. TypeOK
    <2>1. clear_at \in [Clearers -> -1..PersistCount]
      <3>1. -1 \in -1..PersistCount
        OBVIOUS
      <3>2. QED BY <3>1
    <2>2. messages \in [Slots -> Seq(StoredMessage)]
      OBVIOUS
    <2>3. \A i \in Slots : Len(messages[i]) <= MaxMessage
      OBVIOUS
    <2>4. queue \in Seq(QueuedMessage) /\ Len(queue) <= QueueSize
      OBVIOUS
    <2>5. position \in [Slots -> 0..MaxMessage] /\ late \in [Slots -> Nat]
      OBVIOUS
    <2>6. task \in [Slots -> {"wait", "check", "send", "queue"}]
      OBVIOUS
    <2>7. held \in [Slots -> StoredMessage \cup {None}] /\ send_sema \in [Slots -> BOOLEAN]
      OBVIOUS
    <2>8. QED BY <2>1, <2>2, <2>3, <2>4, <2>5, <2>6, <2>7 DEF TypeOK
  <1>2. PacketInv /\ TaskInv /\ CalmInv
    BY ClearersAre DEF PacketInv, TaskInv, CalmInv
  <1>3. QED BY <1>1, <1>2 DEF IInv

LEMMA NextIInv == IInv /\ [Next]_vars => IInv'
  <1> SUFFICES ASSUME IInv, [Next]_vars PROVE IInv'
    OBVIOUS
  <1> USE PersistConstants, ClearersAre DEF IInv
  <1>1. ASSUME NEW p \in Offered, PacketArrives(p) PROVE IInv'
    BY <1>1 DEF PacketArrives, TypeOK, PacketInv, TaskInv, CalmInv, list_vars, task_vars
  <1>2. CASE PacketClears
    <2>1. TypeOK'
      <3>1. clear_at' \in [Clearers -> -1..PersistCount]
        <4>1. 0 \in -1..PersistCount /\ -1 \in -1..PersistCount
          OBVIOUS
        <4>2. clear_at \in [Clearers -> -1..PersistCount]
          BY DEF TypeOK
        <4>3. PICK n \in -1..PersistCount : clear_at' = [clear_at EXCEPT !["packet"] = n]
          BY <1>2, <4>1 DEF PacketClears, BeginClear
        <4>4. QED BY <4>2, <4>3, ClearAtType
      <3>4. persist_msg_enabled' \in BOOLEAN
        BY <1>2 DEF PacketClears, BeginClear, TypeOK
      <3>2. step' \in {"clear_on", "clear_off", "leave", "add"}
        BY <1>2 DEF PacketClears
      <3>5. QED BY <1>2, <3>1, <3>2, <3>4 DEF PacketClears, TypeOK, list_vars, task_vars, bounds
    <2>2. PacketInv'
      BY <1>2, ClearAtType DEF PacketClears, BeginClear, Cleared, list_vars, task_vars, bounds, TypeOK, PacketInv, TaskInv, CalmInv
    <2>3. TaskInv'
      BY <1>2, ClearAtType DEF PacketClears, BeginClear, Cleared, list_vars, task_vars, bounds, TypeOK, PacketInv, TaskInv, CalmInv
    <2>4. CalmInv'
      BY <1>2, ClearAtType DEF PacketClears, BeginClear, Cleared, list_vars, task_vars, bounds, TypeOK, PacketInv, TaskInv, CalmInv
    <2>5. QED BY <2>1, <2>2, <2>3, <2>4
  <1>3. CASE PacketLeaves
    BY <1>3 DEF PacketLeaves, TypeOK, PacketInv, TaskInv, CalmInv, list_vars, task_vars, bounds
  <1>4. CASE PacketAdds
    BY <1>4 DEF PacketAdds, IsFull, TypeOK, PacketInv, TaskInv, CalmInv, list_vars, task_vars, bounds
  <1>5. CASE PacketInserts
    <2>1. TypeOK'
      <3>1. PICK m \in StoredMessage : messages' = [messages EXCEPT ![packet.link] = Append(@, m)]
        BY <1>5 DEF PacketInserts, PacketInv, Stored, StoredMessage, Packets
      <3>2. faults' \in Nat /\ packet.link \in Slots /\ Len(messages[packet.link]) < MaxMessage
        BY <1>5 DEF PacketInserts, PacketInv, Fault, TypeOK
      <3>3. messages' \in [Slots -> Seq(StoredMessage)]
        BY <3>1, <3>2, ListType DEF TypeOK
      <3>4. ASSUME NEW i \in Slots PROVE Len(messages'[i]) <= MaxMessage
        <4>1. messages[i] \in Seq(StoredMessage) /\ Len(messages[i]) <= MaxMessage
          BY DEF TypeOK
        <4>2. CASE i = packet.link
          BY <3>1, <3>2, <4>1, <4>2, ListType DEF TypeOK
        <4>3. CASE i # packet.link
          BY <3>1, <3>2, <4>1, <4>3 DEF TypeOK
        <4>4. QED BY <4>2, <4>3
      <3>5. QED BY <1>5, <3>2, <3>3, <3>4 DEF PacketInserts, TypeOK, task_vars
    <2>2. PacketInv'
      BY <1>5 DEF PacketInserts, Fault, Stored, Unlocked, task_vars, StoredMessage, Packets, TypeOK, PacketInv, TaskInv, CalmInv
    <2>3. TaskInv'
      BY <1>5 DEF PacketInserts, Fault, Stored, Unlocked, task_vars, StoredMessage, Packets, TypeOK, PacketInv, TaskInv, CalmInv
    <2>4. CalmInv'
      BY <1>5 DEF PacketInserts, Fault, Stored, Unlocked, task_vars, StoredMessage, Packets, TypeOK, PacketInv, TaskInv, CalmInv
    <2>5. QED BY <2>1, <2>2, <2>3, <2>4
  <1>6. CASE PacketEnables
    BY <1>6 DEF PacketEnables, TypeOK, PacketInv, TaskInv, CalmInv, list_vars, task_vars, bounds
  <1>7. CASE PacketSends
    <2>1. TypeOK'
      <3>1. faults' \in Nat
        BY <1>7 DEF PacketSends, Fault, TypeOK
      <3>2. queue' \in Seq(QueuedMessage) /\ Len(queue') <= QueueSize
        <4>1. CASE UNCHANGED queue
          BY <4>1 DEF TypeOK
        <4>2. CASE /\ packet.data # NoData /\ HasRoom
                   /\ queue' = Append(queue, Queued(packet.link, packet.data, packet.conv, packet.conv))
          <5>1. Queued(packet.link, packet.data, packet.conv, packet.conv) \in QueuedMessage
            BY <1>7, <4>2 DEF PacketSends, PacketInv, Packets, Queued, QueuedMessage
          <5>2. QED BY <4>2, <5>1, QueueType DEF HasRoom, TypeOK
        <4>3. QED BY <1>7, <4>1, <4>2 DEF PacketSends
      <3>3. QED BY <1>7, <3>1, <3>2 DEF PacketSends, TypeOK, list_vars, task_vars
    <2>2. PacketInv'
      BY <1>7, SMTT(60) DEF PacketSends, HasRoom, Fault, Queued, list_vars, task_vars, QueuedMessage, Packets, TypeOK, PacketInv, TaskInv, CalmInv
    <2>3. TaskInv'
      BY <1>7, SMTT(60) DEF PacketSends, HasRoom, Fault, Queued, list_vars, task_vars, QueuedMessage, Packets, TypeOK, PacketInv, TaskInv, CalmInv
    <2>4. CalmInv'
      BY <1>7, SMTT(60) DEF PacketSends, HasRoom, Fault, Queued, list_vars, task_vars, QueuedMessage, Packets, TypeOK, PacketInv, TaskInv, CalmInv
    <2>5. QED BY <2>1, <2>2, <2>3, <2>4
  <1>8. ASSUME NEW c \in Clearers, ClearSlot(c) PROVE IInv'
    <2>1. TypeOK'
      <3>1. clear_at' \in [Clearers -> -1..PersistCount]
        <4>1. clear_at[c] + 1 \in -1..PersistCount
          BY <1>8 DEF ClearSlot, Slots
        <4>2. QED BY <1>8, <4>1, ClearAtType DEF ClearSlot, TypeOK
      <3>2. messages' \in [Slots -> Seq(StoredMessage)]
        BY <1>8, ListType DEF ClearSlot, EmptySlot, TypeOK
      <3>3. \A i \in Slots : Len(messages'[i]) <= MaxMessage
        BY <1>8 DEF ClearSlot, EmptySlot, TypeOK
      <3>4. position' \in [Slots -> 0..MaxMessage]
        BY <1>8 DEF ClearSlot, EmptySlot, TypeOK
      <3>5. QED BY <1>8, <3>1, <3>2, <3>3, <3>4 DEF ClearSlot, TypeOK, task_vars, bounds
    <2>2. PacketInv'
      BY <1>8, SMTT(60) DEF ClearSlot, Unlocked, EmptySlot, Slots, task_vars, bounds, TypeOK, PacketInv, TaskInv, CalmInv
    <2>3. TaskInv'
      BY <1>8, SMTT(60) DEF ClearSlot, Unlocked, EmptySlot, Slots, task_vars, bounds, TypeOK, PacketInv, TaskInv, CalmInv
    <2>4. CalmInv'
      <3>1. /\ UNCHANGED <<calm, step, persist_msg_enabled, late, task>>
            /\ \A i \in Slots : messages[i] = <<>> => messages'[i] = <<>>
            /\ messages'[clear_at[c]] = <<>>
        BY <1>8 DEF ClearSlot, EmptySlot, TypeOK, task_vars
      <3>2. CASE c = "packet"
        <4>1. clear_at'["session"] = clear_at["session"]
          BY <1>8, <3>2 DEF ClearSlot, TypeOK
        <4>2. QED BY <3>1, <4>1 DEF CalmInv
      <3>3. CASE c = "session"
        <4>1. /\ clear_at["session"] \in Nat
              /\ clear_at'["session"] = clear_at["session"] + 1
              /\ messages'[clear_at["session"]] = <<>>
          BY <1>8, <3>1, <3>3 DEF ClearSlot, Slots, TypeOK
        <4>2. \A i \in Slots : i \in Int /\ (i < clear_at["session"] + 1 =>
                                     i < clear_at["session"] \/ i = clear_at["session"])
          BY <4>1 DEF Slots
        <4>3. calm # "yes"
          BY <4>1 DEF CalmInv
        <4>4. QED BY <3>1, <4>1, <4>2, <4>3 DEF CalmInv
      <3>4. QED BY <3>2, <3>3
    <2>5. QED BY <2>1, <2>2, <2>3, <2>4
  <1>9. CASE SessionBegins
    <2>1. TypeOK'
      <3>1. clear_at' \in [Clearers -> -1..PersistCount]
        <4>1. 0 \in -1..PersistCount
          OBVIOUS
        <4>2. QED BY <1>9, <4>1, ClearAtType DEF SessionBegins, BeginClear, TypeOK
      <3>2. calm' \in {"clearing", "no"}
        BY <1>9 DEF SessionBegins
      <3>3. persist_msg_enabled' \in BOOLEAN
        BY <1>9 DEF SessionBegins, BeginClear
      <3>4. sessions' \in Nat
        BY <1>9 DEF SessionBegins, TypeOK
      <3>5. QED BY <1>9, <3>1, <3>2, <3>3, <3>4 DEF SessionBegins, TypeOK, list_vars, task_vars
    <2>2. PacketInv'
      BY <1>9, ClearAtType DEF SessionBegins, BeginClear, list_vars, task_vars, TypeOK, PacketInv, TaskInv, CalmInv
    <2>3. TaskInv'
      BY <1>9, ClearAtType DEF SessionBegins, BeginClear, list_vars, task_vars, TypeOK, PacketInv, TaskInv, CalmInv
    <2>4. CalmInv'
      <3>1. /\ clear_at'["session"] = 0 /\ ~persist_msg_enabled'
            /\ calm' # "yes" /\ (calm' # "no" => step' = "idle")
        BY <1>9 DEF SessionBegins, BeginClear, TypeOK
      <3>2. \A i \in Slots : ~(i < 0)
        BY DEF Slots
      <3>3. QED BY <3>1, <3>2 DEF CalmInv
    <2>5. QED BY <2>1, <2>2, <2>3, <2>4
  <1>10. CASE SessionEnds
    BY <1>10 DEF SessionEnds, Cleared, TypeOK, PacketInv, TaskInv, CalmInv, Slots, list_vars, task_vars, bounds
  <1>11. ASSUME NEW i \in Slots, Wake(i) PROVE IInv'
    BY <1>11 DEF Wake, TypeOK, PacketInv, TaskInv, CalmInv, list_vars, bounds
  <1>12. ASSUME NEW i \in Slots, Check(i) PROVE IInv'
    BY <1>12 DEF Check, TypeOK, PacketInv, TaskInv, CalmInv, list_vars, bounds
  <1>13. ASSUME NEW i \in Slots, QueuesAreFull(i) PROVE IInv'
    BY <1>13 DEF QueuesAreFull, TryAgain, Fault, TypeOK, PacketInv, TaskInv, CalmInv, list_vars
  <1>14. ASSUME NEW i \in Slots, TakeTurn(i) PROVE IInv'
    <2>1. TypeOK'
      <3>1. /\ messages[i] \in Seq(StoredMessage) /\ Len(messages[i]) <= MaxMessage
            /\ messages[i] # <<>> /\ position[i] \in 0..MaxMessage
        BY <1>14 DEF TakeTurn, TaskInv, TypeOK
      <3>2. Turn(i) + 1 \in DOMAIN messages[i] /\ Turn(i) + 1 \in 0..MaxMessage
        BY <3>1 DEF Turn
      <3>3. position' \in [Slots -> 0..MaxMessage]
        BY <1>14, <3>2 DEF TakeTurn, TypeOK
      <3>4. messages[i][Turn(i) + 1] \in StoredMessage
        BY <3>1, <3>2
      <3>5. /\ held' \in [Slots -> StoredMessage \cup {None}]
            /\ task' \in [Slots -> {"wait", "check", "send", "queue"}]
        BY <1>14, <3>4 DEF TakeTurn, TryAgain, TypeOK
      <3>6. send_sema' \in [Slots -> BOOLEAN]
        BY <1>14 DEF TakeTurn, TryAgain, TypeOK
      <3>7. faults' \in Nat
        BY <1>14 DEF TakeTurn, Fault, TypeOK
      <3>8. QED BY <1>14, <3>3, <3>5, <3>6, <3>7 DEF TakeTurn, TypeOK
    <2>2. PacketInv'
      BY <1>14 DEF TakeTurn, Turn, HasData, TryAgain, Fault, TypeOK, PacketInv, TaskInv, CalmInv
    <2>3. TaskInv'
      <3>1. /\ task \in [Slots -> {"wait", "check", "send", "queue"}]
            /\ held \in [Slots -> StoredMessage \cup {None}]
            /\ messages[i] \in Seq(StoredMessage) /\ Turn(i) + 1 \in DOMAIN messages[i]
        BY <1>14 DEF TakeTurn, TaskInv, TypeOK, Turn
      <3>2. UNCHANGED messages
        BY <1>14 DEF TakeTurn
      <3>3. CASE task' = [task EXCEPT ![i] = "wait"] /\ UNCHANGED held
        BY <3>1, <3>2, <3>3 DEF TaskInv
      <3>4. CASE /\ task' = [task EXCEPT ![i] = "queue"]
                 /\ HasData(messages[i][Turn(i) + 1])
                 /\ held' = [held EXCEPT ![i] = messages[i][Turn(i) + 1]]
        BY <3>1, <3>2, <3>4 DEF TaskInv
      <3>5. QED BY <1>14, <3>3, <3>4 DEF TakeTurn, TryAgain
    <2>4. CalmInv'
      BY <1>14 DEF TakeTurn, Turn, HasData, TryAgain, Fault, TypeOK, PacketInv, TaskInv, CalmInv
    <2>5. QED BY <2>1, <2>2, <2>3, <2>4
  <1>15. ASSUME NEW i \in Slots, QueueCopy(i) PROVE IInv'
    <2>1. TypeOK'
      <3>1. PICK conv \in Routes :
                queue' = Append(queue, Queued(i, held[i].data, conv, held[i].asked))
        BY <1>15 DEF QueueCopy
      <3>2. Queued(i, held[i].data, conv, held[i].asked) \in QueuedMessage
        BY <1>15 DEF QueueCopy, TaskInv, HasData, StoredMessage, Queued, QueuedMessage, Slots, Links
      <3>3. queue' \in Seq(QueuedMessage) /\ Len(queue') <= QueueSize
        BY <1>15, <3>1, <3>2, QueueType DEF QueueCopy, HasRoom, TypeOK
      <3>4. /\ held' \in [Slots -> StoredMessage \cup {None}]
            /\ task' \in [Slots -> {"wait", "check", "send", "queue"}]
            /\ late' \in [Slots -> Nat]
        BY <1>15 DEF QueueCopy, TypeOK
      <3>5. QED BY <1>15, <3>3, <3>4 DEF QueueCopy, TypeOK, list_vars, bounds
    <2>2. PacketInv'
      BY <1>15 DEF QueueCopy, HasRoom, HasData, Queued, QueuedMessage, StoredMessage, Slots, Links, list_vars, bounds, TypeOK, PacketInv, TaskInv, CalmInv
    <2>3. TaskInv'
      BY <1>15 DEF QueueCopy, HasRoom, HasData, Queued, QueuedMessage, StoredMessage, Slots, Links, list_vars, bounds, TypeOK, PacketInv, TaskInv, CalmInv
    <2>4. CalmInv'
      <3>1. /\ UNCHANGED <<calm, step, persist_msg_enabled, clear_at, messages>>
            /\ task' = [task EXCEPT ![i] = "wait"] /\ task[i] = "queue"
            /\ late' = [late EXCEPT ![i] = IF calm = "yes" THEN @ + 1 ELSE @]
        BY <1>15 DEF QueueCopy, list_vars
      <3>2. task \in [Slots -> {"wait", "check", "send", "queue"}] /\ late \in [Slots -> Nat]
        BY DEF TypeOK
      <3>3. QED BY <3>1, <3>2 DEF CalmInv
    <2>5. QED BY <2>1, <2>2, <2>3, <2>4
  <1>16. ASSUME NEW i \in Slots, DropCopy(i) PROVE IInv'
    BY <1>16 DEF DropCopy, TryAgain, Fault, TypeOK, PacketInv, TaskInv, CalmInv, list_vars
  <1>17. CASE TakeMessage
    BY <1>17 DEF TakeMessage, TypeOK, PacketInv, TaskInv, CalmInv, list_vars, task_vars, bounds
  <1>18. ASSUME NEW i \in Slots, Answer(i) PROVE IInv'
    BY <1>18 DEF Answer, TypeOK, PacketInv, TaskInv, CalmInv, list_vars, bounds
  <1>19. CASE UNCHANGED vars
    BY <1>19 DEF vars, TypeOK, PacketInv, TaskInv, CalmInv, list_vars, task_vars, bounds
  <1>20. QED
    BY <1>1, <1>2, <1>3, <1>4, <1>5, <1>6, <1>7, <1>8, <1>9, <1>10, <1>11, <1>12,
       <1>13, <1>14, <1>15, <1>16, <1>17, <1>18, <1>19
       DEF Next, Packet, Session, PersistTask
-----------------------------------------------------------------------------
(* Every variable keeps its type; the lists never outgrow their array, and *)
(* what is queued has data.                                                *)
THEOREM PersistTypeCorrect == Spec => []TypeOK
  <1>1. IInv => TypeOK
    BY DEF IInv
  <1>2. QED BY <1>1, InitIInv, NextIInv, PTL DEF Spec

(* persist_send reads a message that is in the list.                       *)
THEOREM PersistTurnInList == Spec => []TurnInList
  <1>1. IInv => TurnInList
    BY PersistConstants DEF IInv, TypeOK, TaskInv, TurnInList, Turn
  <1>2. QED BY <1>1, InitIInv, NextIInv, PTL DEF Spec

(* A session no packet disturbs begins with persist mode off and no        *)
(* message stored.                                                         *)
THEOREM PersistSessionStartsClean == Spec => []SessionStartsClean
  <1>1. IInv => SessionStartsClean
    BY DEF IInv, CalmInv, SessionStartsClean
  <1>2. QED BY <1>1, InitIInv, NextIInv, PTL DEF Spec

(* After it, a slot queues at most one copy it had made before.            *)
THEOREM PersistOneStraggler == Spec => []OneStraggler
  <1>1. IInv => OneStraggler
    BY DEF IInv, CalmInv, OneStraggler
  <1>2. QED BY <1>1, InitIInv, NextIInv, PTL DEF Spec

-----------------------------------------------------------------------------
(* PersistPace.  First what cutting to 32 bits does to a sum.              *)
LEMMA CutParts ==
  ASSUME PaceConstants, NEW x \in Nat
  PROVE  /\ Wrap \in Nat
         /\ Cut(x) \in 0..(Wrap - 1) /\ Cut(x) \in Nat
         /\ x \div Wrap \in Nat /\ Wrap * (x \div Wrap) \in Nat
         /\ x = Wrap * (x \div Wrap) + Cut(x)
  <1>1. /\ Wrap \in Nat
        /\ Cut(x) \in 0..(Wrap - 1) /\ Cut(x) \in Nat
        /\ x \div Wrap \in Nat
        /\ x = Wrap * (x \div Wrap) + Cut(x)
    BY DEF PaceConstants, Cut
  <1>2. \A a, b \in Nat : a * b \in Nat
    OBVIOUS
  <1> QED
    BY <1>1, <1>2

LEMMA RoundsApart ==
  ASSUME PaceConstants, NEW a \in Nat, NEW b \in Nat, a < b
  PROVE  Wrap * a + Wrap <= Wrap * b
  BY DEF PaceConstants

LEMMA CutIs ==
  ASSUME PaceConstants, NEW q \in Nat, NEW c \in 0..(Wrap - 1)
  PROVE  Cut(Wrap * q + c) = c
  <1>. DEFINE x == Wrap * q + c
              p == x \div Wrap
  <1>1. Wrap \in Nat /\ Wrap * q \in Nat
    BY DEF PaceConstants
  <1>2. x \in Nat
    BY <1>1
  <1>3. Cut(x) \in 0..(Wrap - 1) /\ p \in Nat /\ x = Wrap * p + Cut(x) /\ Wrap * p \in Nat
    BY ONLY <1>2, CutParts, PaceConstants
  <1>. HIDE DEF p
  <1>4. CASE p < q
    <2>1. Wrap * p + Wrap <= Wrap * q
      BY <1>3, <1>4, RoundsApart
    <2> QED
      BY <1>1, <1>3, <2>1
  <1>5. CASE q < p
    <2>1. Wrap * q + Wrap <= Wrap * p
      BY <1>3, <1>5, RoundsApart
    <2> QED
      BY <1>1, <1>3, <2>1
  <1>6. CASE p = q
    BY <1>1, <1>3, <1>6
  <1> QED
    BY <1>3, <1>4, <1>5, <1>6

LEMMA CutAdd ==
  ASSUME PaceConstants, NEW x \in Nat, NEW r \in Nat
  PROVE  Cut(Cut(x) + r) = Cut(x + r)
  <1>. DEFINE y == Cut(x) + r
              p == x \div Wrap
              q == y \div Wrap
  <1>1. Wrap \in Nat /\ Cut(x) \in Nat /\ p \in Nat /\ x = Wrap * p + Cut(x)
    BY CutParts
  <1>2. y \in Nat
    BY <1>1
  <1>3. Cut(y) \in 0..(Wrap - 1) /\ q \in Nat /\ y = Wrap * q + Cut(y)
    BY <1>2, CutParts
  <1>4. x + r = Wrap * p + y
    BY <1>1
  <1>. HIDE DEF p, q, y
  <1>5. p + q \in Nat /\ Wrap * (p + q) = Wrap * p + Wrap * q
    BY <1>1, <1>3
  <1>6. x + r = Wrap * (p + q) + Cut(y)
    BY <1>1, <1>3, <1>4, <1>5
  <1>7. Cut(x + r) = Cut(y)
    BY <1>3, <1>5, <1>6, CutIs
  <1> QED
    BY <1>7 DEF y

LEMMA CutAhead ==
  ASSUME PaceConstants, NEW t \in Nat, NEW c \in 0..(Wrap - 1), Cut(t) <= c
  PROVE  /\ t + (c - Cut(t)) \in Nat
         /\ Cut(t + (c - Cut(t))) = c
  <1>1. Wrap \in Nat /\ Cut(t) \in Nat /\ t \div Wrap \in Nat
        /\ t = Wrap * (t \div Wrap) + Cut(t) /\ Wrap * (t \div Wrap) \in Nat
    BY CutParts DEF PaceConstants
  <1>2. t + (c - Cut(t)) = Wrap * (t \div Wrap) + c
    BY <1>1
  <1>3. Cut(Wrap * (t \div Wrap) + c) = c
    BY <1>1, CutIs
  <1> QED
    BY <1>1, <1>2, <1>3

(* While time t is not at the wrap, what is due no later than Slack after  *)
(* it and is put off by r is not taken to be due earlier than that.        *)
LEMMA NotEarly ==
  ASSUME PaceConstants, NEW n \in Nat, NEW t \in Nat, NEW r \in 0..MaxDelay,
         n <= t + Slack, ~AtWrap(t)
  PROVE  /\ Cut(n + r) <= Cut(t) => n + r <= t
         /\ Cut(n + r) > Cut(t) => n + r <= t + (Cut(n + r) - Cut(t))
  <1>. DEFINE m == n + r
              p == m \div Wrap
              q == t \div Wrap
  <1>1. /\ Wrap \in Nat /\ MaxDelay \in Nat /\ Slack \in Nat
        /\ Cut(t) + MaxDelay + Slack < Wrap \/ Cut(t) \notin Nat
        /\ m \in Nat
    BY CutParts DEF PaceConstants, AtWrap
  <1>2. Cut(t) \in Nat /\ q \in Nat /\ t = Wrap * q + Cut(t) /\ Wrap * q \in Nat
    BY <1>1, CutParts
  <1>3. Cut(m) \in 0..(Wrap - 1) /\ p \in Nat /\ m = Wrap * p + Cut(m) /\ Wrap * p \in Nat
    BY <1>1, CutParts
  <1>4. m <= t + Slack + MaxDelay
    BY <1>1
  <1>. HIDE DEF m, p, q
  <1>5. ~(q < p)
    <2>1. SUFFICES ASSUME q < p PROVE FALSE
      OBVIOUS
    <2>2. Wrap * q + Wrap <= Wrap * p
      BY <1>2, <1>3, <2>1, RoundsApart
    <2> QED
      BY <1>1, <1>2, <1>3, <1>4, <2>2
  <1>6. CASE p < q
    <2>1. Wrap * p + Wrap <= Wrap * q
      BY <1>2, <1>3, <1>6, RoundsApart
    <2>2. m <= t
      BY <1>1, <1>2, <1>3, <2>1
    <2> QED
      BY <1>1, <1>2, <1>3, <2>2 DEF m
  <1>7. CASE p = q
    BY <1>1, <1>2, <1>3, <1>7 DEF m
  <1> QED
    BY <1>2, <1>3, <1>5, <1>6, <1>7

-----------------------------------------------------------------------------
(* What a turn knows of the time it was read at.                           *)
ReadInv ==
    /\ last # NoTurn => last.at <= now
    /\ turn # NoTurn => /\ turn.at <= now /\ wake <= turn.at
                        /\ last # NoTurn => last.at <= turn.at
    /\ before # NoTurn => last # NoTurn

(* next_packet is what 32 bits show of a moment that is not before the     *)
(* last message, and not after the wait.                                   *)
DueInv ==
    \E n \in Nat : /\ Cut(n) = next_packet
                   /\ last # NoTurn => last.at <= n
                   /\ n <= wake + Slack

(* The message after the last two may not go yet.                          *)
SecondInv ==
    before # NoTurn /\ ~AtWrap(last.at) =>
        LET allowed == before.at + last.delay - Slack IN
        IF turn # NoTurn THEN turn.at >= allowed
                         ELSE wake >= allowed \/ now >= allowed

PaceInv == PaceTypeOK /\ ReadInv /\ DueInv /\ SecondInv

LEMMA TurnTyped ==
  ASSUME PaceConstants, NEW t \in Turns \cup {NoTurn}, t # NoTurn
  PROVE  /\ t \in Turns /\ t.at \in Nat
         /\ t.delay \in Nat /\ t.delay \in 0..MaxDelay
  BY DEF Turns, PaceConstants

LEMMA TurnsTyped ==
  ASSUME PaceConstants, PaceInv
  PROVE  /\ now \in Nat /\ wake \in Int /\ next_packet \in Nat
         /\ Slack \in Nat /\ MaxDelay \in Nat
         /\ turn # NoTurn => /\ turn \in Turns /\ turn.at \in Nat /\ turn.delay \in Nat
                             /\ turn.delay \in 0..MaxDelay
         /\ last # NoTurn => /\ last \in Turns /\ last.at \in Nat /\ last.delay \in Nat
         /\ before # NoTurn => /\ before.at \in Nat
                               /\ last \in Turns /\ last.at \in Nat /\ last.delay \in Nat
  BY TurnTyped DEF PaceInv, PaceTypeOK, ReadInv, PaceConstants

LEMMA PaceInitInv == PaceConstants /\ PaceInit => PaceInv
  <1>. SUFFICES ASSUME PaceConstants, PaceInit PROVE PaceInv
    OBVIOUS
  <1>1. PaceTypeOK
    BY DEF PaceInit, PaceTypeOK, PaceConstants
  <1>2. ReadInv /\ SecondInv
    BY DEF PaceInit, ReadInv, SecondInv
  <1>3. DueInv
    <2>1. 0 \in 0..(Wrap - 1) /\ Wrap * 0 + 0 = 0
      BY DEF PaceConstants
    <2>2. Cut(0) = 0
      BY <2>1, CutIs
    <2> QED
      BY <2>2 DEF PaceInit, DueInv, PaceConstants
  <1> QED
    BY <1>1, <1>2, <1>3 DEF PaceInv

LEMMA PaceTimePasses ==
  ASSUME PaceConstants, PaceInv, TimePasses
  PROVE  PaceInv'
  <1>1. PaceTypeOK'
    BY DEF PaceInv, PaceTypeOK, TimePasses
  <1>2. ReadInv'
    BY TurnsTyped DEF PaceInv, ReadInv, TimePasses
  <1>3. DueInv'
    BY DEF PaceInv, DueInv, TimePasses, Cut
  <1>4. SecondInv'
    <2>. SUFFICES ASSUME before # NoTurn, ~AtWrap(last.at), turn = NoTurn
                  PROVE  \/ wake >= before.at + last.delay - Slack
                         \/ now + 1 >= before.at + last.delay - Slack
      BY DEF PaceInv, SecondInv, TimePasses, AtWrap, Cut
    <2> QED
      BY TurnsTyped DEF PaceInv, SecondInv
  <1> QED
    BY <1>1, <1>2, <1>3, <1>4 DEF PaceInv

LEMMA PaceBeginTurn ==
  ASSUME PaceConstants, PaceInv, BeginTurn
  PROVE  PaceInv'
  <1>. PICK delay \in 0..MaxDelay : turn' = [at |-> now, delay |-> delay]
    BY DEF BeginTurn
  <1>1. now \in Nat /\ turn' \in Turns /\ turn'.at = now /\ turn' # NoTurn
    BY TurnsTyped DEF Turns, PaceConstants
  <1>2. PaceTypeOK'
    BY <1>1 DEF PaceInv, PaceTypeOK, BeginTurn
  <1>3. ReadInv'
    BY <1>1 DEF PaceInv, ReadInv, BeginTurn
  <1>4. DueInv'
    BY DEF PaceInv, DueInv, BeginTurn, Cut
  <1>5. SecondInv'
    <2>. SUFFICES ASSUME before # NoTurn, ~AtWrap(last.at)
                  PROVE  now >= before.at + last.delay - Slack
      BY <1>1 DEF SecondInv, BeginTurn, AtWrap, Cut
    <2>1. \/ wake >= before.at + last.delay - Slack
          \/ now >= before.at + last.delay - Slack
      BY DEF PaceInv, SecondInv, BeginTurn
    <2> QED
      BY <2>1, TurnsTyped DEF BeginTurn
  <1> QED
    BY <1>2, <1>3, <1>4, <1>5 DEF PaceInv

(* A wait of some delay ends a turn, whatever moment it makes the next     *)
(* message due at.                                                         *)
LEMMA WaitKeeps ==
  ASSUME PaceConstants, PaceInv, turn # NoTurn,
         NEW next, NEW delay \in Nat, Wait(next, delay), Cut(turn.at + delay) = next
  PROVE  /\ now' = now /\ turn' = NoTurn /\ next_packet' = next
         /\ next \in 0..(Wrap - 1)
         /\ wake' \in Int /\ wake' + Slack = now + delay
         /\ turn.at + delay \in Nat /\ turn.at + delay <= wake' + Slack
  <1>1. turn \in Turns /\ turn.at \in Nat /\ now \in Nat /\ turn.at <= now
    BY DEF PaceInv, PaceTypeOK, Turns, ReadInv
  <1>2. turn.at + delay \in Nat
    BY <1>1
  <1>3. next \in 0..(Wrap - 1)
    BY <1>2, CutParts
  <1> QED
    BY <1>1, <1>2, <1>3 DEF Wait, PaceConstants

LEMMA CutSoon ==
  ASSUME PaceConstants, NEW t \in Nat, NEW r \in Nat
  PROVE  Cut(t + r) = Cut(Cut(t) + r)
  BY CutAdd

LEMMA PaceNotSent ==
  ASSUME PaceConstants, PaceInv, NotSent
  PROVE  PaceInv'
  <1>. DEFINE r == turn.delay
  <1>1. /\ turn # NoTurn /\ turn.at \in Nat /\ r \in 0..MaxDelay /\ r \in Nat
        /\ turn.at <= now /\ now \in Nat
    BY TurnsTyped DEF PaceInv, ReadInv, NotSent
  <1>2. Cut(turn.at + r) = Cut(current_time + r)
    BY <1>1, CutSoon DEF current_time
  <1>3. Wait(Cut(current_time + r), r) /\ before' = before /\ last' = last
    BY DEF NotSent
  <1>4. /\ now' = now /\ turn' = NoTurn /\ next_packet' = Cut(turn.at + r)
        /\ next_packet' \in 0..(Wrap - 1)
        /\ wake' \in Int
        /\ turn.at + r \in Nat /\ turn.at + r <= wake' + Slack
    BY <1>1, <1>2, <1>3, WaitKeeps
  <1>. HIDE DEF r
  <1>5. PaceTypeOK'
    BY <1>1, <1>3, <1>4 DEF PaceInv, PaceTypeOK
  <1>6. ReadInv'
    BY <1>3, <1>4 DEF PaceInv, ReadInv
  <1>7. DueInv'
    <2>1. last # NoTurn => last.at <= turn.at + r
      BY <1>1, TurnsTyped DEF PaceInv, ReadInv
    <2> QED
      BY <1>3, <1>4, <2>1 DEF DueInv, Cut
  <1>8. SecondInv'
    <2>. SUFFICES ASSUME before # NoTurn, ~AtWrap(last.at)
                  PROVE  now >= before.at + last.delay - Slack
      BY <1>3, <1>4 DEF SecondInv, AtWrap, Cut
    <2>1. turn.at >= before.at + last.delay - Slack
      BY <1>1 DEF PaceInv, SecondInv
    <2> QED
      BY <1>1, <2>1, TurnsTyped
  <1> QED
    BY <1>5, <1>6, <1>7, <1>8 DEF PaceInv

(* The three ways to wait after a message.                                 *)
LEMMA WaitAfterSend ==
  ASSUME PaceConstants, PaceInv, Sent
  PROVE  \E delay \in Nat :
            /\ Wait(Cut(turn.at + delay), delay)
            /\ delay <= turn.delay \/ delay = 1
            /\ \/ Due <= current_time
               \/ delay = turn.delay
               \/ delay = Due - current_time
  <1>. DEFINE r == turn.delay
              due == Due
              c == current_time
  <1>1. /\ turn \in Turns /\ turn.at \in Nat /\ r \in Nat /\ next_packet \in Nat
    BY DEF PaceInv, PaceTypeOK, Turns, Sent, PaceConstants
  <1>2. due \in 0..(Wrap - 1) /\ due \in Nat /\ c \in Nat
    <2>1. next_packet + r \in Nat
      BY <1>1
    <2> QED
      BY <1>1, <2>1, CutParts DEF Due, current_time
  <1>3. CASE WhenBehind
    <2>1. Cut(turn.at + 1) = Cut(c + 1)
      BY <1>1, CutSoon DEF current_time
    <2> QED
      BY <1>3, <2>1 DEF WhenBehind
  <1>4. CASE WhenDue
    <2>1. due > c /\ due - c \in Nat /\ due - c <= r
      BY <1>2, <1>4 DEF WhenDue
    <2>2. Cut(turn.at + (due - c)) = due
      BY <1>1, <1>2, <2>1, CutAhead DEF current_time
    <2> QED
      BY <1>4, <2>1, <2>2 DEF WhenDue
  <1>5. CASE WhenTooFar
    <2>1. Cut(turn.at + r) = Cut(c + r)
      BY <1>1, CutSoon DEF current_time
    <2> QED
      BY <1>1, <1>5, <2>1 DEF WhenTooFar
  <1> QED
    BY <1>3, <1>4, <1>5 DEF Sent

LEMMA PaceSent ==
  ASSUME PaceConstants, PaceInv, Sent
  PROVE  PaceInv'
  <1>. DEFINE r == turn.delay
  <1>. PICK delay \in Nat :
          /\ Wait(Cut(turn.at + delay), delay)
          /\ delay <= turn.delay \/ delay = 1
          /\ \/ Due <= current_time
             \/ delay = turn.delay
             \/ delay = Due - current_time
    BY WaitAfterSend
  <1>1. /\ turn # NoTurn /\ turn \in Turns /\ turn.at \in Nat /\ r \in 0..MaxDelay /\ r \in Nat
        /\ now \in Nat /\ turn.at <= now /\ wake <= turn.at
    BY TurnsTyped DEF PaceInv, ReadInv, Sent
  <1>2. /\ now' = now /\ turn' = NoTurn /\ next_packet' = Cut(turn.at + delay)
        /\ next_packet' \in 0..(Wrap - 1)
        /\ wake' \in Int /\ wake' + Slack = now + delay
        /\ turn.at + delay \in Nat /\ turn.at + delay <= wake' + Slack
    BY <1>1, WaitKeeps
  <1>3. before' = last /\ last' = turn
    BY DEF Sent
  <1>. HIDE DEF r
  <1>4. PaceTypeOK'
    BY <1>1, <1>2, <1>3 DEF PaceInv, PaceTypeOK
  <1>5. ReadInv'
    BY <1>1, <1>2, <1>3 DEF ReadInv
  <1>6. DueInv'
    <2>1. turn.at <= turn.at + delay
      BY <1>1
    <2> QED
      BY <1>2, <1>3, <2>1 DEF DueInv, Cut
  <1>7. SecondInv'
    <2>. SUFFICES ASSUME last # NoTurn, ~AtWrap(turn.at)
                  PROVE  wake' >= last.at + r - Slack
      BY <1>2, <1>3 DEF SecondInv, AtWrap, Cut, r
    <2>. PICK n \in Nat : /\ Cut(n) = next_packet /\ last.at <= n /\ n <= wake + Slack
      BY DEF PaceInv, DueInv
    <2>1. n <= turn.at + Slack /\ last.at \in Nat
      BY <1>1, TurnsTyped
    <2>2. Due = Cut(n + r)
      BY <1>1, CutAdd DEF Due, r
    <2>3. /\ Cut(n + r) <= current_time => n + r <= turn.at
          /\ Cut(n + r) > current_time => n + r <= turn.at + (Cut(n + r) - current_time)
      BY <1>1, <2>1, NotEarly DEF current_time
    <2>4. Due \in Nat /\ current_time \in Nat
      <3>1. n + r \in Nat
        BY <1>1
      <3> QED
        BY <1>1, <2>2, <3>1, CutParts DEF current_time
    <2>5. last.at + r <= now + delay
      <3>1. CASE Due <= current_time
        BY <1>1, <2>1, <2>2, <2>3, <3>1
      <3>2. CASE delay = r
        BY <1>1, <2>1, <3>2 DEF PaceInv, ReadInv
      <3>3. CASE Due > current_time /\ delay = Due - current_time
        <4>1. n + r <= turn.at + delay
          BY <2>2, <2>3, <3>3
        <4> QED
          BY <1>1, <2>1, <4>1
      <3> QED
        BY <2>4, <3>1, <3>2, <3>3 DEF r
    <2>6. last.at + r <= wake' + Slack
      BY <1>2, <2>5
    <2>7. Slack \in Nat /\ wake' \in Int
      BY <1>2, TurnsTyped
    <2> QED
      BY <1>1, <2>1, <2>6, <2>7
  <1> QED
    BY <1>4, <1>5, <1>6, <1>7 DEF PaceInv

LEMMA PaceStep == PaceConstants /\ PaceInv /\ [PaceNext]_pace_vars => PaceInv'
  <1>. SUFFICES ASSUME PaceConstants, PaceInv, [PaceNext]_pace_vars PROVE PaceInv'
    OBVIOUS
  <1>1. CASE TimePasses
    BY <1>1, PaceTimePasses
  <1>2. CASE BeginTurn
    BY <1>2, PaceBeginTurn
  <1>3. CASE Sent
    BY <1>3, PaceSent
  <1>4. CASE NotSent
    BY <1>4, PaceNotSent
  <1>5. CASE UNCHANGED pace_vars
    BY <1>5 DEF pace_vars, PaceInv, PaceTypeOK, ReadInv, DueInv, SecondInv,
                AtWrap, Cut
  <1> QED
    BY <1>1, <1>2, <1>3, <1>4, <1>5 DEF PaceNext

LEMMA PaceAlways == ASSUME PaceConstants PROVE PaceSpec => []PaceInv
  BY PaceInitInv, PaceStep, PTL DEF PaceSpec

(* Of three messages in a row the last is a whole delay after the first,   *)
(* for any width of the clock, any ticks and any delays, except at a wrap. *)
THEOREM PaceIsKept ==
  ASSUME PaceConstants
  PROVE  PaceSpec => []Paced
  <1>1. PaceInv => Paced
    <2>. SUFFICES ASSUME PaceInv, turn # NoTurn, before # NoTurn, ~AtWrap(last.at)
                  PROVE  turn.at + Slack >= before.at + last.delay
      BY DEF Paced
    <2>1. turn.at >= before.at + last.delay - Slack
      BY DEF PaceInv, SecondInv
    <2> QED
      BY <2>1, TurnsTyped
  <1> QED
    BY <1>1, PaceAlways, PTL

(* No wait is longer than the delay of its turn, or 1 ms, wherever the     *)
(* clock is and however old next_packet.                                   *)
THEOREM PaceHasNoLongWait ==
  ASSUME PaceConstants
  PROVE  PaceSpec => NoLongWait
  <1>. DEFINE Short == turn # NoTurn /\ turn' = NoTurn
                           => \/ wake' + Slack - now <= turn.delay
                              \/ wake' + Slack - now = 1
  <1>1. PaceInv /\ [PaceNext]_pace_vars => [Short]_pace_vars
    <2>. SUFFICES ASSUME PaceInv, PaceNext, turn # NoTurn, turn' = NoTurn
                  PROVE  \/ wake' + Slack - now <= turn.delay
                         \/ wake' + Slack - now = 1
      OBVIOUS
    <2>1. turn \in Turns /\ turn.at \in Nat /\ turn.delay \in Nat /\ now \in Nat
      BY TurnsTyped
    <2>2. CASE Sent
      <3>. PICK delay \in Nat : Wait(Cut(turn.at + delay), delay)
                                /\ (delay <= turn.delay \/ delay = 1)
        BY <2>2, WaitAfterSend
      <3> QED
        BY <2>1 DEF Wait, PaceConstants
    <2>3. CASE NotSent
      BY <2>1, <2>3 DEF NotSent, Wait, PaceConstants
    <2> QED
      BY <2>2, <2>3 DEF PaceNext, TimePasses, BeginTurn
  <1> QED
    BY <1>1, PaceAlways, PTL DEF PaceSpec, NoLongWait
=============================================================================
