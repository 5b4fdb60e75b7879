---------------------------- MODULE PersistPace ----------------------------
(***************************************************************************)
(* The pace of a persist_task (persist.c:317-344): how long it waits from  *)
(* one message to the next.  Persist leaves the time out and lets a task   *)
(* go on whenever it likes; here is one task and the clock it reads.       *)
(*                                                                         *)
(* next_packet, what the task compares it with and what it adds are 32-bit *)
(* milliseconds, which start again from 0 after 49.7 days.  The delay may  *)
(* change at every turn: a client sets it, and it grows with the BLE queue.*)
(***************************************************************************)
EXTENDS Integers

CONSTANTS
    Wrap,      \* 2^32: what a uint32_t counts up to
    MaxDelay,  \* the longest required_delay
    Slack,     \* by how many ms vTaskDelay may return early: it rounds down to
               \* ticks, and the first tick has already begun
    MaxTime,   \* bound: milliseconds in a behaviour
    NoTurn

PaceConstants ==
    /\ Wrap \in Nat \ {0} /\ MaxDelay \in Nat /\ Slack \in Nat
    /\ MaxDelay + Slack < Wrap
    /\ MaxTime \in Nat
    /\ NoTurn \notin [at : Nat, delay : 0..MaxDelay]

VARIABLES
    now,          \* esp_timer_get_time() / 1000
    next_packet,
    turn,         \* the locals of the loop's turn: when the time was read, and
                  \* required_delay; NoTurn: in vTaskDelay or at send_sema
    wake,         \* the first moment vTaskDelay may return
    before, last  \* history: the turns of the last two messages

pace_vars == <<now, next_packet, turn, wake, before, last>>

Cut(ms) == ms % Wrap

current_time == Cut(turn.at)

PaceInit ==
    /\ now = 0 /\ wake = 0 /\ next_packet = 0
    /\ turn = NoTurn /\ before = NoTurn /\ last = NoTurn

-----------------------------------------------------------------------------
TimePasses ==
    /\ now < MaxTime /\ now' = now + 1
    /\ UNCHANGED <<next_packet, turn, wake, before, last>>

\* vTaskDelay and then xSemaphoreTake return, the delay and the time are read.
BeginTurn ==
    /\ turn = NoTurn /\ now >= wake
    /\ \E delay \in 0..MaxDelay : turn' = [at |-> now, delay |-> delay]
    /\ UNCHANGED <<now, next_packet, wake, before, last>>

\* The end of a turn: vTaskDelay(delay).
Wait(next, delay) ==
    /\ next_packet' = next
    /\ wake' = now + delay - Slack
    /\ turn' = NoTurn
    /\ UNCHANGED now

Due == Cut(next_packet + turn.delay)

\* The next message should have gone already: it goes at once, and the task
\* counts from there.
WhenBehind ==
    /\ Due <= current_time
    /\ Wait(Cut(current_time + 1), 1)

WhenDue ==
    /\ Due > current_time /\ Due - current_time <= turn.delay
    /\ Wait(Due, Due - current_time)

\* Never further ahead than one delay.
WhenTooFar ==
    /\ Due > current_time /\ Due - current_time > turn.delay
    /\ Wait(Cut(current_time + turn.delay), turn.delay)

\* persist_send queued a message ...
Sent ==
    /\ turn # NoTurn
    /\ WhenBehind \/ WhenDue \/ WhenTooFar
    /\ before' = last /\ last' = turn

\* ... or did not.
NotSent ==
    /\ turn # NoTurn
    /\ Wait(Cut(current_time + turn.delay), turn.delay)
    /\ UNCHANGED <<before, last>>

PaceNext == TimePasses \/ BeginTurn \/ Sent \/ NotSent

PaceSpec == PaceInit /\ [][PaceNext]_pace_vars

-----------------------------------------------------------------------------
Turns == [at : Nat, delay : 0..MaxDelay]

PaceTypeOK ==
    /\ now \in Nat /\ wake \in Int
    /\ next_packet \in 0..(Wrap - 1)
    /\ turn \in Turns \cup {NoTurn}
    /\ before \in Turns \cup {NoTurn} /\ last \in Turns \cup {NoTurn}

(* Whenever the clock wraps and however old next_packet is, a turn ends    *)
(* with a wait no longer than its delay, or 1 ms: a task never sleeps      *)
(* until the clock comes round again.                                      *)
NoLongWait ==
    [][turn # NoTurn /\ turn' = NoTurn
           => \/ wake' + Slack - now <= turn.delay
              \/ wake' + Slack - now = 1]_pace_vars

\* The last moments of the 49.7 days.
AtWrap(ms) == Cut(ms) + MaxDelay + Slack >= Wrap

(* A task that is late makes up for one message and no more: of three      *)
(* messages in a row the last is a whole delay after the first, but for    *)
(* what vTaskDelay rounds off. Not so just before the clock wraps: what    *)
(* next_packet has wrapped to is taken for the past, and a turn that sends *)
(* ends with a wait of 1 ms.                                               *)
Paced ==
    turn # NoTurn /\ before # NoTurn /\ ~AtWrap(last.at)
        => turn.at + Slack >= before.at + last.delay
=============================================================================
