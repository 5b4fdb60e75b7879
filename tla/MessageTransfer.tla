--------------------------- MODULE MessageTransfer ---------------------------
(***************************************************************************)
(* What an ISO-TP link promises the two applications it joins, whatever    *)
(* happens to the frames: a message that is handed over is one that was    *)
(* offered, whole and unmixed with any other; messages are handed over in  *)
(* the order they were offered, each at most once.  Messages may be lost.  *)
(***************************************************************************)
EXTENDS Integers, Sequences

CONSTANT Sizes            \* the sizes of messages that are offered

VARIABLES
    offered,              \* the size of each message offered, in order
    delivered,            \* the contents handed over, in order
    newest                \* the number of the last message handed over

\* The bytes of message id.
Payload(id, size) == [i \in 0..(size - 1) |-> <<id, i>>]

Init == offered = <<>> /\ delivered = <<>> /\ newest = 0

Offer(size) ==
    /\ offered' = Append(offered, size)
    /\ UNCHANGED <<delivered, newest>>

Deliver(id) ==
    /\ id > newest
    /\ delivered' = Append(delivered, Payload(id, offered[id]))
    /\ newest' = id
    /\ UNCHANGED offered

Next == \/ \E size \in Sizes : Offer(size)
        \/ \E id \in DOMAIN offered : Deliver(id)

Spec == Init /\ [][Next]_<<offered, delivered, newest>>
=============================================================================
