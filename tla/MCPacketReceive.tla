--------------------------- MODULE MCPacketReceive ---------------------------
(* TLC instance of PacketReceive: a header of two bytes and writes of six, *)
(* so that two short packets share one and a long one takes a head and two *)
(* parts.  The buffer of prepared writes holds ten, one less than the      *)
(* longest packet.  Setting 1 has a fixed size, and is too large for what  *)
(* another packet leaves of a write; 8, whose number has the bit of split  *)
(* packets, may be as long as the name it carries; 9 is 1 with that bit.   *)
EXTENDS PacketReceive

MCSettingSizes == [s \in {1, 8, 9} |-> CASE s = 1 -> {2} [] s = 8 -> 0..9 [] s = 9 -> 1..9]

Ask(kind, number, size) == [kind |-> kind, number |-> number, size |-> size]

MCAsks == {Ask("message", 0, 1), Ask("message", 0, 5), Ask("persist", 0, 0), Ask("persist", 0, 5),
           Ask("set", 1, 2), Ask("set", 1, 1), Ask("set", 8, 9), Ask("set", 9, 1),
           Ask("get", 1, 0)}
=============================================================================
