--------------------------- MODULE MCIsoTpSender -----------------------------
(* TLC instance of IsoTpSender: frames carry three bytes, sequence numbers *)
(* wrap at three, so five consecutive frames wrap them and need more than  *)
(* one block; an abandoned message is followed by another.                 *)
EXTENDS IsoTpSender

MCSizes == {3, 7, 11}
MCBlockSizes == {0, 1, 2}
MCStMins == {0, 1}
=============================================================================
