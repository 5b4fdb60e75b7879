-------------------------- MODULE MCIsoTpReceiver ----------------------------
(* TLC instance of IsoTpReceiver: frames carry two bytes, sequence numbers *)
(* wrap at two, a block is two frames; a message of seven bytes takes a    *)
(* first and three consecutive frames.                                     *)
EXTENDS IsoTpReceiver

MCSizes == {0, 2, 5, 7, 8}
MCRooms == {1, 2}
=============================================================================
