------------------------------ MODULE MCBleSend ------------------------------
(* TLC instance of BleSend: a header of two bytes, MTUs that leave four or *)
(* seven, so that two short messages share a notification and a long one   *)
(* takes up to three.                                                      *)
EXTENDS BleSend

MCRooms == {7}
MCSizes == {1, 5}
=============================================================================
