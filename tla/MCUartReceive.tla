---------------------------- MODULE MCUartReceive ----------------------------
(* TLC instances of UartReceive: a header of two bytes, a ring of six,     *)
(* events of up to three bytes; packets with and without data.             *)
EXTENDS UartReceive

MCShortLengths == {2, 3}
=============================================================================
