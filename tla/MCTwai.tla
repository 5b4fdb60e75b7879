-------------------------------- MODULE MCTwai -------------------------------
(* TLC instance of Twai.  Links and Nobody are model values.               *)
EXTENDS Twai
=============================================================================
