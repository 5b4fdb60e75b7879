------------------------------ MODULE MCMcp2515 ------------------------------
(* TLC instance of Mcp2515.  Links and None are model values.              *)
EXTENDS Mcp2515
=============================================================================
