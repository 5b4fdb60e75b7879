------------------------------ MODULE MCClients ------------------------------
(* TLC instance of Clients: a time-out of three ticks, two links.           *)
EXTENDS Clients
=============================================================================
