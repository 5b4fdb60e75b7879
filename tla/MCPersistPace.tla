--------------------------- MODULE MCPersistPace ---------------------------
(* TLC instance of PersistPace: a clock that wraps every 8 ms.             *)
EXTENDS PersistPace
=============================================================================
