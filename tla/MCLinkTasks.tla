----------------------------- MODULE MCLinkTasks -----------------------------
(* TLC instance of LinkTasks: messages of a few frames for either bus, a   *)
(* queue of two.                                                           *)
EXTENDS LinkTasks
=============================================================================
