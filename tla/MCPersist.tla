------------------------------ MODULE MCPersist ------------------------------
(* TLC instance of Persist: two slots, lists of at most two messages, a    *)
(* queue of one.  Payloads and slots are alike: b is only ever added, and  *)
(* to slot 0, slot 1 only gets a message that competes for the queue.      *)
EXTENDS Persist
CONSTANTS a, b
MCOffered ==
    {p \in Packets :
       \/ p.link = 0 /\ p.data = a /\ p.add
       \/ p.link = 0 /\ p.data = NoData /\ ~p.add /\ ~p.clear
       \/ /\ p.add /\ ~p.clear /\ ~p.enable
          /\ <<p.link, p.data>> \in {<<0, b>>, <<1, a>>}}
=============================================================================
