---------------------------- MODULE ClusterMaster ----------------------------
(***************************************************************************)
(* What the master election promises to the rest of NavCaster: one node at *)
(* a time distributes relay tasks, and the role is never handed from node  *)
(* to node directly; it is vacant in between.                              *)
(***************************************************************************)
CONSTANTS Node, NoNode

VARIABLE master

Init == master = NoNode

\* Redis_KeepMaster_Callback: "confirmed as MASTER".
Acquire(n) == master = NoNode /\ master' = n

\* The holder dies or finds its renewal lost.
Lose == master # NoNode /\ master' = NoNode

Next == Lose \/ \E n \in Node : Acquire(n)

Spec == Init /\ [][Next]_master
=============================================================================
