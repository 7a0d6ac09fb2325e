------------------------------- MODULE MCTask -------------------------------
(* Instances of Task for TLC.                                              *)
EXTENDS Task, TLC

CONSTANTS o1, o2, p1, p2, c, q1, q2, a

(* Two performers with one offer each.                                     *)
MCBy == (o1 :> p1) @@ (o2 :> p2)

ActorOfSlot ==
  (c :> "customer") @@ (q1 :> p1) @@ (q2 :> p2) @@ (a :> "admin")

(* The slots of a run, and who acts in them.                               *)
MCActor == [s \in Slots |-> ActorOfSlot[s]]
=============================================================================
