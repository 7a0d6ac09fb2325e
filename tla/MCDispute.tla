----------------------------- MODULE MCDispute -----------------------------
(* Instances of Dispute for TLC.                                           *)
EXTENDS DisputeSerial, TLC

CONSTANTS d1, d2, k1, k2, c1, c2, p1, p2, a1, w1, w2

ActorOfSlot ==
  (c1 :> "customer") @@ (c2 :> "customer") @@
  (p1 :> "performer") @@ (p2 :> "performer") @@ (a1 :> "admin")

(* The slots of a run, and who acts in them.                               *)
MCActor == [s \in Slots |-> ActorOfSlot[s]]

(* Ballots: every set of options; or a customer who insists on k1 and a    *)
(* performer who wavers; or a single option, so that the sides agree.      *)
AnyBallot == [p \in Role |-> (SUBSET Kinds) \ {{}}]
WaveringBallot == [customer |-> {{k1}}, performer |-> {{k1}, {k2}}]
OneBallot == [p \in Role |-> {{k1}}]

(* Turns are interchangeable.                                              *)
MCSymmetry == Permutations(Turns)

(* Either one dispute and a performer who wavers, or two disputes and      *)
(* sides that agree on k1.                                                 *)
OneOrAgreed ==
  \/ Cardinality({d \in Disputes : row[d].status # "absent"}) <= 1
  \/ \A d \in Disputes, r \in {1, 2} : k2 \notin past[d].chose[r]["performer"]
=============================================================================
