--------------------------- MODULE DisputeSerial ---------------------------
(***************************************************************************)
(* What the dispute procedure delivers when the users' requests on the     *)
(* thread do not overlap (Overlap = FALSE): model turns, moderators and    *)
(* faults interleave with them and with each other as before.  The code    *)
(* does not enforce this; as long as it is the case, the procedure         *)
(* implements DisputeProtocol.                                             *)
(***************************************************************************)
EXTENDS Dispute

----------------------------------------------------------------------------
(* The case a row stands for.                                              *)

StageOf(status) ==
  CASE status = "absent"                        -> "none"
    [] status = "open_waiting_counterparty"     -> "opened"
    [] status = "model_thinking"                -> "mediation"
    [] status = "waiting_clarification_answers" -> "asking"
    [] status \in Voting                        -> "choosing"
    [] status = "waiting_final_acceptance"      -> "confirming"
    [] status = "awaiting_moderator"            -> "escalated"
    [] status = "closed_by_acceptance"          -> "conceded"
    [] status = "resolved"                      -> "settled"

CaseOf(r) ==
  [stage   |-> StageOf(r.status),
   round   |-> r.round,
   owed    |-> IF r.status = "waiting_clarification_answers"
                 THEN Required(r) \ r.answers ELSE {},
   backing |-> r.votes[r.round],
   offer   |-> r.selected,
   consent |-> {p \in Role : r.hook.final[p] = "accepted"}]

Cases == [d \in Disputes |-> CaseOf(row[d])]

Protocol == INSTANCE DisputeProtocol WITH case <- Cases

----------------------------------------------------------------------------
(* Properties of serial behaviours.                                        *)

(* Every step of the handlers, model turns, moderators, failures and       *)
(* restarts is a step of the protocol the users are told about, or changes *)
(* nothing they can see.                                                   *)
ImplementsProtocol == Protocol!Spec

Due(d, pc) == \E s \in Slots : loc[s].pc = pc /\ loc[s].d = d

(* A dispute never waits for a side that has already done its part: once   *)
(* both have voted, all required answers are in, or both have accepted, the*)
(* row moves on, unless the request that has to move it died.              *)
NobodyWaitsInVain ==
  faults = 0 =>
    \A d \in Disputes :
      /\ (row[d].status \in Voting /\ BothVoted(row[d])) => Due(d, "advance")
      /\ (row[d].status = "waiting_clarification_answers"
            /\ Required(row[d]) \subseteq row[d].answers) => Due(d, "complete")
      /\ row[d].status = "waiting_final_acceptance"
           => \E p \in Role : row[d].hook.final[p] # "accepted"
=============================================================================
