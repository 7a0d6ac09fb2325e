-------------------------- MODULE DisputeProtocol --------------------------
(***************************************************************************)
(* What the dispute procedure of app/disputes.py promises the two sides of *)
(* a chat thread, with no rows, snapshots, threads or model slots: stages, *)
(* answers owed, options backed, consents given.                           *)
(***************************************************************************)
EXTENDS Naturals

CONSTANTS
  Disputes,   \* the disputes of the thread
  Kinds       \* the options proposed in a round

Role == {"customer", "performer"}

VARIABLE case

Final == {"conceded", "settled"}
Live == {"opened", "mediation", "asking", "choosing", "confirming",
         "escalated"}

NoBacking == [p \in Role |-> {}]
Unopened == [stage |-> "none", round |-> 1, owed |-> {},
             backing |-> NoBacking, offer |-> {}, consent |-> {}]

Case == [stage   : {"none"} \cup Live \cup Final,
         round   : {1, 2},
         owed    : SUBSET Role,                 \* who still has to answer
         backing : [Role -> SUBSET Kinds],      \* options chosen this round
         offer   : SUBSET Kinds,                \* the option to be confirmed
         consent : SUBSET Role]

Init == case = [d \in Disputes |-> Unopened]

Become(d, new) == case' = [case EXCEPT ![d] = new]

----------------------------------------------------------------------------

Open(d) ==                      \* open_dispute
  /\ case[d].stage = "none"
  /\ \A e \in Disputes : case[e].stage \notin Live
  /\ Become(d, [Unopened EXCEPT !.stage = "opened"])

Concede(d) ==                   \* counterparty_accept
  /\ case[d].stage = "opened"
  /\ Become(d, [case[d] EXCEPT !.stage = "conceded"])

Lapse(d) ==                     \* _transition_to_moderator_timeout
  /\ case[d].stage = "opened"
  /\ Become(d, [case[d] EXCEPT !.stage = "escalated"])

Contest(d) ==                   \* counterparty_submit_form
  /\ case[d].stage = "opened"
  /\ Become(d, [case[d] EXCEPT !.stage = "mediation"])

Ask(d) ==                       \* process_dispute_model_turn, questions
  /\ case[d].stage = "mediation"
  /\ case[d].round = 1
  /\ \E ps \in (SUBSET Role) \ {{}} :
       Become(d, [case[d] EXCEPT !.stage = "asking", !.owed = ps])

Answer(d) ==                    \* capture_clarification_answer...
  /\ case[d].stage = "asking"
  /\ \E p \in case[d].owed : Become(d, [case[d] EXCEPT !.owed = @ \ {p}])

Heard(d) ==                     \* all answers are in
  /\ case[d].stage = "asking"
  /\ case[d].owed = {}
  /\ Become(d, [case[d] EXCEPT !.stage = "mediation"])

Propose(d) ==                   \* process_dispute_model_turn, options
  /\ case[d].stage = "mediation"
  /\ Become(d, [case[d] EXCEPT !.stage = "choosing", !.backing = NoBacking])

GiveUp(d) ==                    \* process_dispute_model_turn, an exception
  /\ case[d].stage = "mediation"
  /\ Become(d, [case[d] EXCEPT !.stage = "escalated"])

Back(d) ==                      \* select_settlement_option
  /\ case[d].stage = "choosing"
  /\ \E p \in Role, ks \in (SUBSET Kinds) \ {{}} :
       Become(d, [case[d] EXCEPT !.backing[p] = ks])

BothBacked(d) == \A p \in Role : case[d].backing[p] # {}
Agreed(d) == {k \in Kinds : \A p \in Role : k \in case[d].backing[p]}

Agree(d) ==                     \* an option both sides back
  /\ case[d].stage = "choosing"
  /\ \E k \in Agreed(d) :
       Become(d, [case[d] EXCEPT !.stage = "confirming", !.offer = {k},
                                 !.consent = {}])

Disagree(d) ==                  \* one more round, then a moderator
  /\ case[d].stage = "choosing"
  /\ BothBacked(d)
  /\ Agreed(d) = {}
  /\ Become(d, IF case[d].round = 1
                 THEN [case[d] EXCEPT !.stage = "mediation", !.round = 2,
                                      !.backing = NoBacking]
                 ELSE [case[d] EXCEPT !.stage = "escalated"])

Consent(d) ==                   \* submit_final_acceptance, yes
  /\ case[d].stage = "confirming"
  /\ \E p \in Role \ case[d].consent :
       LET all == case[d].consent \cup {p} IN
       Become(d, [case[d] EXCEPT
                    !.consent = all,
                    !.stage = IF all = Role THEN "settled" ELSE @])

Refuse(d) ==                    \* submit_final_acceptance, no
  /\ case[d].stage = "confirming"
  /\ \E p \in Role :
       Become(d, [case[d] EXCEPT !.stage = "escalated",
                                 !.consent = @ \ {p}])

----------------------------------------------------------------------------

Step(d) ==
  \/ Open(d) \/ Concede(d) \/ Lapse(d) \/ Contest(d)
  \/ Ask(d) \/ Answer(d) \/ Heard(d) \/ Propose(d) \/ GiveUp(d)
  \/ Back(d) \/ Agree(d) \/ Disagree(d)
  \/ Consent(d) \/ Refuse(d)

Next == \E d \in Disputes : Step(d)

Spec == Init /\ [][Next]_case
=============================================================================
