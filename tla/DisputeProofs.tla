--------------------------- MODULE DisputeProofs ---------------------------
(***************************************************************************)
(* Proofs about Dispute, for any number of disputes, options, slots, turns *)
(* and faults: type correctness, exclusion of model turns, and that no     *)
(* outcome is imposed on a side, however the requests overlap.             *)
(***************************************************************************)
EXTENDS Dispute, FiniteSetTheorems, TLAPS

----------------------------------------------------------------------------
(* Rows and drafts keep their type.                                        *)

LEMMA NoDisputeType == NoDispute \in Disputes
  BY DisputesAssumption DEF NoDispute

LEMMA BlankType ==
  /\ Blank \in Row
  /\ \A status \in Status, p \in Role : NewRow(status, p) \in Row
  <1>1. NoFinal \in [Role -> {"none", "accepted", "rejected"}]
    BY DEF NoFinal
  <1>2. NoHook \in Hook
    BY <1>1 DEF NoHook, Hook
  <1>3. [r \in {1, 2} |-> NoVotes] \in [{1, 2} -> [Role -> SUBSET Kinds]]
    BY DEF NoVotes
  <1>4. \A status \in Status, p \in Role : NewRow(status, p) \in Row
    BY <1>2, <1>3 DEF NewRow, Row
  <1>5. "absent" \in Status /\ "customer" \in Role
    BY DEF Status, Role
  <1> QED BY <1>4, <1>5 DEF Blank

LEMMA PendingType == Pending \in Hook /\ NoHook \in Hook
  BY DEF Pending, NoHook, Hook, NoFinal

LEMMA NoVotesType == NoVotes \in [Role -> SUBSET Kinds]
  BY DEF NoVotes

LEMMA IdleType == IdleLoc \in Loc /\ IdleTurn \in Turn
  BY NoDisputeType, BlankType
     DEF IdleLoc, IdleTurn, Loc, Turn, RequestPC, TurnPC, Free

(* The columns a statement sets, one at a time.                            *)
LEMMA RowUpdates ==
  ASSUME NEW r \in Row
  PROVE  /\ \A status \in Status : [r EXCEPT !.status = status] \in Row
         /\ \A n \in {1, 2} : [r EXCEPT !.round = n] \in Row
         /\ \A ps \in SUBSET Role : [r EXCEPT !.asked = ps] \in Row
         /\ \A ps \in SUBSET Role : [r EXCEPT !.answers = ps] \in Row
         /\ \A ns \in SUBSET {1, 2} : [r EXCEPT !.ready = ns] \in Row
         /\ \A vs \in [{1, 2} -> [Role -> SUBSET Kinds]] :
              [r EXCEPT !.votes = vs] \in Row
         /\ \A ks \in SUBSET Kinds : [r EXCEPT !.selected = ks] \in Row
         /\ \A h \in Hook : [r EXCEPT !.hook = h] \in Row
  BY DEF Row

LEMMA BeginType ==
  ASSUME TypeOK, NEW s \in Slots, NEW d \in Disputes, NEW pc \in RequestPC,
         NEW draft \in Row, Begin(s, d, pc, draft)
  PROVE  loc' \in [Slots -> Loc]
  BY DEF TypeOK, Begin, Loc

LEMMA WriteType ==
  ASSUME TypeOK, NEW s \in Slots, NEW d \in Disputes, NEW new \in Row,
         NEW pc \in RequestPC, Write(s, d, new, pc)
  PROVE  row' \in [Disputes -> Row] /\ loc' \in [Slots -> Loc]
  <1>1. CASE IndexAllows(d, new.status)
    <2>1. row' = [row EXCEPT ![d] = new]
      BY <1>1 DEF Write
    <2>2. row' \in [Disputes -> Row]
      BY <2>1 DEF TypeOK
    <2>3. Finish(s) \/ Goto(s, pc)
      BY <1>1 DEF Write
    <2>4. loc' \in [Slots -> Loc]
      BY <2>3, IdleType DEF TypeOK, Finish, Goto, Loc
    <2> QED BY <2>2, <2>4
  <1>2. CASE ~IndexAllows(d, new.status)
    BY <1>2, IdleType DEF Write, Finish, TypeOK
  <1> QED BY <1>1, <1>2

----------------------------------------------------------------------------
(* Type correctness.                                                       *)

LEMMA SilenceType == Silence \in Past
  <1>1. [r \in {1, 2} |-> NoVotes] \in [{1, 2} -> [Role -> SUBSET Kinds]]
    BY NoVotesType
  <1> QED BY <1>1 DEF Silence, Past

LEMMA InitType == Init => TypeOK
  <1> SUFFICES ASSUME Init PROVE TypeOK
    OBVIOUS
  <1>1. row \in [Disputes -> Row]
    BY BlankType DEF Init, Blank
  <1>2. loc \in [Slots -> Loc] /\ turn \in [Turns -> Turn]
    BY IdleType DEF Init
  <1>3. past \in [Disputes -> Past]
    BY SilenceType DEF Init
  <1>4. faults \in 0..MaxFaults
    BY MaxFaultsAssumption DEF Init
  <1> QED BY <1>1, <1>2, <1>3, <1>4 DEF Init, TypeOK

(* A request that begins: its draft is a row, the history keeps its type.  *)
LEMMA RequestType ==
  ASSUME TypeOK, NEW s \in Slots, Request(s)
  PROVE  TypeOK'
  <1> USE ActorAssumption
  <1>1. ASSUME ReadOpen(s) PROVE TypeOK'
    <2>1. NewRow("open_waiting_counterparty", Actor[s]) \in Row
      BY <1>1, BlankType DEF ReadOpen, Status, Active
    <2>2. loc' \in [Slots -> Loc]
      BY <1>1, <2>1, NoDisputeType, BeginType DEF ReadOpen, RequestPC
    <2> QED BY <1>1, <2>2 DEF ReadOpen, Begin, TypeOK
  <1>2. ASSUME NEW d \in Disputes, ReadOverdue(s, d) PROVE TypeOK'
    <2>1. loc' \in [Slots -> Loc]
      BY <1>2, BlankType, BeginType DEF ReadOverdue, RequestPC
    <2> QED BY <1>2, <2>1 DEF ReadOverdue, Begin, TypeOK
  <1>3. ASSUME NEW d \in Disputes, ReadAccept(s, d) PROVE TypeOK'
    <2>1. loc' \in [Slots -> Loc]
      BY <1>3, BlankType, BeginType DEF ReadAccept, RequestPC
    <2>2. Actor[s] \in Role
      BY <1>3 DEF ReadAccept, CounterpartyMayAnswer, Other, Role
    <2>3. past' \in [Disputes -> Past]
      BY <1>3, <2>2 DEF ReadAccept, TypeOK, Past
    <2> QED BY <1>3, <2>1, <2>3 DEF ReadAccept, Begin, TypeOK
  <1>4. ASSUME NEW d \in Disputes, ReadRespond(s, d) PROVE TypeOK'
    <2>1. loc' \in [Slots -> Loc]
      BY <1>4, BlankType, BeginType DEF ReadRespond, RequestPC
    <2> QED BY <1>4, <2>1 DEF ReadRespond, Begin, TypeOK
  <1>5. ASSUME NEW d \in Disputes, ReadAnswer(s, d) PROVE TypeOK'
    <2> DEFINE draft == [Blank EXCEPT !.asked = row[d].asked,
                            !.answers = row[d].answers \cup {Actor[s]}]
    <2>1. row[d].asked \in SUBSET Role /\ row[d].answers \in SUBSET Role
      BY DEF TypeOK, Row
    <2>2. Actor[s] \in Role
      BY <1>5, <2>1 DEF ReadAnswer, Required
    <2>3. draft \in Row
      BY <2>1, <2>2, BlankType, RowUpdates
    <2>4. loc' \in [Slots -> Loc]
      BY <1>5, <2>3, BeginType DEF ReadAnswer, RequestPC
    <2> QED BY <1>5, <2>4 DEF ReadAnswer, Begin, TypeOK
  <1>6. ASSUME NEW d \in Disputes, ReadVote(s, d) PROVE TypeOK'
    <2>1. row[d].round \in {1, 2} /\ Actor[s] \in Role
          /\ row[d].votes \in [{1, 2} -> [Role -> SUBSET Kinds]]
      BY <1>6 DEF ReadVote, TypeOK, Row
    <2> DEFINE r == row[d].round
               p == Actor[s]
               draft(ks) ==
                 [Blank EXCEPT !.round = r,
                               !.votes[r] = [row[d].votes[r] EXCEPT ![p] = ks]]
    <2>2. PICK ks \in Ballots[p] :
            /\ Begin(s, d, "vote", draft(ks))
            /\ past' = [past EXCEPT ![d].chose[r][p] = @ \cup ks]
      BY <1>6 DEF ReadVote
    <2>3. ks \in SUBSET Kinds
      BY <2>1, BallotsAssumption
    <2>4. draft(ks) \in Row
      BY <2>1, <2>3, BlankType DEF Row
    <2>5. loc' \in [Slots -> Loc]
      BY <2>2, <2>4, BeginType DEF RequestPC
    <2>6. past' \in [Disputes -> Past]
      <3> DEFINE chose == [past[d].chose EXCEPT ![r][p] = @ \cup ks]
      <3>1. past[d] \in Past
        BY DEF TypeOK
      <3>2. past[d].chose \in [{1, 2} -> [Role -> SUBSET Kinds]]
        BY <3>1 DEF Past
      <3>3. past[d].chose[r] \in [Role -> SUBSET Kinds]
        BY <3>2, <2>1
      <3>4. chose \in [{1, 2} -> [Role -> SUBSET Kinds]]
        BY <3>2, <3>3, <2>1, <2>3
      <3>5. [past[d] EXCEPT !.chose[r][p] = @ \cup ks] \in Past
        BY <3>1, <3>4 DEF Past
      <3> QED BY <2>2, <3>5 DEF TypeOK
    <2> QED BY <1>6, <2>2, <2>5, <2>6 DEF Begin, TypeOK
  <1>7. ASSUME NEW d \in Disputes, NEW decision \in {"accepted", "rejected"},
               ReadFinal(s, d, decision)
        PROVE  TypeOK'
    <2>1. Actor[s] \in Role /\ row[d].hook \in Hook /\ row[d].status \in Status
      BY <1>7 DEF ReadFinal, TypeOK, Row
    <2>2. PICK status \in Status, hook \in Hook :
            Begin(s, d, "final",
                  [Blank EXCEPT !.status = status, !.hook = hook])
      <3> DEFINE final == [row[d].hook.final EXCEPT ![Actor[s]] = decision]
                 next == IF decision = "rejected" THEN "awaiting_moderator"
                         ELSE IF \A q \in Role : final[q] = "accepted"
                           THEN "resolved" ELSE row[d].status
                 state == CASE next = "resolved"           -> "accepted"
                            [] next = "awaiting_moderator" -> "pending"
                            [] OTHER                       -> row[d].hook.state
      <3>1. next \in Status
        BY <2>1 DEF Status, Active, Closed
      <3>2. final \in [Role -> {"none", "accepted", "rejected"}]
        BY <2>1 DEF Hook
      <3>3. state \in {"none", "pending", "in_progress", "accepted"}
        BY <2>1 DEF Hook
      <3>4. [state |-> state, final |-> final] \in Hook
        BY <3>2, <3>3 DEF Hook
      <3>5. Begin(s, d, "final",
                  [Blank EXCEPT !.status = next,
                                !.hook = [state |-> state, final |-> final]])
        BY <1>7 DEF ReadFinal
      <3> HIDE DEF next, state, final
      <3> QED BY <3>1, <3>4, <3>5
    <2>3. [Blank EXCEPT !.status = status, !.hook = hook] \in Row
      BY <2>2, BlankType, RowUpdates
    <2>4. loc' \in [Slots -> Loc]
      BY <2>2, <2>3, BeginType DEF RequestPC
    <2>5. past' \in [Disputes -> Past]
      BY ZenonT(40), <1>7, <2>1 DEF ReadFinal, TypeOK, Past
    <2> QED BY <2>2, <2>4, <2>5 DEF Begin, TypeOK
  <1>8. ASSUME NEW d \in Disputes, ReadJoin(s, d) PROVE TypeOK'
    <2> DEFINE hook == [row[d].hook EXCEPT !.state = "in_progress"]
    <2>0. row[d].hook \in Hook
      BY DEF TypeOK, Row
    <2>1. hook \in Hook
      BY <2>0 DEF Hook
    <2>2. [Blank EXCEPT !.hook = hook] \in Row
      BY <2>1, BlankType, RowUpdates
    <2>3. loc' \in [Slots -> Loc]
      BY <1>8, <2>2, BeginType DEF ReadJoin, RequestPC
    <2> QED BY <1>8, <2>3 DEF ReadJoin, Begin, TypeOK
  <1> QED BY <1>1, <1>2, <1>3, <1>4, <1>5, <1>6, <1>7, <1>8 DEF Request

(* What a slot and a turn refer to.                                        *)
LEMMA Referents ==
  ASSUME TypeOK
  PROVE  /\ \A s \in Slots : /\ loc[s].d \in Disputes
                            /\ loc[s].draft \in Row
                            /\ row[loc[s].d] \in Row
         /\ \A w \in Turns : /\ turn[w].d \in Disputes
                            /\ turn[w].round \in {1, 2}
                            /\ row[turn[w].d] \in Row
  BY DEF TypeOK, Loc, Turn

(* A statement of a request writes a row and leaves the rest its type.     *)
LEMMA StatementType ==
  ASSUME TypeOK, NEW s \in Slots, Statement(s)
  PROVE  TypeOK'
  <1> DEFINE d == loc[s].d
             draft == loc[s].draft
  <1>0. d \in Disputes /\ draft \in Row /\ row[d] \in Row
    BY Referents
  <1> HIDE DEF d, draft
  <1>s. /\ \A st \in {"awaiting_moderator", "closed_by_acceptance",
                      "model_thinking", "waiting_final_acceptance"} :
             st \in Status
    BY DEF Status, Active, Closed
  <1>p. Free \in RequestPC /\ "complete" \in RequestPC /\ "advance" \in RequestPC
        /\ "schedule" \in RequestPC
    BY DEF RequestPC
  (* It is enough to show the type of the written row.                      *)
  <1>w. ASSUME NEW e \in Disputes, NEW new \in Row, NEW pc \in RequestPC,
               Write(s, e, new, pc),
               UNCHANGED <<expired, turn, inflight, faults, past>>
        PROVE  TypeOK'
    BY <1>w, WriteType DEF TypeOK
  <1>1. CASE InsertDispute(s)
    BY <1>1, <1>0, <1>p, <1>w DEF InsertDispute, draft
  <1>2. CASE WriteTimeout(s)
    <2>1. [row[d] EXCEPT !.status = "awaiting_moderator", !.hook = Pending]
            \in Row
      BY <1>0, <1>s, PendingType, RowUpdates
    <2> QED BY <1>2, <1>0, <1>p, <1>w, <2>1 DEF WriteTimeout, d
  <1>3. CASE WriteAccept(s)
    <2>1. [row[d] EXCEPT !.status = "closed_by_acceptance"] \in Row
      BY <1>0, <1>s, RowUpdates
    <2> QED BY <1>3, <1>0, <1>p, <1>w, <2>1 DEF WriteAccept, d
  <1>4. CASE WriteRespond(s)
    <2>1. [r \in {1, 2} |-> NoVotes] \in [{1, 2} -> [Role -> SUBSET Kinds]]
      BY NoVotesType
    <2>2. [row[d] EXCEPT !.status = "model_thinking", !.round = 1, !.asked = {},
             !.answers = {}, !.votes = [r \in {1, 2} |-> NoVotes]] \in Row
      BY <1>0, <1>s, <2>1 DEF Row
    <2> QED BY <1>4, <1>0, <1>p, <1>w, <2>2 DEF WriteRespond, d
  <1>5. CASE WriteAnswer(s)
    <2>1. draft.answers \in SUBSET Role
      BY <1>0 DEF Row
    <2>2. [row[d] EXCEPT !.answers = draft.answers] \in Row
      BY <1>0, <2>1, RowUpdates
    <2> QED BY <1>5, <1>0, <1>p, <1>w, <2>2 DEF WriteAnswer, d, draft
  <1>6. CASE WriteComplete(s)
    <2>1. [row[d] EXCEPT !.status = "model_thinking"] \in Row
      BY <1>0, <1>s, RowUpdates
    <2> QED BY <1>6, <1>0, <1>p, <1>w, <2>1 DEF WriteComplete, d
  <1>7. CASE WriteVote(s)
    <2> DEFINE votes == [row[d].votes EXCEPT
                           ![draft.round] = draft.votes[draft.round]]
    <2>1. votes \in [{1, 2} -> [Role -> SUBSET Kinds]]
      BY <1>0 DEF Row
    <2>2. [row[d] EXCEPT !.votes[draft.round] = draft.votes[draft.round]]
            \in Row
      BY <1>0, <2>1 DEF Row
    <2> QED BY <1>7, <1>0, <1>p, <1>w, <2>2 DEF WriteVote, d, draft
  <1>8. CASE AdvanceToAcceptance(s)
    <2>1. ASSUME NEW k \in Common(draft)
          PROVE  [row[d] EXCEPT !.status = "waiting_final_acceptance",
                    !.selected = {k}, !.hook = NoHook] \in Row
      <3>1. {k} \in SUBSET Kinds
        BY DEF Common
      <3> QED BY <1>0, <1>s, <3>1, PendingType DEF Row
    <2> QED BY <1>8, <1>0, <1>p, <1>w, <2>1 DEF AdvanceToAcceptance, d, draft
  <1>9. CASE AdvanceToRound2(s)
    <2>1. [row[d] EXCEPT !.status = "model_thinking", !.round = 2] \in Row
      BY <1>0, <1>s DEF Row
    <2> QED BY <1>9, <1>0, <1>p, <1>w, <2>1 DEF AdvanceToRound2, d
  <1>10. CASE AdvanceToModerator(s)
    <2>1. [row[d] EXCEPT !.status = "awaiting_moderator", !.hook = Pending]
            \in Row
      BY <1>0, <1>s, PendingType DEF Row
    <2> QED BY <1>10, <1>0, <1>p, <1>w, <2>1 DEF AdvanceToModerator, d
  <1>11. CASE WriteFinal(s)
    <2> DEFINE status == IF draft.status = "waiting_final_acceptance"
                           THEN row[d].status ELSE draft.status
    <2>1. status \in Status /\ draft.hook \in Hook
      BY <1>0 DEF Row
    <2>2. [row[d] EXCEPT !.status = status, !.hook = draft.hook] \in Row
      BY <1>0, <2>1 DEF Row
    <2> QED BY <1>11, <1>0, <1>p, <1>w, <2>2 DEF WriteFinal, d, draft
  <1>12. CASE StartModel(s)
    <2>1. PICK w \in Turns :
            turn' = [turn EXCEPT ![w] = [pc |-> "scheduled", d |-> d,
                                         round |-> 1]]
      BY <1>12 DEF StartModel, d
    <2>2. turn' \in [Turns -> Turn]
      BY <2>1, <1>0 DEF TypeOK, Turn, TurnPC
    <2>3. loc' \in [Slots -> Loc]
      BY <1>12, IdleType DEF StartModel, Finish, TypeOK
    <2> QED BY <1>12, <2>2, <2>3 DEF StartModel, TypeOK
  <1>13. CASE WriteJoin(s)
    <2>1. [row[d] EXCEPT !.hook = draft.hook] \in Row
      BY <1>0 DEF Row
    <2> QED BY <1>13, <1>0, <1>p, <1>w, <2>1 DEF WriteJoin, d, draft
  <1> QED
    BY <1>1, <1>2, <1>3, <1>4, <1>5, <1>6, <1>7, <1>8, <1>9, <1>10, <1>11,
       <1>12, <1>13 DEF Statement

(* A model turn, failing or not.                                           *)
LEMMA TurnType ==
  ASSUME TypeOK, NEW w \in Turns,
         ModelStep(w) \/ TurnDies(w) \/ TurnRaises(w)
  PROVE  TypeOK'
  <1> DEFINE d == turn[w].d
  <1>0. d \in Disputes /\ row[d] \in Row
    BY Referents
  <1>1. \A pc \in TurnPC : [turn EXCEPT ![w].pc = pc] \in [Turns -> Turn]
    BY DEF TypeOK, Turn
  <1>2. {"acquired", "calling", "posting", "returning"} \subseteq TurnPC
    BY DEF TurnPC
  <1>3. ASSUME NEW new \in Row, WriteTurn(w, new), UNCHANGED past
        PROVE  TypeOK'
    BY <1>0, <1>1, <1>2, <1>3 DEF WriteTurn, TypeOK
  <1>4. ASSUME HandOver(w), faults' \in 0..MaxFaults PROVE TypeOK'
    <2>1. [row[d] EXCEPT !.status = "awaiting_moderator"] \in Row
      BY <1>0, RowUpdates DEF Status, Active
    <2>2. row' \in [Disputes -> Row]
      BY <1>0, <1>4, <2>1 DEF HandOver, TypeOK
    <2>3. past' \in [Disputes -> Past]
      BY ZenonT(40), <1>4 DEF HandOver, TypeOK, Past
    <2> QED BY <1>1, <1>2, <1>4, <2>2, <2>3 DEF HandOver, TypeOK
  <1>5. CASE AcquireSlot(w)
    <2>1. turn' \in [Turns -> Turn]
      BY <1>1, <1>2, <1>5, IdleType DEF AcquireSlot, TypeOK
    <2>2. inflight' \in SUBSET Disputes
      BY <1>0, <1>5 DEF AcquireSlot, TypeOK
    <2> QED BY <1>5, <2>1, <2>2 DEF AcquireSlot, TypeOK
  <1>6. CASE ReadTurn(w)
    <2>1. row[d].round \in {1, 2}
      BY <1>0 DEF Row
    <2>2. [turn EXCEPT ![w].pc = "calling", ![w].round = row[d].round]
            \in [Turns -> Turn]
      BY <1>2, <2>1 DEF TypeOK, Turn
    <2> QED BY <1>1, <1>2, <1>6, <2>2 DEF ReadTurn, TypeOK
  <1>7. CASE AskQuestions(w)
    <2>1. ASSUME NEW ps \in SUBSET Role
          PROVE  [row[d] EXCEPT !.status = "waiting_clarification_answers",
                    !.asked = ps, !.answers = {}] \in Row
      BY <1>0 DEF Row, Status, Active
    <2> QED BY <1>3, <1>7, <2>1 DEF AskQuestions
  <1>8. CASE OfferRound1(w)
    <2> DEFINE votes == [row[d].votes EXCEPT ![1] = NoVotes]
    <2>1. votes \in [{1, 2} -> [Role -> SUBSET Kinds]]
      BY <1>0, NoVotesType DEF Row
    <2>2. [row[d] EXCEPT !.status = "waiting_round_1_votes",
                         !.ready = @ \cup {1}, !.votes[1] = NoVotes,
                         !.asked = {}, !.answers = {}] \in Row
      BY <1>0, <2>1 DEF Row, Status, Active, Voting
    <2> QED BY <1>3, <1>8, <2>2 DEF OfferRound1
  <1>9. CASE OfferRound2(w)
    <2> DEFINE votes == [row[d].votes EXCEPT ![2] = NoVotes]
    <2>1. votes \in [{1, 2} -> [Role -> SUBSET Kinds]]
      BY <1>0, NoVotesType DEF Row
    <2>2. [row[d] EXCEPT !.status = "waiting_round_2_votes",
                         !.ready = @ \cup {2}, !.votes[2] = NoVotes] \in Row
      BY <1>0, <2>1 DEF Row, Status, Active, Voting
    <2> QED BY <1>3, <1>9, <2>2 DEF OfferRound2
  <1>10. CASE TurnFails(w) /\ HandOver(w)
    BY <1>4, <1>10 DEF TurnFails, TypeOK
  <1>11. CASE TurnFails(w) /\ ~HandOver(w)
    BY <1>1, <1>2, <1>11 DEF TurnFails, TypeOK
  <1>12. CASE ReleaseSlot(w)
    BY <1>12, IdleType DEF ReleaseSlot, TypeOK
  <1>13. ASSUME NEW kind, Fault(kind) PROVE faults' \in 0..MaxFaults
    BY <1>13, MaxFaultsAssumption DEF Fault, TypeOK
  <1>14. CASE TurnDies(w)
    BY <1>1, <1>2, <1>13, <1>14 DEF TurnDies, TypeOK
  <1>15. CASE TurnRaises(w)
    BY <1>4, <1>13, <1>15 DEF TurnRaises
  <1> QED
    BY <1>5, <1>6, <1>7, <1>8, <1>9, <1>10, <1>11, <1>12, <1>14, <1>15
       DEF ModelStep

LEMMA NextType == TypeOK /\ [Next]_vars => TypeOK'
  <1> SUFFICES ASSUME TypeOK, [Next]_vars PROVE TypeOK'
    OBVIOUS
  <1>1. ASSUME NEW kind, Fault(kind) PROVE faults' \in 0..MaxFaults
    BY <1>1, MaxFaultsAssumption DEF Fault, TypeOK
  <1>2. ASSUME NEW s \in Slots, RequestDies(s) PROVE TypeOK'
    BY <1>1, <1>2, IdleType DEF RequestDies, Finish, TypeOK
  <1>3. CASE Restart
    <2>1. loc' \in [Slots -> Loc]
      BY <1>3, IdleType DEF Restart, TypeOK
    <2>2. turn' \in [Turns -> Turn]
      BY <1>3, IdleType DEF Restart
    <2> QED BY <1>1, <1>3, <2>1, <2>2 DEF Restart, TypeOK
  <1>4. ASSUME NEW d \in Disputes, DeadlinePasses(d) PROVE TypeOK'
    BY <1>4 DEF DeadlinePasses, TypeOK
  <1>5. CASE UNCHANGED vars
    BY <1>5 DEF vars, TypeOK
  <1> QED
    BY <1>2, <1>3, <1>4, <1>5, RequestType, StatementType, TurnType DEF Next

(* Every reachable state is well typed: in particular a row never holds a  *)
(* status or round the code does not know, whatever stale rows are written.*)
THEOREM Typing == Spec => []TypeOK
  <1>1. Init => TypeOK
    BY InitType
  <1>2. TypeOK /\ [Next]_vars => TypeOK'
    BY NextType
  <1> QED BY <1>1, <1>2, PTL DEF Spec

----------------------------------------------------------------------------
(* At most one model turn per dispute.                                     *)

LEMMA ExclusiveInit == Init => TurnExclusive
  BY DEF Init, TurnExclusive, Working, IdleTurn, Free

LEMMA ExclusiveStep ==
  ASSUME TypeOK, TurnExclusive, [Next]_vars
  PROVE  TurnExclusive'
  <1> USE DEF TurnExclusive, Working
  <1>1. ASSUME UNCHANGED <<turn, inflight>> PROVE TurnExclusive'
    BY <1>1
  (* A step of w that neither starts nor stops working.                     *)
  <1>2. ASSUME NEW w \in Turns, Working(w), UNCHANGED inflight,
               \A v \in Turns \ {w} : turn'[v] = turn[v],
               turn'[w].pc \in {"acquired", "calling", "posting", "returning"},
               turn'[w].d = turn[w].d
        PROVE  TurnExclusive'
    BY <1>2
  <1>3. ASSUME NEW s \in Slots, Request(s) \/ Statement(s) \/ RequestDies(s)
        PROVE  TurnExclusive'
    <2>1. CASE StartModel(s)
      <3>1. PICK w \in Turns :
              /\ turn[w].pc = Free
              /\ turn' = [turn EXCEPT ![w] = [pc |-> "scheduled",
                                             d |-> loc[s].d, round |-> 1]]
        BY <2>1 DEF StartModel
      <3>a. /\ ~Working(w) /\ ~Working(w)'
            /\ \A v \in Turns \ {w} : turn'[v] = turn[v]
        BY <3>1 DEF TypeOK, Turn, Free
      <3>2. ASSUME NEW v \in Turns
            PROVE  /\ Working(v)' <=> Working(v)
                   /\ Working(v) => turn'[v].d = turn[v].d
        BY <3>a
      <3>3. UNCHANGED inflight
        BY <2>1 DEF StartModel
      <3>4. ASSUME NEW u \in Turns, NEW v \in Turns, Working(u)', Working(v)',
                   u # v
            PROVE  turn'[u].d # turn'[v].d
        BY <3>2, <3>4
      <3>5. ASSUME NEW d \in Disputes
            PROVE  d \in inflight'
                     <=> \E v \in Turns : Working(v)' /\ turn'[v].d = d
        BY <3>2, <3>3
      <3> QED BY <3>4, <3>5
    <2>2. CASE ~StartModel(s)
      <3>1. UNCHANGED <<turn, inflight>>
        BY ZenonT(40), <1>3, <2>2
           DEF Request, Statement, RequestDies, Begin, ReadOpen, ReadOverdue,
               ReadAccept, ReadRespond, ReadAnswer, ReadVote, ReadFinal,
               ReadJoin, InsertDispute, WriteTimeout, WriteAccept,
               WriteRespond, WriteAnswer, WriteComplete, WriteVote,
               AdvanceToAcceptance, AdvanceToRound2, AdvanceToModerator,
               WriteFinal, WriteJoin
      <3> QED BY <3>1, <1>1
    <2> QED BY <2>1, <2>2
  <1>4. ASSUME NEW w \in Turns, AcquireSlot(w) PROVE TurnExclusive'
    <2>1. \A v \in Turns \ {w} : turn'[v] = turn[v]
      BY <1>4 DEF AcquireSlot, TypeOK
    <2>2. ~Working(w)
      BY <1>4 DEF AcquireSlot
    <2>3. CASE turn[w].d \in inflight
      <3>1. ~Working(w)'
        BY <1>4, <2>3 DEF AcquireSlot, IdleTurn, Free, TypeOK
      <3>2. UNCHANGED inflight
        BY <1>4, <2>3 DEF AcquireSlot
      <3> QED BY <2>1, <2>2, <3>1, <3>2
    <2>4. CASE turn[w].d \notin inflight
      <3>1. Working(w)' /\ turn'[w].d = turn[w].d
        BY <1>4, <2>4 DEF AcquireSlot, TypeOK, Turn
      <3>2. inflight' = inflight \cup {turn[w].d}
        BY <1>4, <2>4 DEF AcquireSlot
      <3>3. \A v \in Turns \ {w} : Working(v) => turn[v].d # turn[w].d
        BY <2>4 DEF TypeOK, Turn
      <3>4. ASSUME NEW u \in Turns, NEW v \in Turns, Working(u)', Working(v)',
                   u # v
            PROVE  turn'[u].d # turn'[v].d
        BY <2>1, <3>1, <3>3, <3>4
      <3>5. ASSUME NEW d \in Disputes
            PROVE  d \in inflight'
                     <=> \E v \in Turns : Working(v)' /\ turn'[v].d = d
        <4>1. CASE d = turn[w].d
          BY <3>1, <3>2, <4>1
        <4>2. CASE d # turn[w].d
          <5>1. d \in inflight' <=> d \in inflight
            BY <3>2, <4>2
          <5>2. \A v \in Turns : (Working(v)' /\ turn'[v].d = d)
                                   <=> (Working(v) /\ turn[v].d = d)
            BY <2>1, <2>2, <3>1, <4>2
          <5> QED BY <5>1, <5>2
        <4> QED BY <4>1, <4>2
      <3> QED BY <3>4, <3>5
    <2> QED BY <2>3, <2>4
  <1>5. ASSUME NEW w \in Turns, ReleaseSlot(w) PROVE TurnExclusive'
    <2>1. \A v \in Turns \ {w} : turn'[v] = turn[v]
      BY <1>5 DEF ReleaseSlot, TypeOK
    <2>2. Working(w) /\ ~Working(w)'
      BY <1>5 DEF ReleaseSlot, IdleTurn, Free, TypeOK
    <2>3. inflight' = inflight \ {turn[w].d}
      BY <1>5 DEF ReleaseSlot
    <2> QED BY <2>1, <2>2, <2>3
  <1>6. ASSUME NEW w \in Turns,
               \/ ReadTurn(w) \/ AskQuestions(w) \/ OfferRound1(w)
               \/ OfferRound2(w) \/ TurnFails(w)
               \/ TurnDies(w) \/ TurnRaises(w)
        PROVE  TurnExclusive'
    <2>1. Working(w) /\ UNCHANGED inflight
      BY <1>6 DEF ReadTurn, AskQuestions, OfferRound1, OfferRound2, WriteTurn,
                  TurnFails, TurnDies, TurnRaises, HandOver
    <2>2. PICK pc \in {"acquired", "calling", "posting", "returning"},
               n \in {1, 2} :
            \/ turn' = [turn EXCEPT ![w].pc = pc]
            \/ turn' = [turn EXCEPT ![w].pc = pc, ![w].round = n]
      <3>1. CASE ReadTurn(w)
        <4>1. row[turn[w].d].round \in {1, 2}
          BY Referents DEF Row
        <4> QED BY <3>1, <4>1 DEF ReadTurn
      <3>2. CASE ~ReadTurn(w)
        BY <1>6, <3>2
           DEF AskQuestions, OfferRound1, OfferRound2, WriteTurn, TurnFails,
               TurnDies, TurnRaises, HandOver
      <3> QED BY <3>1, <3>2
    <2>3. /\ \A v \in Turns \ {w} : turn'[v] = turn[v]
          /\ turn'[w].pc = pc
          /\ turn'[w].d = turn[w].d
      BY <2>2 DEF TypeOK, Turn
    <2> QED BY <1>2, <2>1, <2>3
  <1>7. CASE Restart
    <2>1. \A w \in Turns : ~Working(w)'
      BY <1>7 DEF Restart, IdleTurn, Free
    <2> QED BY <1>7, <2>1 DEF Restart
  <1>8. CASE \E d \in Disputes : DeadlinePasses(d)
    BY <1>1, <1>8 DEF DeadlinePasses
  <1>9. CASE UNCHANGED vars
    BY <1>1, <1>9 DEF vars
  <1> QED
    BY <1>3, <1>4, <1>5, <1>6, <1>7, <1>8, <1>9 DEF Next, ModelStep

(* _acquire_model_slot and the finally of process_dispute_model_turn keep  *)
(* the model turns of one dispute apart, through failures and restarts.    *)
THEOREM Exclusion == Spec => []TurnExclusive
  <1>1. Init => TypeOK /\ TurnExclusive
    BY InitType, ExclusiveInit
  <1>2. TypeOK /\ TurnExclusive /\ [Next]_vars => (TypeOK /\ TurnExclusive)'
    BY NextType, ExclusiveStep
  <1> QED BY <1>1, <1>2, PTL DEF Spec

----------------------------------------------------------------------------
(* Consent.  NothingImposed and EscalatedForCause are not inductive: what  *)
(* a stale handler writes was computed from an earlier row, so the         *)
(* invariant also says of every vote and acceptance held in a row or in a  *)
(* slot that its side once sent it, and of every slot that its decision    *)
(* was justified when it was taken.  The history only grows, so it stays   *)
(* justified however late it is written.                                   *)

Accepting(h) == {p \in Role : h.final[p] = "accepted"}

(* A row that may be stored for dispute d.                                 *)
RowInv(d, r) ==
  /\ \A n \in {1, 2}, p \in Role : r.votes[n][p] \subseteq past[d].chose[n][p]
  /\ Accepting(r.hook) \subseteq past[d].accepted
  /\ r.status = "closed_by_acceptance" => Other(r.initiator) \in past[d].agreed
  /\ \A k \in r.selected :
       \E n \in {1, 2} : \A p \in Role : k \in past[d].chose[n][p]
  /\ r.status = "resolved" => past[d].accepted = Role
  /\ r.round = 2 => \A p \in Role : past[d].chose[1][p] # {}
  /\ r.status = "awaiting_moderator" =>
       \/ d \in expired
       \/ past[d].failed
       \/ past[d].rejected # {}
       \/ \A p \in Role : past[d].chose[2][p] # {}

(* A request under way.                                                    *)
SlotInv(s) ==
  LET pc == loc[s].pc
      d == loc[s].d
      draft == loc[s].draft IN
  /\ pc \notin {Free, "insert"} => row[d].status # "absent"
  /\ pc = "insert" =>
       \E p \in Role : draft = NewRow("open_waiting_counterparty", p)
  /\ pc = "timeout" => d \in expired
  /\ pc = "accept" => Other(row[d].initiator) \in past[d].agreed
  /\ pc \in {"vote", "advance"} =>
       \A p \in Role :
         draft.votes[draft.round][p] \subseteq past[d].chose[draft.round][p]
  /\ pc = "advance" => BothVoted(draft)
  /\ pc \in {"final", "join"} => Accepting(draft.hook) \subseteq past[d].accepted
  /\ pc = "final" =>
       /\ draft.status \in {"waiting_final_acceptance", "awaiting_moderator",
                            "resolved"}
       /\ draft.status = "resolved" => past[d].accepted = Role
       /\ draft.status = "awaiting_moderator" => past[d].rejected # {}

ConsentInv ==
  /\ \A d \in Disputes : RowInv(d, row[d])
  /\ \A s \in Slots : SlotInv(s)

LEMMA ConsentImplies == ConsentInv => NothingImposed /\ EscalatedForCause
  BY DEF ConsentInv, RowInv, NothingImposed, EscalatedForCause

(* The history only grows.                                                 *)
PastGrows ==
  /\ expired \subseteq expired'
  /\ \A d \in Disputes :
       /\ past[d].agreed \subseteq past'[d].agreed
       /\ past[d].accepted \subseteq past'[d].accepted
       /\ past[d].rejected \subseteq past'[d].rejected
       /\ past[d].failed => past'[d].failed
       /\ \A n \in {1, 2}, p \in Role :
            past[d].chose[n][p] \subseteq past'[d].chose[n][p]

LEMMA RowStays ==
  ASSUME TypeOK, TypeOK', PastGrows, NEW d \in Disputes, NEW r \in Row,
         RowInv(d, r)
  PROVE  RowInv(d, r)'
  <1> USE DEF RowInv, PastGrows
  <1>1. \A n \in {1, 2}, p \in Role : r.votes[n][p] \subseteq past'[d].chose[n][p]
    OBVIOUS
  <1>2. Accepting(r.hook) \subseteq past'[d].accepted
    OBVIOUS
  <1>3. r.status = "resolved" => past'[d].accepted = Role
    <2>1. past[d].accepted \subseteq past'[d].accepted
      OBVIOUS
    <2>2. past'[d].accepted \subseteq Role
      BY DEF TypeOK, Past
    <2> QED BY <2>1, <2>2
  <1>4. r.round = 2 => \A p \in Role : past'[d].chose[1][p] # {}
    <2> HAVE r.round = 2
    <2> TAKE p \in Role
    <2>1. past[d].chose[1][p] # {} /\ past[d].chose[1][p] \subseteq past'[d].chose[1][p]
      OBVIOUS
    <2> QED BY <2>1
  <1>5. ASSUME NEW k \in r.selected
        PROVE  \E n \in {1, 2} : \A p \in Role : k \in past'[d].chose[n][p]
    OBVIOUS
  <1>6. (\A p \in Role : past[d].chose[2][p] # {})
          => \A p \in Role : past'[d].chose[2][p] # {}
    <2> HAVE \A p \in Role : past[d].chose[2][p] # {}
    <2> TAKE p \in Role
    <2>1. past[d].chose[2][p] # {} /\ past[d].chose[2][p] \subseteq past'[d].chose[2][p]
      OBVIOUS
    <2> QED BY <2>1
  <1>7. past[d].rejected # {} => past'[d].rejected # {}
    OBVIOUS
  <1>8. r.status = "closed_by_acceptance"
          => Other(r.initiator) \in past'[d].agreed
    OBVIOUS
  <1>9. r.status = "awaiting_moderator" =>
          \/ d \in expired'
          \/ past'[d].failed
          \/ past'[d].rejected # {}
          \/ \A p \in Role : past'[d].chose[2][p] # {}
    BY <1>6, <1>7
  <1> QED BY <1>1, <1>2, <1>3, <1>4, <1>5, <1>8, <1>9

(* A request keeps its justification while others move: the disputes it    *)
(* may have in hand neither vanish nor change their initiator.             *)
RowsPersist ==
  \A d \in Disputes :
    row[d].status # "absent" => /\ row'[d].status # "absent"
                                /\ row'[d].initiator = row[d].initiator

LEMMA SlotStays ==
  ASSUME TypeOK, TypeOK', PastGrows, RowsPersist, NEW s \in Slots, SlotInv(s),
         loc'[s] = loc[s]
  PROVE  SlotInv(s)'
  <1> DEFINE d == loc[s].d
             draft == loc[s].draft
             pc == loc[s].pc
  <1>0. d \in Disputes /\ draft \in Row
    BY Referents
  <1>1. pc \notin {Free, "insert"} => row'[d].status # "absent"
    BY <1>0 DEF RowsPersist, SlotInv
  <1>2. pc = "timeout" => d \in expired'
    BY <1>0 DEF PastGrows, SlotInv
  <1>3. pc = "accept" => Other(row'[d].initiator) \in past'[d].agreed
    BY <1>0 DEF PastGrows, RowsPersist, SlotInv, Free
  <1>4. pc \in {"vote", "advance"} =>
          \A p \in Role :
            draft.votes[draft.round][p] \subseteq past'[d].chose[draft.round][p]
    <2>1. draft.round \in {1, 2}
      BY <1>0 DEF Row
    <2> QED BY <1>0, <2>1 DEF PastGrows, SlotInv
  <1>5. pc \in {"final", "join"} => Accepting(draft.hook) \subseteq past'[d].accepted
    BY <1>0 DEF PastGrows, SlotInv
  <1>6. pc = "final" =>
          /\ draft.status = "resolved" => past'[d].accepted = Role
          /\ draft.status = "awaiting_moderator" => past'[d].rejected # {}
    <2>1. past[d].accepted \subseteq past'[d].accepted
          /\ past[d].rejected \subseteq past'[d].rejected
          /\ past'[d].accepted \subseteq Role
      BY <1>0 DEF PastGrows, TypeOK, Past
    <2> QED BY <1>0, <2>1 DEF SlotInv
  <1> QED BY <1>1, <1>2, <1>3, <1>4, <1>5, <1>6 DEF SlotInv

(* A row is written, by a request or by a model turn.                      *)
LEMMA RowWritten ==
  ASSUME TypeOK, TypeOK', ConsentInv, PastGrows,
         NEW e \in Disputes, NEW new \in Row,
         row' = [row EXCEPT ![e] = new], RowInv(e, new)',
         new.status # "absent",
         row[e].status = "absent" \/ new.initiator = row[e].initiator
  PROVE  /\ \A d \in Disputes : RowInv(d, row[d])'
         /\ RowsPersist
  <1>1. ASSUME NEW d \in Disputes, d # e PROVE RowInv(d, row[d])'
    <2>1. row'[d] = row[d] /\ row[d] \in Row /\ RowInv(d, row[d])
      BY <1>1 DEF TypeOK, ConsentInv
    <2>2. RowInv(d, row[d])
      BY <2>1
    <2>3. \A r \in Row : RowInv(d, r) => RowInv(d, r)'
      BY RowStays
    <2> QED BY <2>1, <2>3 DEF RowInv
  <1>2. row'[e] = new
    BY DEF TypeOK
  <1>3. RowInv(e, row[e])'
    BY <1>2 DEF RowInv
  <1>4. RowsPersist
    BY DEF RowsPersist, TypeOK
  <1> QED BY <1>1, <1>3, <1>4

LEMMA RowsKept ==
  ASSUME TypeOK, TypeOK', ConsentInv, PastGrows, row' = row
  PROVE  /\ \A d \in Disputes : RowInv(d, row[d])'
         /\ RowsPersist
  <1>1. ASSUME NEW d \in Disputes PROVE RowInv(d, row[d])'
    <2>1. row'[d] = row[d] /\ row[d] \in Row /\ RowInv(d, row[d])
      BY DEF TypeOK, ConsentInv
    <2>2. \A r \in Row : RowInv(d, r) => RowInv(d, r)'
      BY RowStays
    <2> QED BY <2>1, <2>2 DEF RowInv
  <1>2. RowsPersist
    BY DEF RowsPersist
  <1> QED BY <1>1, <1>2

LEMMA PastKept == UNCHANGED <<expired, past>> => PastGrows
  BY DEF PastGrows

(* A statement of a request.                                               *)
LEMMA WriteStep ==
  ASSUME TypeOK, TypeOK', ConsentInv, NEW s \in Slots,
         NEW e \in Disputes, NEW new \in Row,
         NEW pc \in {Free, "complete", "advance", "schedule"},
         Write(s, e, new, pc), UNCHANGED <<expired, past>>,
         RowInv(e, new), new.status # "absent",
         row[e].status = "absent" \/ new.initiator = row[e].initiator,
         pc # Free => e = loc[s].d,
         pc = "advance" => loc[s].pc = "vote" /\ BothVoted(loc[s].draft)
  PROVE  ConsentInv'
  <1>1. PastGrows
    BY PastKept
  <1>2. /\ \A d \in Disputes : RowInv(d, row[d])'
        /\ RowsPersist
    <2>1. CASE IndexAllows(e, new.status)
      <3>1. row' = [row EXCEPT ![e] = new]
        BY <2>1 DEF Write
      <3>2. RowInv(e, new)'
        BY <1>1, RowStays
      <3> QED BY <1>1, <3>1, <3>2, RowWritten
    <2>2. CASE ~IndexAllows(e, new.status)
      BY <1>1, <2>2, RowsKept DEF Write
    <2> QED BY <2>1, <2>2
  <1>3. ASSUME NEW t \in Slots, t # s PROVE SlotInv(t)'
    <2>1. loc'[t] = loc[t]
      BY <1>3 DEF Write, Finish, Goto, TypeOK
    <2>2. SlotInv(t)
      BY DEF ConsentInv
    <2> QED BY <1>1, <1>2, <2>1, <2>2, SlotStays
  <1>4. ASSUME loc'[s] = IdleLoc PROVE SlotInv(s)'
    <2>1. loc'[s].pc = Free
      BY <1>4 DEF IdleLoc
    <2> QED BY <2>1 DEF SlotInv, Free
  <1>5. ASSUME loc'[s] # IdleLoc PROVE SlotInv(s)'
    <2>1. /\ IndexAllows(e, new.status)
          /\ pc # Free
          /\ loc' = [loc EXCEPT ![s].pc = pc]
      BY <1>5 DEF Write, Finish, Goto, TypeOK
    <2>2. /\ loc'[s].pc = pc
          /\ loc'[s].d = loc[s].d
          /\ loc'[s].draft = loc[s].draft
          /\ row'[loc[s].d] = new
      BY <2>1 DEF TypeOK, Loc, Write
    <2>3. pc = "advance" =>
            \A p \in Role :
              loc[s].draft.votes[loc[s].draft.round][p]
                \subseteq past[loc[s].d].chose[loc[s].draft.round][p]
      BY DEF ConsentInv, SlotInv
    <2>4. row'[loc'[s].d].status # "absent"
      BY <2>2
    <2>5. pc = "advance" =>
            /\ BothVoted(loc'[s].draft)
            /\ \A p \in Role :
                 loc'[s].draft.votes[loc'[s].draft.round][p]
                   \subseteq past'[loc'[s].d].chose[loc'[s].draft.round][p]
      BY <2>2, <2>3
    <2>6. pc \in {"complete", "advance", "schedule"}
      BY <2>1
    <2> QED BY <2>2, <2>4, <2>5, <2>6 DEF SlotInv, BothVoted, Free
  <1> QED BY <1>2, <1>3, <1>4, <1>5 DEF ConsentInv

LEMMA StatementConsent ==
  ASSUME TypeOK, TypeOK', ConsentInv, NEW s \in Slots, Statement(s)
  PROVE  ConsentInv'
  <1> DEFINE d == loc[s].d
             draft == loc[s].draft
  <1>0. /\ d \in Disputes /\ draft \in Row /\ row[d] \in Row
        /\ SlotInv(s) /\ RowInv(d, row[d])
    BY Referents DEF ConsentInv
  <1>n. /\ Accepting(NoHook) = {} /\ Accepting(Pending) = {}
    BY DEF Accepting, NoHook, Pending, NoFinal
  <1>1. CASE InsertDispute(s)
    <2>1. PICK e \in Disputes : /\ row[e].status = "absent"
                                /\ Write(s, e, draft, Free)
      BY <1>1 DEF InsertDispute
    <2>2. PICK p \in Role : draft = NewRow("open_waiting_counterparty", p)
      BY <1>0, <1>1 DEF InsertDispute, SlotInv
    <2>3. RowInv(e, draft)
      BY <2>2, <1>n DEF RowInv, NewRow, NoVotes
    <2>4. draft.status # "absent"
      BY <2>2 DEF NewRow
    <2>5. UNCHANGED <<expired, past>>
      BY <1>1 DEF InsertDispute
    <2> HIDE DEF draft
    <2> QED BY <1>0, <2>1, <2>3, <2>4, <2>5, WriteStep DEF Free
  <1>2. CASE WriteTimeout(s)
    <2> DEFINE new == [row[d] EXCEPT !.status = "awaiting_moderator",
                                     !.hook = Pending]
    <2>1. new \in Row
      BY <1>0, PendingType DEF Row, Status, Active
    <2>2. d \in expired
      BY <1>0, <1>2 DEF SlotInv, WriteTimeout
    <2>3. /\ RowInv(d, new) /\ new.status # "absent"
          /\ new.initiator = row[d].initiator
      BY <1>0, <1>n, <2>2 DEF RowInv, Row
    <2>4. Write(s, d, new, Free) /\ UNCHANGED <<expired, past>>
      BY <1>2 DEF WriteTimeout
    <2> HIDE DEF d, new
    <2> QED BY <1>0, <2>1, <2>3, <2>4, WriteStep DEF Free
  <1>3. CASE WriteAccept(s)
    <2> DEFINE new == [row[d] EXCEPT !.status = "closed_by_acceptance"]
    <2>1. new \in Row
      BY <1>0 DEF Row, Status, Closed
    <2>2. Other(row[d].initiator) \in past[d].agreed
      BY <1>0, <1>3 DEF SlotInv, WriteAccept
    <2>3. /\ RowInv(d, new) /\ new.status # "absent"
          /\ new.initiator = row[d].initiator
      BY <1>0, <2>2 DEF RowInv, Row
    <2>4. Write(s, d, new, Free) /\ UNCHANGED <<expired, past>>
      BY <1>3 DEF WriteAccept
    <2> HIDE DEF d, new
    <2> QED BY <1>0, <2>1, <2>3, <2>4, WriteStep DEF Free
  <1>4. CASE WriteRespond(s)
    <2> DEFINE new == [row[d] EXCEPT !.status = "model_thinking", !.round = 1,
                         !.asked = {}, !.answers = {},
                         !.votes = [r \in {1, 2} |-> NoVotes]]
    <2>1. [r \in {1, 2} |-> NoVotes] \in [{1, 2} -> [Role -> SUBSET Kinds]]
      BY NoVotesType
    <2>2. new \in Row
      BY <1>0, <2>1 DEF Row, Status, Active
    <2>3. /\ RowInv(d, new) /\ new.status # "absent"
          /\ new.initiator = row[d].initiator
      BY <1>0 DEF RowInv, Row, NoVotes
    <2>4. Write(s, d, new, "schedule") /\ UNCHANGED <<expired, past>>
      BY <1>4 DEF WriteRespond
    <2> HIDE DEF d, new
    <2> QED BY <1>0, <2>2, <2>3, <2>4, WriteStep DEF d
  <1>5. CASE WriteAnswer(s)
    <2> DEFINE new == [row[d] EXCEPT !.answers = draft.answers]
               pc == IF Required(draft) \subseteq draft.answers
                       THEN "complete" ELSE Free
    <2>1. new \in Row
      BY <1>0 DEF Row
    <2>2. row[d].status # "absent"
      BY <1>0, <1>5 DEF SlotInv, WriteAnswer, Free
    <2>3. /\ RowInv(d, new) /\ new.status # "absent"
          /\ new.initiator = row[d].initiator
      BY <1>0, <2>2 DEF RowInv, Row
    <2>4. Write(s, d, new, pc) /\ UNCHANGED <<expired, past>>
      BY <1>5 DEF WriteAnswer
    <2>5. pc \in {Free, "complete"} /\ d = loc[s].d
      OBVIOUS
    <2> HIDE DEF d, new, pc
    <2> QED BY <1>0, <2>1, <2>3, <2>4, <2>5, WriteStep DEF Free
  <1>6. CASE WriteComplete(s)
    <2> DEFINE new == [row[d] EXCEPT !.status = "model_thinking"]
    <2>1. new \in Row
      BY <1>0 DEF Row, Status, Active
    <2>2. /\ RowInv(d, new) /\ new.status # "absent"
          /\ new.initiator = row[d].initiator
      BY <1>0 DEF RowInv, Row
    <2>3. Write(s, d, new, "schedule") /\ UNCHANGED <<expired, past>>
      BY <1>6 DEF WriteComplete
    <2> HIDE DEF d, new
    <2> QED BY <1>0, <2>1, <2>2, <2>3, WriteStep DEF d
  <1>7. CASE WriteVote(s)
    <2> DEFINE new == [row[d] EXCEPT
                         !.votes[draft.round] = draft.votes[draft.round]]
               pc == IF BothVoted(draft) THEN "advance" ELSE Free
    <2>1. /\ draft.round \in {1, 2}
          /\ draft.votes[draft.round] \in [Role -> SUBSET Kinds]
          /\ row[d].votes \in [{1, 2} -> [Role -> SUBSET Kinds]]
      BY <1>0 DEF Row
    <2>2. new \in Row
      BY <1>0, <2>1 DEF Row
    <2>3. /\ row[d].status # "absent" /\ loc[s].pc = "vote"
          /\ \A p \in Role : draft.votes[draft.round][p]
                              \subseteq past[d].chose[draft.round][p]
      BY <1>0, <1>7 DEF SlotInv, WriteVote, Free
    <2>4. \A n \in {1, 2}, p \in Role :
            new.votes[n][p] \subseteq past[d].chose[n][p]
      BY <1>0, <2>1, <2>3 DEF RowInv, Row
    <2>5. /\ new.status = row[d].status /\ new.hook = row[d].hook
          /\ new.initiator = row[d].initiator
          /\ new.selected = row[d].selected /\ new.round = row[d].round
      BY <1>0 DEF Row
    <2>6. RowInv(d, new)
      <3> HIDE DEF new, d, draft
      <3> QED BY <1>0, <2>4, <2>5 DEF RowInv
    <2>7. Write(s, d, new, pc) /\ UNCHANGED <<expired, past>>
      BY <1>7 DEF WriteVote
    <2>8. /\ pc \in {Free, "advance"} /\ d = loc[s].d
          /\ pc = "advance" => BothVoted(loc[s].draft)
      BY DEF Free
    <2> HIDE DEF d, new, pc
    <2> QED BY <1>0, <2>2, <2>3, <2>5, <2>6, <2>7, <2>8, WriteStep DEF Free
  <1>8. CASE AdvanceToAcceptance(s)
    <2>1. PICK k \in Common(draft) :
            Write(s, d, [row[d] EXCEPT !.status = "waiting_final_acceptance",
                                       !.selected = {k}, !.hook = NoHook], Free)
      BY <1>8 DEF AdvanceToAcceptance
    <2> DEFINE new == [row[d] EXCEPT !.status = "waiting_final_acceptance",
                                     !.selected = {k}, !.hook = NoHook]
    <2>2. k \in Kinds /\ \A p \in Role : k \in draft.votes[draft.round][p]
      BY DEF Common
    <2>3. draft.round \in {1, 2}
      BY <1>0 DEF Row
    <2>4. \A p \in Role : k \in past[d].chose[draft.round][p]
      BY <1>0, <1>8, <2>2 DEF SlotInv, AdvanceToAcceptance
    <2>5. new \in Row
      BY <1>0, <2>2, PendingType DEF Row, Status, Active
    <2>6. /\ new.status = "waiting_final_acceptance" /\ new.hook = NoHook
          /\ new.initiator = row[d].initiator
          /\ new.selected = {k} /\ new.round = row[d].round
          /\ new.votes = row[d].votes
      BY <1>0 DEF Row
    <2>7. RowInv(d, new)
      <3> HIDE DEF new, d, draft
      <3> QED BY <1>0, <1>n, <2>3, <2>4, <2>6 DEF RowInv
    <2>8. Write(s, d, new, Free) /\ UNCHANGED <<expired, past>>
      BY <1>8, <2>1 DEF AdvanceToAcceptance
    <2> HIDE DEF d, new
    <2> QED BY <1>0, <2>5, <2>6, <2>7, <2>8, WriteStep DEF Free
  <1>a. ASSUME loc[s].pc = "advance"
        PROVE  \A p \in Role : past[d].chose[draft.round][p] # {}
    <2> TAKE p \in Role
    <2>1. draft.votes[draft.round][p] # {}
      BY <1>0, <1>a DEF SlotInv, BothVoted
    <2>2. draft.votes[draft.round][p] \subseteq past[d].chose[draft.round][p]
      BY <1>0, <1>a DEF SlotInv
    <2> QED BY <2>1, <2>2
  <1>9. CASE AdvanceToRound2(s)
    <2> DEFINE new == [row[d] EXCEPT !.status = "model_thinking", !.round = 2]
    <2>1. new \in Row
      BY <1>0 DEF Row, Status, Active
    <2>2. \A p \in Role : past[d].chose[1][p] # {}
      BY <1>9, <1>a DEF AdvanceToRound2
    <2>3. /\ RowInv(d, new) /\ new.status # "absent"
          /\ new.initiator = row[d].initiator
      BY <1>0, <2>2 DEF RowInv, Row
    <2>4. Write(s, d, new, "schedule") /\ UNCHANGED <<expired, past>>
      BY <1>9 DEF AdvanceToRound2
    <2> HIDE DEF d, new
    <2> QED BY <1>0, <2>1, <2>3, <2>4, WriteStep DEF d
  <1>10. CASE AdvanceToModerator(s)
    <2> DEFINE new == [row[d] EXCEPT !.status = "awaiting_moderator",
                                     !.hook = Pending]
    <2>1. new \in Row
      BY <1>0, PendingType DEF Row, Status, Active
    <2>2. \A p \in Role : past[d].chose[2][p] # {}
      BY <1>10, <1>a DEF AdvanceToModerator
    <2>3. /\ RowInv(d, new) /\ new.status # "absent"
          /\ new.initiator = row[d].initiator
      BY <1>0, <1>n, <2>2 DEF RowInv, Row
    <2>4. Write(s, d, new, Free) /\ UNCHANGED <<expired, past>>
      BY <1>10 DEF AdvanceToModerator
    <2> HIDE DEF d, new
    <2> QED BY <1>0, <2>1, <2>3, <2>4, WriteStep DEF Free
  <1>11. CASE WriteFinal(s)
    <2> DEFINE status == IF draft.status = "waiting_final_acceptance"
                           THEN row[d].status ELSE draft.status
               new == [row[d] EXCEPT !.status = status, !.hook = draft.hook]
    <2>1. /\ row[d].status # "absent"
          /\ Accepting(draft.hook) \subseteq past[d].accepted
          /\ draft.status \in {"waiting_final_acceptance",
                               "awaiting_moderator", "resolved"}
          /\ draft.status = "resolved" => past[d].accepted = Role
          /\ draft.status = "awaiting_moderator" => past[d].rejected # {}
      BY <1>0, <1>11 DEF SlotInv, WriteFinal, Free
    <2>2. draft.status \in Status /\ draft.hook \in Hook
      BY <1>0 DEF Row
    <2>3. new \in Row
      BY <1>0, <2>2 DEF Row
    <2>4. /\ new.status = status /\ new.hook = draft.hook
          /\ new.initiator = row[d].initiator
          /\ new.selected = row[d].selected /\ new.round = row[d].round
          /\ new.votes = row[d].votes
      BY <1>0 DEF Row
    <2>5. RowInv(d, new) /\ new.status # "absent"
      <3> HIDE DEF new, d, draft
      <3> QED BY <1>0, <2>1, <2>4 DEF RowInv
    <2>6. Write(s, d, new, Free) /\ UNCHANGED <<expired, past>>
      BY <1>11 DEF WriteFinal
    <2> HIDE DEF d, new
    <2> QED BY <1>0, <2>3, <2>4, <2>5, <2>6, WriteStep DEF Free
  <1>12. CASE StartModel(s)
    <2>1. PastGrows /\ row' = row
      BY <1>12, PastKept DEF StartModel
    <2>2. /\ loc'[s] = IdleLoc
          /\ \A t \in Slots \ {s} : loc'[t] = loc[t]
      BY <1>12 DEF StartModel, Finish, TypeOK
    <2>3. SlotInv(s)'
      BY <2>2 DEF SlotInv, IdleLoc, Free
    <2>4. ASSUME NEW t \in Slots, t # s PROVE SlotInv(t)'
      BY <2>1, <2>2, <2>4, RowsKept, SlotStays DEF ConsentInv
    <2> QED BY <2>1, <2>3, <2>4, RowsKept DEF ConsentInv
  <1>13. CASE WriteJoin(s)
    <2> DEFINE new == [row[d] EXCEPT !.hook = draft.hook]
    <2>1. /\ row[d].status # "absent"
          /\ Accepting(draft.hook) \subseteq past[d].accepted
      BY <1>0, <1>13 DEF SlotInv, WriteJoin, Free
    <2>2. new \in Row
      BY <1>0 DEF Row
    <2>3. /\ new.status = row[d].status /\ new.hook = draft.hook
          /\ new.initiator = row[d].initiator
          /\ new.selected = row[d].selected /\ new.round = row[d].round
          /\ new.votes = row[d].votes
      BY <1>0 DEF Row
    <2>4. RowInv(d, new) /\ new.status # "absent"
      <3> HIDE DEF new, d, draft
      <3> QED BY <1>0, <2>1, <2>3 DEF RowInv
    <2>5. Write(s, d, new, Free) /\ UNCHANGED <<expired, past>>
      BY <1>13 DEF WriteJoin
    <2> HIDE DEF d, new
    <2> QED BY <1>0, <2>2, <2>3, <2>4, <2>5, WriteStep DEF Free
  <1> QED
    BY <1>1, <1>2, <1>3, <1>4, <1>5, <1>6, <1>7, <1>8, <1>9, <1>10, <1>11,
       <1>12, <1>13 DEF Statement

(* A request begins: it holds nothing its side has not just sent.          *)
LEMMA BeginStep ==
  ASSUME TypeOK, TypeOK', ConsentInv, PastGrows, NEW s \in Slots, row' = row,
         \A t \in Slots \ {s} : loc'[t] = loc[t],
         SlotInv(s)'
  PROVE  ConsentInv'
  <1>1. ASSUME NEW t \in Slots, t # s PROVE SlotInv(t)'
    BY <1>1, RowsKept, SlotStays DEF ConsentInv
  <1> QED BY <1>1, RowsKept DEF ConsentInv

LEMMA RequestConsent ==
  ASSUME TypeOK, TypeOK', ConsentInv, NEW s \in Slots, Request(s)
  PROVE  ConsentInv'
  <1> USE ActorAssumption
  <1>0. ASSUME NEW d \in Disputes, NEW pc \in RequestPC, NEW draft,
               Begin(s, d, pc, draft)
        PROVE  /\ loc'[s] = [pc |-> pc, d |-> d, draft |-> draft]
               /\ \A t \in Slots \ {s} : loc'[t] = loc[t]
               /\ row' = row /\ expired' = expired
    BY <1>0 DEF Begin, TypeOK
  <1>1. CASE ReadOpen(s)
    <2> DEFINE draft == NewRow("open_waiting_counterparty", Actor[s])
    <2>1. Begin(s, NoDispute, "insert", draft) /\ UNCHANGED past
          /\ Actor[s] \in Role
      BY <1>1 DEF ReadOpen
    <2>2. /\ loc'[s] = [pc |-> "insert", d |-> NoDispute, draft |-> draft]
          /\ \A t \in Slots \ {s} : loc'[t] = loc[t]
          /\ row' = row /\ expired' = expired
      BY <1>0, <2>1, NoDisputeType DEF RequestPC
    <2>3. PastGrows
      BY <2>1, <2>2, PastKept
    <2>4. SlotInv(s)'
      BY <2>1, <2>2 DEF SlotInv, Free
    <2> QED BY <2>2, <2>3, <2>4, BeginStep
  <1>2. ASSUME NEW d \in Disputes, ReadOverdue(s, d) PROVE ConsentInv'
    <2>1. /\ loc'[s] = [pc |-> "timeout", d |-> d, draft |-> Blank]
          /\ \A t \in Slots \ {s} : loc'[t] = loc[t]
          /\ row' = row /\ expired' = expired
      BY <1>0, <1>2 DEF ReadOverdue, RequestPC
    <2>2. PastGrows
      BY <1>2, <2>1, PastKept DEF ReadOverdue
    <2>3. SlotInv(s)'
      BY <1>2, <2>1 DEF ReadOverdue, SlotInv
    <2> QED BY <2>1, <2>2, <2>3, BeginStep
  <1>3. ASSUME NEW d \in Disputes, ReadAccept(s, d) PROVE ConsentInv'
    <2>1. /\ loc'[s] = [pc |-> "accept", d |-> d, draft |-> Blank]
          /\ \A t \in Slots \ {s} : loc'[t] = loc[t]
          /\ row' = row /\ expired' = expired
      BY <1>0, <1>3 DEF ReadAccept, RequestPC
    <2>2. past' = [past EXCEPT ![d].agreed = @ \cup {Actor[s]}]
      BY <1>3 DEF ReadAccept
    <2>3. PastGrows
      BY <2>1, <2>2 DEF PastGrows, TypeOK, Past
    <2>4. Other(row'[d].initiator) \in past'[d].agreed
      BY <1>3, <2>1, <2>2 DEF ReadAccept, CounterpartyMayAnswer, TypeOK, Past
    <2>5. row'[d].status # "absent"
      BY <1>3, <2>1 DEF ReadAccept, CounterpartyMayAnswer
    <2>6. SlotInv(s)'
      BY <2>1, <2>4, <2>5 DEF SlotInv
    <2> QED BY <2>1, <2>3, <2>6, BeginStep
  <1>4. ASSUME NEW d \in Disputes, ReadRespond(s, d) PROVE ConsentInv'
    <2>1. /\ loc'[s] = [pc |-> "respond", d |-> d, draft |-> Blank]
          /\ \A t \in Slots \ {s} : loc'[t] = loc[t]
          /\ row' = row /\ expired' = expired
      BY <1>0, <1>4 DEF ReadRespond, RequestPC
    <2>2. PastGrows
      BY <1>4, <2>1, PastKept DEF ReadRespond
    <2>3. SlotInv(s)'
      BY <1>4, <2>1 DEF ReadRespond, CounterpartyMayAnswer, SlotInv
    <2> QED BY <2>1, <2>2, <2>3, BeginStep
  <1>5. ASSUME NEW d \in Disputes, ReadAnswer(s, d) PROVE ConsentInv'
    <2>1. PICK draft : Begin(s, d, "answer", draft)
      BY <1>5 DEF ReadAnswer
    <2>2. /\ loc'[s] = [pc |-> "answer", d |-> d, draft |-> draft]
          /\ \A t \in Slots \ {s} : loc'[t] = loc[t]
          /\ row' = row /\ expired' = expired
      BY <1>0, <2>1 DEF RequestPC
    <2>3. PastGrows
      BY <1>5, <2>2, PastKept DEF ReadAnswer
    <2>4. SlotInv(s)'
      BY <1>5, <2>2 DEF ReadAnswer, SlotInv
    <2> QED BY <2>2, <2>3, <2>4, BeginStep
  <1>6. ASSUME NEW d \in Disputes, ReadVote(s, d) PROVE ConsentInv'
    <2> DEFINE r == row[d].round
               p == Actor[s]
               draft(ks) ==
                 [Blank EXCEPT !.round = r,
                               !.votes[r] = [row[d].votes[r] EXCEPT ![p] = ks]]
    <2>1. PICK ks \in Ballots[p] :
            /\ Begin(s, d, "vote", draft(ks))
            /\ past' = [past EXCEPT ![d].chose[r][p] = @ \cup ks]
      BY <1>6 DEF ReadVote
    <2>2. /\ r \in {1, 2} /\ p \in Role
          /\ row[d].votes \in [{1, 2} -> [Role -> SUBSET Kinds]]
          /\ past[d].chose \in [{1, 2} -> [Role -> SUBSET Kinds]]
      BY <1>6 DEF ReadVote, TypeOK, Row, Past
    <2>3. /\ loc'[s] = [pc |-> "vote", d |-> d, draft |-> draft(ks)]
          /\ \A t \in Slots \ {s} : loc'[t] = loc[t]
          /\ row' = row /\ expired' = expired
      BY <1>0, <2>1 DEF RequestPC
    <2>4. /\ past'[d].chose = [past[d].chose EXCEPT ![r][p] = @ \cup ks]
          /\ past'[d].agreed = past[d].agreed
          /\ past'[d].accepted = past[d].accepted
          /\ past'[d].rejected = past[d].rejected
          /\ past'[d].failed = past[d].failed
          /\ \A e \in Disputes \ {d} : past'[e] = past[e]
      BY ZenonT(40), <2>1 DEF TypeOK, Past
    <2>5. /\ \A n \in {1, 2}, q \in Role :
               past[d].chose[n][q] \subseteq past'[d].chose[n][q]
          /\ ks \subseteq past'[d].chose[r][p]
      <3> HIDE DEF r, p
      <3>1. \A n \in {1, 2}, q \in Role :
              past'[d].chose[n][q] = IF n = r /\ q = p
                                       THEN past[d].chose[n][q] \cup ks
                                       ELSE past[d].chose[n][q]
        <4> DEFINE c == past[d].chose
                   c2 == past'[d].chose
        <4>1. c \in [{1, 2} -> [Role -> SUBSET Kinds]]
              /\ c2 = [c EXCEPT ![r] = [c[r] EXCEPT ![p] = c[r][p] \cup ks]]
          BY <2>2, <2>4
        <4> HIDE DEF c, c2
        <4>2. \A n \in {1, 2} :
                c2[n] = IF n = r THEN [c[r] EXCEPT ![p] = c[r][p] \cup ks]
                                 ELSE c[n]
          BY <2>2, <4>1
        <4>3. \A q \in Role : [c[r] EXCEPT ![p] = c[r][p] \cup ks][q]
                              = IF q = p THEN c[r][q] \cup ks ELSE c[r][q]
          BY <2>2, <4>1
        <4>4. \A n \in {1, 2}, q \in Role :
                c2[n][q] = IF n = r /\ q = p THEN c[n][q] \cup ks ELSE c[n][q]
          BY <4>2, <4>3
        <4> QED BY <4>4 DEF c, c2
      <3> QED BY <2>2, <3>1
    <2>6. PastGrows
      BY <2>3, <2>4, <2>5 DEF PastGrows
    <2>7. draft(ks).round = r
          /\ draft(ks).votes[r] = [row[d].votes[r] EXCEPT ![p] = ks]
      BY <2>2, BlankType DEF Row
    <2>8. ASSUME NEW q \in Role
          PROVE  draft(ks).votes[r][q] \subseteq past'[d].chose[r][q]
      <3>1. row[d].votes[r][q] \subseteq past[d].chose[r][q]
        BY <2>2 DEF ConsentInv, RowInv
      <3>2. draft(ks).votes[r][q] = IF q = p THEN ks ELSE row[d].votes[r][q]
        BY <2>2, <2>7
      <3> HIDE DEF draft, r, p
      <3> QED BY <2>2, <2>5, <3>1, <3>2
    <2>9. row'[d].status # "absent"
      BY <1>6, <2>3 DEF ReadVote, Voting
    <2>10. SlotInv(s)'
      <3>1. /\ loc'[s].pc = "vote" /\ loc'[s].d = d
            /\ loc'[s].draft = draft(ks)
        BY <2>3
      <3>2. \A q \in Role : loc'[s].draft.votes[loc'[s].draft.round][q]
              \subseteq past'[loc'[s].d].chose[loc'[s].draft.round][q]
        <4> HIDE DEF draft, r
        <4> QED BY <3>1, <2>7, <2>8
      <3> QED BY <3>1, <3>2, <2>9 DEF SlotInv
    <2> QED BY <2>3, <2>6, <2>10, BeginStep
  <1>7. ASSUME NEW d \in Disputes, NEW decision \in {"accepted", "rejected"},
               ReadFinal(s, d, decision)
        PROVE  ConsentInv'
    <2> DEFINE p == Actor[s]
               final == [row[d].hook.final EXCEPT ![p] = decision]
               next == IF decision = "rejected" THEN "awaiting_moderator"
                       ELSE IF \A q \in Role : final[q] = "accepted"
                         THEN "resolved" ELSE row[d].status
               state == CASE next = "resolved"           -> "accepted"
                          [] next = "awaiting_moderator" -> "pending"
                          [] OTHER                       -> row[d].hook.state
               draft == [Blank EXCEPT !.status = next,
                           !.hook = [state |-> state, final |-> final]]
    <2>1. /\ Begin(s, d, "final", draft)
          /\ p \in Role
          /\ row[d].status = "waiting_final_acceptance"
          /\ row[d].hook \in Hook
      BY <1>7 DEF ReadFinal, TypeOK, Row
    <2>2. /\ loc'[s] = [pc |-> "final", d |-> d, draft |-> draft]
          /\ \A t \in Slots \ {s} : loc'[t] = loc[t]
          /\ row' = row /\ expired' = expired
      <3> HIDE DEF draft
      <3> QED BY <1>0, <2>1 DEF RequestPC
    <2>3. /\ past'[d].accepted = IF decision = "accepted"
               THEN past[d].accepted \cup {p} ELSE past[d].accepted
          /\ past'[d].rejected = IF decision = "accepted"
               THEN past[d].rejected ELSE past[d].rejected \cup {p}
          /\ past'[d].agreed = past[d].agreed
          /\ past'[d].chose = past[d].chose
          /\ past'[d].failed = past[d].failed
          /\ \A e \in Disputes \ {d} : past'[e] = past[e]
      BY <1>7 DEF ReadFinal, TypeOK, Past
    <2>4. PastGrows
      BY <2>2, <2>3 DEF PastGrows
    <2>5. /\ draft.status = next
          /\ draft.hook.final = final
      BY BlankType DEF Row
    <2>6. ASSUME NEW q \in Role, final[q] = "accepted"
          PROVE  q \in past'[d].accepted
      <3>1. row[d].hook.final[q] = "accepted" => q \in past[d].accepted
        BY DEF ConsentInv, RowInv, Accepting
      <3>2. final[q] = IF q = p THEN decision ELSE row[d].hook.final[q]
        BY <2>1 DEF Hook
      <3> HIDE DEF final, p
      <3> QED BY <2>3, <2>6, <3>1, <3>2
    <2>7. Accepting(draft.hook) \subseteq past'[d].accepted
      <3> HIDE DEF draft, final
      <3> QED BY <2>5, <2>6 DEF Accepting
    <2>8. /\ next \in {"waiting_final_acceptance", "awaiting_moderator",
                       "resolved"}
          /\ next = "awaiting_moderator" => past'[d].rejected # {}
      BY <2>1, <2>3
    <2>9. next = "resolved" => past'[d].accepted = Role
      <3>1. next = "resolved" => \A q \in Role : final[q] = "accepted"
        BY <2>1
      <3>2. past'[d].accepted \subseteq Role
        BY DEF TypeOK, Past
      <3> HIDE DEF final, next
      <3> QED BY <2>6, <3>1, <3>2
    <2>10. SlotInv(s)'
      <3> HIDE DEF draft, next, final
      <3> QED BY <2>1, <2>2, <2>5, <2>7, <2>8, <2>9 DEF SlotInv
    <2> QED BY <2>2, <2>4, <2>10, BeginStep
  <1>8. ASSUME NEW d \in Disputes, ReadJoin(s, d) PROVE ConsentInv'
    <2> DEFINE draft == [Blank EXCEPT
                           !.hook = [row[d].hook EXCEPT !.state = "in_progress"]]
    <2>1. Begin(s, d, "join", draft) /\ UNCHANGED past
          /\ row[d].status = "awaiting_moderator" /\ row[d].hook \in Hook
      BY <1>8 DEF ReadJoin, TypeOK, Row
    <2>2. /\ loc'[s] = [pc |-> "join", d |-> d, draft |-> draft]
          /\ \A t \in Slots \ {s} : loc'[t] = loc[t]
          /\ row' = row /\ expired' = expired
      <3> HIDE DEF draft
      <3> QED BY <1>0, <2>1 DEF RequestPC
    <2>3. PastGrows
      BY <2>1, <2>2, PastKept
    <2>4. draft.hook.final = row[d].hook.final
      BY <2>1, BlankType DEF Row, Hook
    <2>5. Accepting(draft.hook) \subseteq past'[d].accepted
      <3> HIDE DEF draft
      <3> QED BY <2>1, <2>4 DEF Accepting, ConsentInv, RowInv
    <2>6. SlotInv(s)'
      <3> HIDE DEF draft
      <3> QED BY <2>1, <2>2, <2>5 DEF SlotInv
    <2> QED BY <2>2, <2>3, <2>6, BeginStep
  <1> QED BY <1>1, <1>2, <1>3, <1>4, <1>5, <1>6, <1>7, <1>8 DEF Request

(* A model turn writes what its dispute is by now into another stage; it   *)
(* never touches what the sides have sent, except to drop votes.           *)
LEMMA TurnConsent ==
  ASSUME TypeOK, TypeOK', ConsentInv, NEW w \in Turns,
         ModelStep(w) \/ TurnDies(w) \/ TurnRaises(w)
  PROVE  ConsentInv'
  <1>d. PICK d \in Disputes : d = turn[w].d
    BY Referents
  <1>0. d \in Disputes /\ row[d] \in Row /\ RowInv(d, row[d])
    BY DEF ConsentInv, TypeOK
  <1>1. ASSUME UNCHANGED <<row, expired, loc, past>> PROVE ConsentInv'
    <2>1. PastGrows
      BY <1>1, PastKept
    <2> QED BY <1>1, <2>1, RowsKept, SlotStays DEF ConsentInv
  <1>2. ASSUME NEW new \in Row, WriteTurn(w, new), UNCHANGED past,
               RowInv(d, new), new.status # "absent",
               new.initiator = row[d].initiator
        PROVE  ConsentInv'
    <2>1. /\ PastGrows /\ row' = [row EXCEPT ![d] = new]
          /\ \A s \in Slots : loc'[s] = loc[s]
      BY <1>d, <1>2, PastKept DEF WriteTurn
    <2>2. RowInv(d, new)'
      BY <1>0, <1>2, <2>1, RowStays
    <2>3. (\A e \in Disputes : RowInv(e, row[e])') /\ RowsPersist
      BY <1>0, <1>2, <2>1, <2>2, RowWritten
    <2> QED BY <2>1, <2>3, SlotStays DEF ConsentInv
  <1>3. ASSUME HandOver(w) PROVE ConsentInv'
    <2>n. PICK new \in Row :
            new = [row[d] EXCEPT !.status = "awaiting_moderator"]
      BY <1>0 DEF Row, Status, Active
    <2>1. /\ row' = [row EXCEPT ![d] = new]
          /\ expired' = expired
          /\ past'[d] = [past[d] EXCEPT !.failed = TRUE]
          /\ \A e \in Disputes \ {d} : past'[e] = past[e]
          /\ \A s \in Slots : loc'[s] = loc[s]
      BY <1>d, <1>3, <2>n DEF HandOver, TypeOK
    <2>2. /\ past'[d].agreed = past[d].agreed
          /\ past'[d].accepted = past[d].accepted
          /\ past'[d].rejected = past[d].rejected
          /\ past'[d].chose = past[d].chose
          /\ past'[d].failed
      BY <1>0, <2>1 DEF TypeOK, Past
    <2>3. PastGrows
      BY <2>1, <2>2 DEF PastGrows
    <2>4. /\ new \in Row /\ new.status = "awaiting_moderator"
          /\ new.hook = row[d].hook /\ new.votes = row[d].votes
          /\ new.initiator = row[d].initiator
          /\ new.selected = row[d].selected /\ new.round = row[d].round
      BY <1>0, <2>n DEF Row
    <2>5. RowInv(d, new)'
      <3>1. /\ \A n \in {1, 2}, p \in Role :
                 new.votes[n][p] \subseteq past[d].chose[n][p]
            /\ Accepting(new.hook) \subseteq past[d].accepted
            /\ \A k \in new.selected :
                 \E n \in {1, 2} : \A p \in Role : k \in past[d].chose[n][p]
            /\ new.round = 2 => \A p \in Role : past[d].chose[1][p] # {}
        BY <1>0, <2>4 DEF RowInv
      <3> QED BY <2>2, <2>4, <3>1 DEF RowInv
    <2>6. (\A e \in Disputes : RowInv(e, row[e])') /\ RowsPersist
      BY <1>0, <2>1, <2>3, <2>4, <2>5, RowWritten
    <2> QED BY <2>1, <2>3, <2>6, SlotStays DEF ConsentInv
  <1>4. CASE AskQuestions(w)
    <2>1. PICK ps \in SUBSET Role :
            /\ WriteTurn(w, [row[d] EXCEPT
                               !.status = "waiting_clarification_answers",
                               !.asked = ps, !.answers = {}])
            /\ UNCHANGED past
      BY <1>d, <1>4 DEF AskQuestions
    <2> DEFINE new == [row[d] EXCEPT !.status = "waiting_clarification_answers",
                                     !.asked = ps, !.answers = {}]
    <2>2. new \in Row
      BY <1>0 DEF Row, Status, Active
    <2>3. RowInv(d, new) /\ new.status # "absent"
          /\ new.initiator = row[d].initiator
      BY <1>0 DEF RowInv, Row
    <2> HIDE DEF new
    <2> QED BY <1>2, <2>1, <2>2, <2>3 DEF new
  <1>5. CASE OfferRound1(w)
    <2> DEFINE votes == [row[d].votes EXCEPT ![1] = NoVotes]
               new == [row[d] EXCEPT !.status = "waiting_round_1_votes",
                          !.ready = @ \cup {1}, !.votes[1] = NoVotes,
                          !.asked = {}, !.answers = {}]
    <2>1. votes \in [{1, 2} -> [Role -> SUBSET Kinds]]
      BY <1>0, NoVotesType DEF Row
    <2>2. new \in Row
      BY <1>0, <2>1 DEF Row, Status, Active, Voting
    <2>3. /\ new.status = "waiting_round_1_votes" /\ new.hook = row[d].hook
          /\ new.votes = votes /\ new.initiator = row[d].initiator
          /\ new.selected = row[d].selected /\ new.round = row[d].round
      BY <1>0 DEF Row
    <2>4. \A n \in {1, 2}, p \in Role : votes[n][p] \subseteq past[d].chose[n][p]
      BY <1>0 DEF RowInv, NoVotes, Row
    <2>5. RowInv(d, new)
      <3> HIDE DEF new, votes
      <3> QED BY <1>0, <2>3, <2>4 DEF RowInv
    <2>6. WriteTurn(w, new) /\ UNCHANGED past
      BY <1>d, <1>5 DEF OfferRound1
    <2> HIDE DEF new
    <2> QED BY <1>2, <2>2, <2>3, <2>5, <2>6
  <1>6. CASE OfferRound2(w)
    <2> DEFINE votes == [row[d].votes EXCEPT ![2] = NoVotes]
               new == [row[d] EXCEPT !.status = "waiting_round_2_votes",
                          !.ready = @ \cup {2}, !.votes[2] = NoVotes]
    <2>1. votes \in [{1, 2} -> [Role -> SUBSET Kinds]]
      BY <1>0, NoVotesType DEF Row
    <2>2. new \in Row
      BY <1>0, <2>1 DEF Row, Status, Active, Voting
    <2>3. /\ new.status = "waiting_round_2_votes" /\ new.hook = row[d].hook
          /\ new.votes = votes /\ new.initiator = row[d].initiator
          /\ new.selected = row[d].selected /\ new.round = row[d].round
      BY <1>0 DEF Row
    <2>4. \A n \in {1, 2}, p \in Role : votes[n][p] \subseteq past[d].chose[n][p]
      BY <1>0 DEF RowInv, NoVotes, Row
    <2>5. RowInv(d, new)
      <3> HIDE DEF new, votes
      <3> QED BY <1>0, <2>3, <2>4 DEF RowInv
    <2>6. WriteTurn(w, new) /\ UNCHANGED past
      BY <1>d, <1>6 DEF OfferRound2
    <2> HIDE DEF new
    <2> QED BY <1>2, <2>2, <2>3, <2>5, <2>6
  <1>7. CASE (TurnFails(w) /\ HandOver(w)) \/ TurnRaises(w)
    BY <1>3, <1>7 DEF TurnRaises
  <1>9. CASE TurnFails(w) /\ ~HandOver(w)
    BY <1>1, <1>9 DEF TurnFails
  <1>8. CASE \/ AcquireSlot(w) \/ ReadTurn(w)
             \/ ReleaseSlot(w) \/ TurnDies(w)
    BY <1>1, <1>8 DEF AcquireSlot, ReadTurn, ReleaseSlot, TurnDies
  <1> QED BY <1>4, <1>5, <1>6, <1>7, <1>8, <1>9 DEF ModelStep

LEMMA ConsentInit == Init => ConsentInv
  <1> SUFFICES ASSUME Init PROVE ConsentInv
    OBVIOUS
  <1>1. \A d \in Disputes : row[d] = NewRow("absent", "customer")
    BY DEF Init
  <1>2. ASSUME NEW d \in Disputes PROVE RowInv(d, row[d])
    BY <1>1 DEF RowInv, NewRow, NoVotes, NoHook, NoFinal, Accepting
  <1>3. ASSUME NEW s \in Slots PROVE SlotInv(s)
    <2>1. loc[s].pc = Free
      BY DEF Init, IdleLoc
    <2> QED BY <2>1 DEF SlotInv, Free
  <1> QED BY <1>2, <1>3 DEF ConsentInv

LEMMA ConsentStep ==
  ASSUME TypeOK, TypeOK', ConsentInv, [Next]_vars
  PROVE  ConsentInv'
  (* Slots that become idle, everything else as it is.                     *)
  <1>1. ASSUME UNCHANGED <<row, expired, past>>,
               \A s \in Slots : loc'[s] = loc[s] \/ loc'[s] = IdleLoc
        PROVE  ConsentInv'
    <2>1. PastGrows
      BY <1>1, PastKept
    <2>2. ASSUME NEW s \in Slots, loc'[s] = IdleLoc PROVE SlotInv(s)'
      <3>1. loc'[s].pc = Free
        BY <2>2 DEF IdleLoc
      <3> QED BY <3>1 DEF SlotInv, Free
    <2> QED BY <1>1, <2>1, <2>2, RowsKept, SlotStays DEF ConsentInv
  <1>2. ASSUME NEW s \in Slots, RequestDies(s) PROVE ConsentInv'
    BY <1>1, <1>2 DEF RequestDies, Finish, TypeOK
  <1>3. CASE Restart
    BY <1>1, <1>3 DEF Restart
  <1>4. CASE UNCHANGED vars
    BY <1>1, <1>4 DEF vars
  <1>5. ASSUME NEW d \in Disputes, DeadlinePasses(d) PROVE ConsentInv'
    <2>1. PastGrows /\ row' = row /\ loc' = loc
      BY <1>5 DEF DeadlinePasses, PastGrows
    <2> QED BY <2>1, RowsKept, SlotStays DEF ConsentInv
  <1> QED
    BY <1>2, <1>3, <1>4, <1>5, RequestConsent, StatementConsent, TurnConsent
       DEF Next

(* However the requests of the two sides, retries included, overlap with   *)
(* each other, with model turns, moderators, failures and restarts: no     *)
(* dispute is conceded, settled or resolved without the sides having asked *)
(* for that outcome.                                                       *)
THEOREM Consent == Spec => []NothingImposed
  <1>1. Init => TypeOK /\ ConsentInv
    BY InitType, ConsentInit
  <1>2. TypeOK /\ ConsentInv /\ [Next]_vars => (TypeOK /\ ConsentInv)'
    BY NextType, ConsentStep
  <1>3. TypeOK /\ ConsentInv => NothingImposed
    BY ConsentImplies
  <1> QED BY <1>1, <1>2, <1>3, PTL DEF Spec

(* And none is handed to a moderator without silence, failure, refusal or  *)
(* a second round in which both voted.                                     *)
THEOREM Escalation == Spec => []EscalatedForCause
  <1>1. Init => TypeOK /\ ConsentInv
    BY InitType, ConsentInit
  <1>2. TypeOK /\ ConsentInv /\ [Next]_vars => (TypeOK /\ ConsentInv)'
    BY NextType, ConsentStep
  <1>3. TypeOK /\ ConsentInv => EscalatedForCause
    BY ConsentImplies
  <1> QED BY <1>1, <1>2, <1>3, PTL DEF Spec

----------------------------------------------------------------------------
(* One active dispute.  Every statement that may make a dispute active is  *)
(* subject to the index, that of a stale handler as well.                  *)

OneActive ==
  \A d, e \in Disputes :
    row[d].status \in Active /\ row[e].status \in Active => d = e

LEMMA OneActiveCounts == OneActive => OneActiveDispute
  <1> DEFINE active == {d \in Disputes : row[d].status \in Active}
  <1> SUFFICES ASSUME OneActive PROVE Cardinality(active) <= 1
    BY DEF OneActiveDispute
  <1>1. CASE active = {}
    <2>1. Cardinality(active) = 0
      BY <1>1, FS_EmptySet
    <2> QED BY <2>1
  <1>2. CASE active # {}
    <2>1. PICK d \in active : TRUE
      BY <1>2
    <2>2. active = {d}
      BY <2>1 DEF OneActive
    <2>3. Cardinality(active) = 1
      BY <2>2, FS_Singleton
    <2> QED BY <2>3
  <1> QED BY <1>1, <1>2

RowAllowed ==
  \/ UNCHANGED row
  \/ \E d \in Disputes, new \in Row : /\ IndexAllows(d, new.status)
                                      /\ row' = [row EXCEPT ![d] = new]

LEMMA AllowedKeepsOne ==
  ASSUME TypeOK, OneActive, RowAllowed
  PROVE  OneActive'
  <1>1. CASE UNCHANGED row
    BY <1>1 DEF OneActive
  <1>2. ASSUME NEW d \in Disputes, NEW new \in Row, IndexAllows(d, new.status),
               row' = [row EXCEPT ![d] = new]
        PROVE  OneActive'
    <2>1. row'[d] = new /\ \A e \in Disputes \ {d} : row'[e] = row[e]
      BY <1>2 DEF TypeOK
    <2>2. CASE new.status \in Active
      BY <1>2, <2>1, <2>2 DEF IndexAllows, OneActive
    <2>3. CASE new.status \notin Active
      BY <2>1, <2>3 DEF OneActive
    <2> QED BY <2>2, <2>3
  <1> QED BY <1>1, <1>2 DEF RowAllowed

LEMMA RowTyped ==
  ASSUME TypeOK, TypeOK', NEW d \in Disputes, NEW new,
         row' = [row EXCEPT ![d] = new]
  PROVE  new \in Row
  BY DEF TypeOK

LEMMA StepAllowed ==
  ASSUME TypeOK, TypeOK', [Next]_vars
  PROVE  RowAllowed
  <1>1. ASSUME NEW s \in Slots, NEW d \in Disputes, NEW new, NEW pc,
               Write(s, d, new, pc)
        PROVE  RowAllowed
    <2>1. CASE IndexAllows(d, new.status)
      <3>1. row' = [row EXCEPT ![d] = new]
        BY <1>1, <2>1 DEF Write
      <3> QED BY <2>1, <3>1, RowTyped DEF RowAllowed
    <2>2. CASE ~IndexAllows(d, new.status)
      BY <1>1, <2>2 DEF Write, RowAllowed
    <2> QED BY <2>1, <2>2
  <1>2. ASSUME NEW s \in Slots, Statement(s) PROVE RowAllowed
    <2>1. loc[s].d \in Disputes
      BY Referents
    <2>2. CASE StartModel(s)
      BY <2>2 DEF StartModel, RowAllowed
    <2>3. CASE ~StartModel(s)
      <3>1. \E d \in Disputes : \E new, pc : Write(s, d, new, pc)
        BY <1>2, <2>1, <2>3
           DEF Statement, InsertDispute, WriteTimeout, WriteAccept,
               WriteRespond, WriteAnswer, WriteComplete, WriteVote,
               AdvanceToAcceptance, AdvanceToRound2, AdvanceToModerator,
               WriteFinal, WriteJoin
      <3> QED BY <1>1, <3>1
    <2> QED BY <2>2, <2>3
  <1>3. ASSUME NEW w \in Turns, NEW new, WriteTurn(w, new) PROVE RowAllowed
    BY <1>3, Referents, RowTyped DEF WriteTurn, RowAllowed
  <1>4. ASSUME NEW w \in Turns, HandOver(w),
               IndexAllows(turn[w].d, "awaiting_moderator")
        PROVE  RowAllowed
    <2> DEFINE d == turn[w].d
               new == [row[d] EXCEPT !.status = "awaiting_moderator"]
    <2>1. d \in Disputes /\ new \in Row /\ new.status = "awaiting_moderator"
      <3>1. d \in Disputes /\ row[d] \in Row
        BY Referents
      <3>2. "awaiting_moderator" \in Status
        BY DEF Status, Active
      <3>3. new.status = "awaiting_moderator"
        BY <3>1 DEF Row
      <3> QED BY <3>1, <3>2, <3>3, RowUpdates
    <2>2. row' = [row EXCEPT ![d] = new]
      BY <1>4 DEF HandOver
    <2> HIDE DEF new
    <2> QED BY <1>4, <2>1, <2>2 DEF RowAllowed
  <1>5. ASSUME NEW w \in Turns, ModelStep(w) \/ TurnDies(w) \/ TurnRaises(w)
        PROVE  RowAllowed
    <2>1. CASE \/ AcquireSlot(w) \/ ReadTurn(w) \/ ReleaseSlot(w)
               \/ TurnDies(w)
      BY <2>1 DEF AcquireSlot, ReadTurn, ReleaseSlot, TurnDies, RowAllowed
    <2>2. CASE AskQuestions(w) \/ OfferRound1(w) \/ OfferRound2(w)
      BY <2>2, <1>3 DEF AskQuestions, OfferRound1, OfferRound2
    <2>3. CASE TurnFails(w)
      BY <2>3, <1>4 DEF TurnFails, RowAllowed
    <2>4. CASE TurnRaises(w)
      BY <2>4, <1>4 DEF TurnRaises
    <2> QED BY <1>5, <2>1, <2>2, <2>3, <2>4 DEF ModelStep
  <1>6. ASSUME NEW s \in Slots, Request(s) PROVE UNCHANGED row
    BY <1>6 DEF Request, ReadOpen, ReadOverdue, ReadAccept, ReadRespond,
                ReadAnswer, ReadVote, ReadFinal, ReadJoin, Begin
  <1>7. CASE \/ \E s \in Slots : RequestDies(s)
             \/ \E d \in Disputes : DeadlinePasses(d)
             \/ Restart
             \/ UNCHANGED vars
    BY <1>7 DEF RequestDies, DeadlinePasses, Restart, vars, RowAllowed
  <1>8. (\E s \in Slots : Request(s)) => RowAllowed
    BY <1>6 DEF RowAllowed
  <1> QED BY <1>2, <1>5, <1>7, <1>8 DEF Next

LEMMA OneActiveAlways == Spec => [](TypeOK /\ OneActive)
  <1>1. Init => TypeOK /\ OneActive
    <2>1. Init => \A d \in Disputes : row[d].status = "absent"
      BY DEF Init, NewRow
    <2>2. "absent" \notin Active
      BY DEF Active, Voting
    <2> QED BY <2>1, <2>2, InitType DEF OneActive
  <1>2. TypeOK /\ OneActive /\ [Next]_vars => (TypeOK /\ OneActive)'
    BY NextType, StepAllowed, AllowedKeepsOne
  <1> QED BY <1>1, <1>2, PTL DEF Spec

(* A thread never has two active disputes, whichever stale handler, model  *)
(* turn or moderator writes last.                                          *)
THEOREM OneDisputeAtATime == Spec => []OneActiveDispute
  BY OneActiveAlways, OneActiveCounts, PTL
=============================================================================
