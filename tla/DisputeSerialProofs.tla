------------------------ MODULE DisputeSerialProofs ------------------------
(***************************************************************************)
(* Proofs about DisputeSerial, for any number of disputes, options, slots, *)
(* turns and faults: users' requests that do not overlap are never left    *)
(* waiting in vain, leave a closed dispute alone and implement             *)
(* DisputeProtocol, whatever model turns, moderators, restarts and failed  *)
(* requests do in between; and what DisputeProtocol promises about         *)
(* settlements therefore holds of the rows.                                *)
(***************************************************************************)
EXTENDS DisputeSerial, DisputeProofs

----------------------------------------------------------------------------
(* The invariant.                                                          *)

User(s) == Actor[s] # "admin"

OneByOne ==
  \A s, t \in Slots :
    User(s) /\ User(t) /\ loc[s].pc # Free /\ loc[t].pc # Free => s = t

AdminsJoin ==
  \A s \in Slots : loc[s].pc # Free => (loc[s].pc = "join" <=> ~User(s))

(* A row between two statements.                                           *)
RowFits(r) ==
  /\ r.status = "absent" => r = Blank
  /\ r.status = "open_waiting_counterparty"
       => r.round = 1 /\ r.votes[1] = NoVotes
  /\ r.round = 1 => r.votes[2] = NoVotes
  /\ r.status \in {"open_waiting_counterparty", "model_thinking",
                   "waiting_clarification_answers"} \cup Voting
       => Accepting(r.hook) = {}
  /\ r.status = "waiting_final_acceptance" => Accepting(r.hook) # Role

(* What a request of p at l.pc has read of its row, r by now, is still so. *)
Seen(l, p, r) ==
  LET draft == l.draft IN
  /\ l.pc = "insert" => draft = NewRow("open_waiting_counterparty", p)
  /\ l.pc \in {"timeout", "accept", "respond"}
       => r.status = "open_waiting_counterparty"
  /\ l.pc = "answer" => /\ r.status = "waiting_clarification_answers"
                        /\ p \in Required(r) \ r.answers
                        /\ draft.asked = r.asked
                        /\ draft.answers = r.answers \cup {p}
  /\ l.pc = "complete" => /\ r.status = "waiting_clarification_answers"
                          /\ Required(r) \subseteq r.answers
  /\ l.pc \in {"vote", "advance"} => /\ r.status \in Voting
                                     /\ draft.round = r.round
  /\ l.pc = "vote" =>
       \E ks \in (SUBSET Kinds) \ {{}} :
         draft.votes[r.round] = [r.votes[r.round] EXCEPT ![p] = ks]
  /\ l.pc = "advance" => /\ draft.votes[r.round] = r.votes[r.round]
                         /\ BothVoted(r)
  /\ l.pc = "final" =>
       /\ r.status = "waiting_final_acceptance"
       /\ \E decision \in {"accepted", "rejected"} :
            /\ r.hook.final[p] # decision
            /\ draft.hook.final = [r.hook.final EXCEPT ![p] = decision]
            /\ draft.status =
                 IF decision = "rejected" THEN "awaiting_moderator"
                 ELSE IF Accepting(draft.hook) = Role THEN "resolved"
                 ELSE "waiting_final_acceptance"
  /\ l.pc = "join" => /\ r.status = "awaiting_moderator"
                      /\ draft.hook.final = r.hook.final

Sees(s, r) ==
  /\ loc[s].pc = "insert" => \A d \in Disputes : row[d].status \notin Active
  /\ Seen(loc[s], Actor[s], r)

(* A turn that calls the model writes to the row it has read.              *)
Calls(w, r) ==
  turn[w].pc = "calling" => /\ r.status = "model_thinking"
                            /\ r.round = turn[w].round

(* Row r waits for the statement pc, and the request it is of is under way.*)
Ready(r, pc) ==
  \/ pc = "advance" /\ r.status \in Voting /\ BothVoted(r)
  \/ pc = "complete" /\ r.status = "waiting_clarification_answers"
                     /\ Required(r) \subseteq r.answers

Moving ==
  faults = 0 =>
    \A d \in Disputes, pc \in {"advance", "complete"} :
      Ready(row[d], pc) => Due(d, pc)

SerialInv ==
  /\ OneByOne /\ AdminsJoin
  /\ \A d \in Disputes : RowFits(row[d])
  /\ \A s \in Slots : Sees(s, row[loc[s].d])
  /\ \A w \in Turns : Calls(w, row[turn[w].d])
  /\ Moving

LEMMA SerialInit == Init => SerialInv
  <1> SUFFICES ASSUME Init PROVE SerialInv
    OBVIOUS
  <1>1. \A s \in Slots : loc[s].pc = Free
    BY DEF Init, IdleLoc
  <1>2. \A w \in Turns : turn[w].pc = Free
    BY DEF Init, IdleTurn
  <1>3. \A d \in Disputes : row[d] = Blank
    BY DEF Init, Blank
  <1>4. /\ Blank.status = "absent" /\ Blank.round = 1
        /\ Blank.votes[2] = NoVotes
    BY DEF Blank, NewRow
  <1>5. \A d \in Disputes : RowFits(row[d])
    BY <1>3, <1>4 DEF RowFits, Voting
  <1>6. \A s \in Slots : Sees(s, row[loc[s].d])
    BY <1>1 DEF Sees, Seen, Free
  <1>7. Moving
    BY <1>3, <1>4 DEF Moving, Ready, Voting
  <1> QED
    BY <1>1, <1>2, <1>5, <1>6, <1>7
       DEF SerialInv, OneByOne, AdminsJoin, Calls, Free

(* A user's request is the only one of users.                              *)
Alone(s) ==
  /\ User(s)
  /\ \A t \in Slots \ {s} : loc[t].pc \in {Free, "join"}

LEMMA UserView ==
  ASSUME ~Overlap, SerialInv, NEW s \in Slots, User(s),
         loc[s].pc # Free \/ MayBegin(s)
  PROVE  Alone(s)
  <1> SUFFICES ASSUME NEW t \in Slots \ {s}, loc[t].pc # Free
               PROVE  loc[t].pc = "join"
    BY DEF Alone
  <1>1. ~User(t)
    BY DEF SerialInv, OneByOne, MayBegin, User
  <1> QED BY <1>1 DEF SerialInv, AdminsJoin

(* What a request has read stays so when its row does.                     *)
LEMMA SeesKept ==
  ASSUME NEW t, loc'[t] = loc[t], row'[loc[t].d] = row[loc[t].d],
         loc[t].pc # "insert" \/ row' = row, Sees(t, row[loc[t].d])
  PROVE  Sees(t, row[loc[t].d])'
  BY DEF Sees

(* What a user's statement makes of a row, and of the request.             *)
LEMMA UserWrites ==
  ASSUME TypeOK, TypeOK', SerialInv, NEW s \in Slots, Alone(s),
         loc[s].pc # Free, NEW d \in Disputes, NEW new,
         loc[s].pc = "insert" \/ loc[s].d = d,
         row[d].status \notin {"model_thinking", "awaiting_moderator"},
         row' = [row EXCEPT ![d] = new], RowFits(new),
         \A t \in Slots \ {s} : loc'[t] = loc[t], UNCHANGED <<turn, faults>>,
         loc'[s].pc # "join", Sees(s, row[loc[s].d])',
         \A pc \in {"advance", "complete"} :
           Ready(new, pc) => loc'[s].pc = pc /\ loc'[s].d = d
  PROVE  SerialInv'
  <1>1. row'[d] = new /\ \A e \in Disputes \ {d} : row'[e] = row[e]
    BY DEF TypeOK
  <1>2. OneByOne' /\ AdminsJoin'
    BY DEF SerialInv, OneByOne, AdminsJoin, Alone, User, Free
  <1>3. \A e \in Disputes : RowFits(row'[e])
    BY <1>1 DEF SerialInv
  <1>4. ASSUME NEW t \in Slots \ {s} PROVE Sees(t, row[loc[t].d])'
    <2>1. CASE loc[t].pc = Free
      BY <2>1 DEF Sees, Seen, Free
    <2>2. CASE loc[t].pc = "join"
      <3>1. row[loc[t].d].status = "awaiting_moderator" /\ loc[t].d \in Disputes
        BY <2>2, Referents DEF SerialInv, Sees, Seen
      <3>2. row'[loc[t].d] = row[loc[t].d] /\ loc'[t] = loc[t]
        BY <1>1, <3>1
      <3>3. loc[t].pc # "insert" /\ Sees(t, row[loc[t].d])
        BY <2>2 DEF SerialInv
      <3> QED BY <3>2, <3>3, SeesKept
    <2> QED BY <2>1, <2>2 DEF Alone
  <1>5. ASSUME NEW w \in Turns PROVE Calls(w, row[turn[w].d])'
    <2>1. CASE turn[w].pc = "calling"
      <3>1. row[turn[w].d].status = "model_thinking" /\ turn[w].d \in Disputes
        BY <2>1, Referents DEF SerialInv, Calls
      <3>2. row'[turn[w].d] = row[turn[w].d]
        BY <1>1, <3>1
      <3> QED BY <3>2 DEF SerialInv, Calls
    <2> QED BY <2>1 DEF Calls
  <1>6. Moving'
    <2> SUFFICES ASSUME faults = 0, NEW e \in Disputes,
                        NEW pc \in {"advance", "complete"}, Ready(row'[e], pc)
                 PROVE  Due(e, pc)'
      BY DEF Moving, Ready, BothVoted, Required
    <2>1. CASE e = d
      BY <1>1, <2>1 DEF Due
    <2>2. CASE e # d
      <3>1. Due(e, pc)
        BY <1>1, <2>2 DEF SerialInv, Moving
      <3>2. PICK t \in Slots : loc[t].pc = pc /\ loc[t].d = e
        BY <3>1 DEF Due
      <3> QED BY <2>2, <3>2 DEF Alone, Free
    <2> QED BY <2>1, <2>2
  <1>7. \A t \in Slots : Sees(t, row[loc[t].d])'
    BY <1>4
  <1> QED BY <1>2, <1>3, <1>5, <1>6, <1>7 DEF SerialInv, RowFits

(* On a thread whose only active dispute is d the index refuses nothing.   *)
LEMMA Effect ==
  ASSUME TypeOK, OneActive, NEW s \in Slots, NEW d \in Disputes, NEW new,
         NEW pc, Write(s, d, new, pc),
         \/ row[d].status \in Active
         \/ \A e \in Disputes : row[e].status \notin Active
  PROVE  /\ row' = [row EXCEPT ![d] = new]
         /\ \A t \in Slots \ {s} : loc'[t] = loc[t]
         /\ loc'[s].pc = pc
         /\ pc # Free => /\ loc'[s].d = loc[s].d
                         /\ loc'[s].draft = loc[s].draft
  <1>1. IndexAllows(d, new.status)
    BY DEF IndexAllows, OneActive
  <1>2. /\ row' = [row EXCEPT ![d] = new]
        /\ IF pc = Free THEN Finish(s) ELSE Goto(s, pc)
    BY <1>1 DEF Write
  <1>3. CASE pc = Free
    BY <1>2, <1>3 DEF Finish, TypeOK, IdleLoc
  <1>4. CASE pc # Free
    BY <1>2, <1>4 DEF Goto, TypeOK, Loc
  <1> QED BY <1>2, <1>3, <1>4

----------------------------------------------------------------------------
(* The refinement mapping.                                                 *)

LEMMA Becomes ==
  ASSUME TypeOK, NEW d \in Disputes, NEW new, row' = [row EXCEPT ![d] = new]
  PROVE  /\ Cases[d] = CaseOf(row[d])
         /\ Protocol!Become(d, CaseOf(new))
  <1>1. row'[d] = new /\ \A e \in Disputes \ {d} : row'[e] = row[e]
    BY DEF TypeOK
  <1>2. Cases' = [e \in Disputes |-> CaseOf(row'[e])]
    BY DEF Cases, CaseOf, StageOf, Voting, Required
  <1>3. Cases = [e \in Disputes |-> CaseOf(row[e])]
    BY DEF Cases
  <1>4. Cases' = [Cases EXCEPT ![d] = CaseOf(new)]
    BY <1>1, <1>2, <1>3
  <1> QED BY <1>3, <1>4 DEF Protocol!Become

LEMMA SameCases ==
  ASSUME UNCHANGED row
  PROVE  UNCHANGED Cases
  BY DEF Cases, CaseOf, StageOf, Voting, Required

LEMMA Stages ==
  /\ StageOf("absent") = "none"
  /\ StageOf("open_waiting_counterparty") = "opened"
  /\ StageOf("model_thinking") = "mediation"
  /\ StageOf("waiting_clarification_answers") = "asking"
  /\ \A status \in Voting : StageOf(status) = "choosing"
  /\ StageOf("waiting_final_acceptance") = "confirming"
  /\ StageOf("awaiting_moderator") = "escalated"
  /\ StageOf("closed_by_acceptance") = "conceded"
  /\ StageOf("resolved") = "settled"
  BY DEF StageOf, Voting

(* Only an active dispute is live.                                         *)
LEMMA LiveActive ==
  ASSUME NEW status \in Status
  PROVE  StageOf(status) \in Protocol!Live => status \in Active
  BY Stages DEF Status, Active, Closed, Protocol!Live

Owed(r) == IF r.status = "waiting_clarification_answers"
             THEN Required(r) \ r.answers ELSE {}

LEMMA CaseRecord ==
  ASSUME NEW r
  PROVE  CaseOf(r) = [stage   |-> StageOf(r.status),
                      round   |-> r.round,
                      owed    |-> Owed(r),
                      backing |-> r.votes[r.round],
                      offer   |-> r.selected,
                      consent |-> Accepting(r.hook)]
  BY Zenon DEF CaseOf, Owed, Accepting

LEMMA CaseFields ==
  ASSUME NEW r
  PROVE  /\ CaseOf(r).stage = StageOf(r.status)
         /\ CaseOf(r).round = r.round
         /\ CaseOf(r).owed = Owed(r)
         /\ CaseOf(r).backing = r.votes[r.round]
         /\ CaseOf(r).offer = r.selected
         /\ CaseOf(r).consent = Accepting(r.hook)
  BY CaseRecord

(* Two cases with the same fields are the same.                            *)
CaseKeys == {"stage", "round", "owed", "backing", "offer", "consent"}
IsCase(c) == c = [i \in CaseKeys |-> c[i]]

LEMMA SameCase ==
  ASSUME NEW c, NEW e, IsCase(c), IsCase(e),
         c.stage = e.stage, c.round = e.round, c.owed = e.owed,
         c.backing = e.backing, c.offer = e.offer, c.consent = e.consent
  PROVE  c = e
  <1>1. \A i \in CaseKeys : c[i] = e[i]
    BY DEF CaseKeys
  <1> QED BY <1>1 DEF IsCase

LEMMA CaseIsCase ==
  ASSUME NEW r
  PROVE  IsCase(CaseOf(r))
  BY CaseRecord DEF IsCase, CaseKeys

LEMMA CaseIs ==
  ASSUME NEW r, NEW want, IsCase(want),
         StageOf(r.status) = want.stage, r.round = want.round,
         Owed(r) = want.owed, r.votes[r.round] = want.backing,
         r.selected = want.offer, Accepting(r.hook) = want.consent
  PROVE  CaseOf(r) = want
  BY CaseFields, CaseIsCase, SameCase

(* Steps that change the stage alone.                                      *)
LEMMA OnlyStage ==
  ASSUME NEW r, NEW new,
         new.round = r.round, new.votes[new.round] = r.votes[r.round],
         new.selected = r.selected, Accepting(new.hook) = Accepting(r.hook),
         Owed(new) = Owed(r)
  PROVE  CaseOf(new) = [CaseOf(r) EXCEPT !.stage = StageOf(new.status)]
  <1> DEFINE want == [CaseOf(r) EXCEPT !.stage = StageOf(new.status)]
  <1>1. /\ IsCase(want) /\ want.stage = StageOf(new.status)
        /\ want.round = r.round /\ want.owed = Owed(r)
        /\ want.backing = r.votes[r.round] /\ want.offer = r.selected
        /\ want.consent = Accepting(r.hook)
    BY CaseRecord DEF IsCase, CaseKeys
  <1> HIDE DEF want
  <1>2. CaseOf(new) = want
    BY <1>1, CaseFields, CaseIsCase, SameCase
  <1> QED BY <1>2 DEF want

LEMMA SameRole == Protocol!Role = Role /\ Protocol!NoBacking = NoVotes
  BY DEF Protocol!Role, Role, Protocol!NoBacking, NoVotes

----------------------------------------------------------------------------
(* Requests begin.                                                         *)

LEMMA BeginsAt ==
  ASSUME TypeOK, NEW s \in Slots, NEW d, NEW pc, NEW draft,
         Begin(s, d, pc, draft)
  PROVE  /\ loc[s].pc = Free
         /\ loc'[s].pc = pc /\ loc'[s].d = d /\ loc'[s].draft = draft
         /\ \A t \in Slots \ {s} : loc'[t] = loc[t]
         /\ row' = row /\ turn' = turn /\ faults' = faults
  BY DEF TypeOK, Begin

(* What is not about the slot that begins.                                 *)
LEMMA OthersStay ==
  ASSUME SerialInv, NEW s \in Slots, loc[s].pc = Free,
         \A t \in Slots \ {s} : loc'[t] = loc[t],
         UNCHANGED <<row, turn, faults>>, Sees(s, row[loc[s].d])',
         OneByOne', AdminsJoin'
  PROVE  SerialInv'
  <1>1. ASSUME NEW t \in Slots \ {s} PROVE Sees(t, row[loc[t].d])'
    <2>1. loc'[t] = loc[t] /\ row' = row /\ Sees(t, row[loc[t].d])
      BY DEF SerialInv
    <2> QED BY <2>1, SeesKept
  <1>2. Moving'
    <2> SUFFICES ASSUME faults = 0, NEW e \in Disputes,
                        NEW pc \in {"advance", "complete"}, Ready(row[e], pc)
                 PROVE  Due(e, pc)'
      BY DEF Moving, Ready, BothVoted, Required
    <2>1. PICK t \in Slots : loc[t].pc = pc /\ loc[t].d = e
      BY DEF SerialInv, Moving, Due
    <2> QED BY <2>1 DEF Due, Free
  <1>3. \A d \in Disputes : RowFits(row[d])'
    BY DEF SerialInv, RowFits
  <1>4. \A w \in Turns : Calls(w, row[turn[w].d])'
    BY DEF SerialInv, Calls
  <1>5. \A t \in Slots : Sees(t, row[loc[t].d])'
    BY <1>1
  <1> QED BY <1>2, <1>3, <1>4, <1>5 DEF SerialInv

LEMMA UserBegins ==
  ASSUME TypeOK, ~Overlap, SerialInv, NEW s \in Slots, User(s), NEW d, NEW pc,
         NEW draft, Begin(s, d, pc, draft), pc # "join",
         Sees(s, row[loc[s].d])'
  PROVE  SerialInv'
  <1>1. Alone(s)
    BY UserView DEF Begin
  <1>2. /\ loc[s].pc = Free /\ loc'[s].pc = pc
        /\ \A t \in Slots \ {s} : loc'[t] = loc[t]
        /\ UNCHANGED <<row, turn, faults>>
    BY BeginsAt
  <1>3. OneByOne' /\ AdminsJoin'
    BY <1>1, <1>2 DEF SerialInv, OneByOne, AdminsJoin, Alone, User, Free
  <1> QED BY <1>2, <1>3, OthersStay

LEMMA BlankVotes ==
  \A r \in {1, 2} : \A vs :
    /\ [Blank EXCEPT !.round = r, !.votes[r] = vs].round = r
    /\ [Blank EXCEPT !.round = r, !.votes[r] = vs].votes[r] = vs
  BY DEF Blank, NewRow

LEMMA SerialRequest ==
  ASSUME TypeOK, ~Overlap, SerialInv, NEW s \in Slots, Request(s)
  PROVE  SerialInv'
  <1>0. /\ \A p \in Role : Actor[s] = p => User(s)
        /\ User(s) => Actor[s] \in Role
    BY ActorAssumption DEF User, Role
  <1>1. ASSUME ReadOpen(s) PROVE SerialInv'
    <2> DEFINE draft == NewRow("open_waiting_counterparty", Actor[s])
    <2>1. /\ User(s) /\ Begin(s, NoDispute, "insert", draft)
          /\ \A d \in Disputes : row[d].status \notin Active
      BY <1>0, <1>1 DEF ReadOpen
    <2> HIDE DEF draft
    <2>2. loc'[s].pc = "insert" /\ loc'[s].draft = draft /\ row' = row
      BY <2>1, BeginsAt
    <2>3. Sees(s, row[loc[s].d])'
      BY <2>1, <2>2 DEF Sees, Seen, draft
    <2> QED BY <2>1, <2>3, UserBegins
  <1>2. ASSUME NEW d \in Disputes,
               ReadOverdue(s, d) \/ ReadAccept(s, d) \/ ReadRespond(s, d)
        PROVE  SerialInv'
    <2>1. row[d].status = "open_waiting_counterparty"
      BY <1>2 DEF ReadOverdue, ReadAccept, ReadRespond, CounterpartyMayAnswer
    <2>2. User(s)
      <3>1. \A p : Other(p) \in Role
        BY DEF Other, Role
      <3> QED BY <1>0, <1>2, <3>1
              DEF ReadOverdue, ReadAccept, ReadRespond, CounterpartyMayAnswer
    <2>3. PICK pc \in {"timeout", "accept", "respond"} : Begin(s, d, pc, Blank)
      BY <1>2 DEF ReadOverdue, ReadAccept, ReadRespond
    <2>4. loc'[s].pc = pc /\ loc'[s].d = d /\ row' = row
      BY <2>3, BeginsAt
    <2>5. Sees(s, row[loc[s].d])'
      BY <2>1, <2>4 DEF Sees, Seen
    <2> QED BY <2>2, <2>3, <2>5, UserBegins
  <1>3. ASSUME NEW d \in Disputes, ReadAnswer(s, d) PROVE SerialInv'
    <2> DEFINE p == Actor[s]
               draft == [Blank EXCEPT !.asked = row[d].asked,
                                      !.answers = row[d].answers \cup {p}]
    <2>1. /\ row[d].status = "waiting_clarification_answers"
          /\ p \in Required(row[d]) \ row[d].answers
          /\ Begin(s, d, "answer", draft)
      BY <1>3 DEF ReadAnswer
    <2>2. p \in Role
      BY <2>1 DEF Required, TypeOK, Row
    <2>3. draft.asked = row[d].asked /\ draft.answers = row[d].answers \cup {p}
      BY DEF Blank, NewRow
    <2> HIDE DEF draft
    <2>4. /\ loc'[s].pc = "answer" /\ loc'[s].d = d
          /\ loc'[s].draft = draft /\ row' = row
      BY <2>1, BeginsAt
    <2>5. Sees(s, row[loc[s].d])'
      BY <2>1, <2>3, <2>4 DEF Sees, Seen, Required
    <2> QED BY <1>0, <2>1, <2>2, <2>5, UserBegins
  <1>4. ASSUME NEW d \in Disputes, ReadVote(s, d) PROVE SerialInv'
    <2> DEFINE p == Actor[s]
               r == row[d].round
    <2>1. PICK ks \in (SUBSET Kinds) \ {{}} :
            Begin(s, d, "vote",
                  [Blank EXCEPT !.round = r,
                                !.votes[r] = [row[d].votes[r] EXCEPT ![p] = ks]])
      BY <1>4, BallotsAssumption DEF ReadVote
    <2> DEFINE draft == [Blank EXCEPT !.round = r,
                            !.votes[r] = [row[d].votes[r] EXCEPT ![p] = ks]]
    <2>2. p \in Role /\ row[d].status \in Voting /\ r \in {1, 2}
      BY <1>4 DEF ReadVote, TypeOK, Row
    <2>3. /\ draft.round = r
          /\ draft.votes[r] = [row[d].votes[r] EXCEPT ![p] = ks]
      BY <2>2, BlankVotes
    <2>4. Begin(s, d, "vote", draft)
      BY <2>1
    <2> HIDE DEF draft
    <2>5. /\ loc'[s].pc = "vote" /\ loc'[s].d = d
          /\ loc'[s].draft = draft /\ row' = row
      BY <2>4, BeginsAt
    <2>6. Sees(s, row[loc[s].d])'
      BY <2>2, <2>3, <2>5 DEF Sees, Seen
    <2> QED BY <1>0, <2>2, <2>4, <2>6, UserBegins
  <1>5. ASSUME NEW d \in Disputes, NEW decision \in {"accepted", "rejected"},
               ReadFinal(s, d, decision)
        PROVE  SerialInv'
    <2> DEFINE p == Actor[s]
               final == [row[d].hook.final EXCEPT ![p] = decision]
    <2>1. /\ p \in Role /\ row[d].status = "waiting_final_acceptance"
          /\ row[d].hook.final[p] # decision
      BY <1>5 DEF ReadFinal
    <2>2. PICK status, state :
            /\ Begin(s, d, "final",
                     [Blank EXCEPT !.status = status,
                                   !.hook = [state |-> state, final |-> final]])
            /\ status = IF decision = "rejected" THEN "awaiting_moderator"
                        ELSE IF \A q \in Role : final[q] = "accepted"
                          THEN "resolved" ELSE row[d].status
      BY <1>5 DEF ReadFinal
    <2> DEFINE draft == [Blank EXCEPT !.status = status,
                                   !.hook = [state |-> state, final |-> final]]
    <2>3. draft.status = status /\ draft.hook.final = final
      BY DEF Blank, NewRow
    <2>4. Begin(s, d, "final", draft)
      BY <2>2
    <2> HIDE DEF draft, final
    <2>5. Accepting(draft.hook) = Role <=> \A q \in Role : final[q] = "accepted"
      BY <2>3 DEF Accepting
    <2>6. loc'[s].pc = "final" /\ loc'[s].d = d /\ loc'[s].draft = draft
          /\ row' = row
      BY <2>4, BeginsAt
    <2>7. draft.status = IF decision = "rejected" THEN "awaiting_moderator"
                         ELSE IF Accepting(draft.hook) = Role THEN "resolved"
                         ELSE "waiting_final_acceptance"
      BY <2>1, <2>2, <2>3, <2>5
    <2>8. Sees(s, row[loc[s].d])'
      BY <2>1, <2>3, <2>6, <2>7 DEF Sees, Seen, final, Accepting
    <2> QED BY <1>0, <2>1, <2>4, <2>8, UserBegins
  <1>6. ASSUME NEW d \in Disputes, ReadJoin(s, d) PROVE SerialInv'
    <2> DEFINE hook == [row[d].hook EXCEPT !.state = "in_progress"]
               draft == [Blank EXCEPT !.hook = hook]
    <2>1. /\ ~User(s) /\ row[d].status = "awaiting_moderator"
          /\ Begin(s, d, "join", draft)
      BY <1>6 DEF ReadJoin, User
    <2>2. draft.hook = hook
      BY DEF Blank, NewRow
    <2>3. hook.final = row[d].hook.final
      BY DEF TypeOK, Row, Hook
    <2> HIDE DEF draft, hook
    <2>4. /\ loc[s].pc = Free /\ loc'[s].pc = "join"
          /\ loc'[s].d = d /\ loc'[s].draft = draft
          /\ \A t \in Slots \ {s} : loc'[t] = loc[t]
          /\ row' = row /\ turn' = turn /\ faults' = faults
      BY <2>1, BeginsAt
    <2>5. Sees(s, row[loc[s].d])'
      BY <2>1, <2>2, <2>3, <2>4 DEF Sees, Seen
    <2>6. OneByOne' /\ AdminsJoin'
      BY <2>1, <2>4 DEF SerialInv, OneByOne, AdminsJoin, User, Free
    <2> QED BY <2>4, <2>5, <2>6, OthersStay
  <1> QED BY <1>1, <1>2, <1>3, <1>4, <1>5, <1>6 DEF Request

----------------------------------------------------------------------------
(* Requests write.                                                         *)

ClosedStays == \A d \in Disputes : row[d].status \in Closed => row'[d] = row[d]

LEMMA SeesNothing ==
  ASSUME NEW s, loc'[s].pc \in {Free, "schedule"}
  PROVE  Sees(s, row[loc[s].d])'
  BY DEF Sees, Seen, Free

(* The last statement of a user's request on a dispute.                    *)
LEMMA UserLeaves ==
  ASSUME TypeOK, TypeOK', ~Overlap, OneActive, SerialInv,
         NEW s \in Slots, loc[s].pc \notin {Free, "join"},
         NEW d \in Disputes, NEW new, NEW pc \in {Free, "schedule"},
         Write(s, d, new, pc), UNCHANGED <<turn, faults>>,
         loc[s].pc = "insert" \/ loc[s].d = d,
         \/ row[d].status \in Active \ {"model_thinking", "awaiting_moderator"}
         \/ \A e \in Disputes : row[e].status \notin Active,
         row[d].status \notin Closed,
         RowFits(new),
         new.status \notin Voting \cup {"waiting_clarification_answers"}
  PROVE  /\ SerialInv' /\ ClosedStays
         /\ row' = [row EXCEPT ![d] = new]
  <1>1. Alone(s)
    BY UserView DEF SerialInv, AdminsJoin
  <1>2. /\ row' = [row EXCEPT ![d] = new]
        /\ \A t \in Slots \ {s} : loc'[t] = loc[t]
        /\ loc'[s].pc = pc
    BY Effect
  <1>3. row[d].status \notin {"model_thinking", "awaiting_moderator"}
    BY DEF Active
  <1>4. \A q \in {"advance", "complete"} : ~Ready(new, q)
    BY DEF Ready
  <1>5. Sees(s, row[loc[s].d])'
    BY <1>2, SeesNothing
  <1>6. loc'[s].pc # "join"
    BY <1>2 DEF Free
  <1>7. SerialInv'
    BY <1>1, <1>2, <1>3, <1>4, <1>5, <1>6, UserWrites
  <1>8. ClosedStays
    BY <1>2 DEF ClosedStays, TypeOK
  <1> QED BY <1>2, <1>7, <1>8

(* What the requests of a pc see.                                          *)
LEMMA SeesRow ==
  ASSUME TypeOK, SerialInv, NEW s \in Slots, NEW d, d = loc[s].d
  PROVE  /\ d \in Disputes /\ row[d] \in Row /\ RowFits(row[d])
         /\ Sees(s, row[d])
  BY Referents DEF SerialInv

LEMMA StageOfRow ==
  ASSUME NEW r
  PROVE  /\ r.status = "open_waiting_counterparty" => CaseOf(r).stage = "opened"
         /\ r.status = "model_thinking" => CaseOf(r).stage = "mediation"
         /\ r.status = "waiting_clarification_answers"
              => CaseOf(r).stage = "asking"
         /\ r.status \in Voting => CaseOf(r).stage = "choosing"
         /\ r.status = "waiting_final_acceptance"
              => CaseOf(r).stage = "confirming"
  BY CaseFields, Stages

LEMMA SerialInsert ==
  ASSUME TypeOK, TypeOK', ~Overlap, OneActive, SerialInv,
         NEW s \in Slots, InsertDispute(s)
  PROVE  SerialInv' /\ ClosedStays /\ Protocol!Next
  <1>1. PICK d \in Disputes : /\ row[d].status = "absent"
                              /\ Write(s, d, loc[s].draft, Free)
    BY DEF InsertDispute
  <1> DEFINE new == loc[s].draft
  <1>2. /\ loc[s].pc = "insert" /\ UNCHANGED <<turn, faults>>
    BY DEF InsertDispute
  <1>3. /\ \A e \in Disputes : row[e].status \notin Active
        /\ new = NewRow("open_waiting_counterparty", Actor[s])
    BY <1>2 DEF SerialInv, Sees, Seen
  <1> HIDE DEF new
  <1>4. /\ new.status = "open_waiting_counterparty" /\ new.round = 1
        /\ new.votes[1] = NoVotes /\ new.votes[2] = NoVotes
        /\ new.selected = {} /\ Accepting(new.hook) = {}
    BY <1>3 DEF NewRow, NoHook, NoFinal, Accepting
  <1>5. RowFits(new)
    BY <1>4 DEF RowFits, Voting
  <1>6. /\ new.status \notin Voting \cup {"waiting_clarification_answers"}
        /\ row[d].status \notin Closed
    BY <1>1, <1>4 DEF Voting, Closed
  <1>7. SerialInv' /\ ClosedStays /\ row' = [row EXCEPT ![d] = new]
    BY <1>1, <1>2, <1>3, <1>5, <1>6, UserLeaves DEF new, Free
  <1>8. Cases[d] = CaseOf(row[d]) /\ Protocol!Become(d, CaseOf(new))
    BY <1>7, Becomes
  <1>9. Cases[d].stage = "none"
    <2>1. Cases[d].stage = StageOf(row[d].status)
      BY <1>8, CaseFields
    <2> QED BY <1>1, <2>1, Stages
  <1>10. \A e \in Disputes : Cases[e].stage \notin Protocol!Live
    <2>1. \A e \in Disputes : Cases[e].stage = StageOf(row[e].status)
                              /\ row[e].status \in Status
      BY CaseFields DEF Cases, TypeOK, Row
    <2> QED BY <1>3, <2>1, LiveActive
  <1>11. CaseOf(new) = [Protocol!Unopened EXCEPT !.stage = "opened"]
    BY <1>4, Stages, SameRole
       DEF CaseOf, Accepting, Protocol!Unopened, Voting
  <1>12. Protocol!Open(d)
    BY <1>8, <1>9, <1>10, <1>11 DEF Protocol!Open
  <1> QED BY <1>7, <1>12 DEF Protocol!Next, Protocol!Step

(* The counterparty answers, or does not.                                  *)
LEMMA SerialAnswered ==
  ASSUME TypeOK, TypeOK', ~Overlap, OneActive, SerialInv,
         NEW s \in Slots, WriteTimeout(s) \/ WriteAccept(s) \/ WriteRespond(s)
  PROVE  SerialInv' /\ ClosedStays /\ Protocol!Next
  <1> DEFINE d == loc[s].d
             r == row[d]
  <1>1. /\ loc[s].pc \in {"timeout", "accept", "respond"}
        /\ UNCHANGED <<turn, faults>>
    BY DEF WriteTimeout, WriteAccept, WriteRespond
  <1>2. d \in Disputes /\ r \in Row /\ RowFits(r) /\ Sees(s, r)
    BY SeesRow
  <1>3. r.status = "open_waiting_counterparty"
    BY <1>1, <1>2 DEF Sees, Seen
  <1>4. /\ r.status \in Active \ {"model_thinking", "awaiting_moderator"}
        /\ r.status \notin Closed
    BY <1>3 DEF Active, Closed
  <1>5. /\ r.round = 1 /\ r.votes[1] = NoVotes /\ r.votes[2] = NoVotes
        /\ Accepting(r.hook) = {}
    BY <1>2, <1>3 DEF RowFits
  <1>6. Accepting(Pending) = {}
    BY DEF Accepting, Pending, NoFinal
  <1> HIDE DEF d
  <1>7. ASSUME NEW new, NEW pc \in {Free, "schedule"}, Write(s, d, new, pc),
               RowFits(new), Protocol!Become(d, CaseOf(new)) => Protocol!Next,
               new.status \in {"awaiting_moderator", "closed_by_acceptance",
                               "model_thinking"}
        PROVE  SerialInv' /\ ClosedStays /\ Protocol!Next
    <2>1. /\ loc[s].pc \notin {Free, "join"}
          /\ new.status \notin Voting \cup {"waiting_clarification_answers"}
      BY <1>1, <1>7 DEF Free, Voting
    <2>2. SerialInv' /\ ClosedStays /\ row' = [row EXCEPT ![d] = new]
      BY <1>1, <1>2, <1>4, <1>7, <2>1, UserLeaves DEF d
    <2> QED BY <1>2, <1>7, <2>2, Becomes
  <1>8. Cases[d] = CaseOf(r) /\ Cases[d].stage = "opened"
    BY <1>2, <1>3, StageOfRow DEF Cases
  <1>9. CASE WriteTimeout(s)
    <2> DEFINE new == [r EXCEPT !.status = "awaiting_moderator",
                                !.hook = Pending]
    <2>1. Write(s, d, new, Free)
      BY <1>9 DEF WriteTimeout, d
    <2>2. /\ new.status = "awaiting_moderator" /\ new.round = r.round
          /\ new.votes = r.votes
      BY <1>2 DEF Row
    <2>3. RowFits(new)
      BY <1>5, <2>2 DEF RowFits, Voting
    <2>4. CaseOf(new) = [CaseOf(r) EXCEPT !.stage = "escalated"]
      <3>1. /\ new.selected = r.selected /\ Owed(new) = {} /\ Owed(r) = {}
            /\ Accepting(new.hook) = {}
        BY <1>2, <1>3, <1>6 DEF Row, Owed
      <3> HIDE DEF new
      <3>2. /\ new.votes[new.round] = r.votes[r.round]
            /\ Accepting(new.hook) = Accepting(r.hook) /\ Owed(new) = Owed(r)
        BY <1>5, <2>2, <3>1
      <3>3. CaseOf(new) = [CaseOf(r) EXCEPT !.stage = StageOf(new.status)]
        BY <2>2, <3>1, <3>2, OnlyStage
      <3> QED BY <2>2, <3>3, Stages
    <2> HIDE DEF new
    <2>5. Protocol!Become(d, CaseOf(new)) => Protocol!Lapse(d)
      BY <1>8, <2>4 DEF Protocol!Lapse
    <2> QED BY <1>2, <1>7, <2>1, <2>2, <2>3, <2>5
            DEF Protocol!Next, Protocol!Step
  <1>10. CASE WriteAccept(s)
    <2> DEFINE new == [r EXCEPT !.status = "closed_by_acceptance"]
    <2>1. Write(s, d, new, Free)
      BY <1>10 DEF WriteAccept, d
    <2>2. /\ new.status = "closed_by_acceptance" /\ new.round = r.round
          /\ new.votes = r.votes
      BY <1>2 DEF Row
    <2>3. RowFits(new)
      BY <1>5, <2>2 DEF RowFits, Voting
    <2>4. CaseOf(new) = [CaseOf(r) EXCEPT !.stage = "conceded"]
      <3>1. /\ new.selected = r.selected /\ Owed(new) = {} /\ Owed(r) = {}
            /\ new.hook = r.hook
        BY <1>2, <1>3 DEF Row, Owed
      <3> HIDE DEF new
      <3> QED BY <2>2, <3>1, OnlyStage, Stages
    <2> HIDE DEF new
    <2>5. Protocol!Become(d, CaseOf(new)) => Protocol!Concede(d)
      BY <1>8, <2>4 DEF Protocol!Concede
    <2> QED BY <1>2, <1>7, <2>1, <2>2, <2>3, <2>5
            DEF Protocol!Next, Protocol!Step
  <1>11. CASE WriteRespond(s)
    <2> DEFINE new ==
          [r EXCEPT !.status = "model_thinking", !.round = 1, !.asked = {},
                    !.answers = {}, !.votes = [n \in {1, 2} |-> NoVotes]]
    <2>1. Write(s, d, new, "schedule")
      BY <1>11 DEF WriteRespond, d
    <2>2. /\ new.status = "model_thinking" /\ new.round = 1
          /\ new.votes[2] = NoVotes /\ new.hook = r.hook
      BY <1>2 DEF Row
    <2>3. RowFits(new)
      BY <1>5, <2>2 DEF RowFits, Voting
    <2>4. CaseOf(new) = [CaseOf(r) EXCEPT !.stage = "mediation"]
      <3>1. /\ new.selected = r.selected /\ Owed(new) = {} /\ Owed(r) = {}
            /\ new.votes[1] = NoVotes
        BY <1>2, <1>3 DEF Row, Owed
      <3> HIDE DEF new
      <3>2. /\ new.round = r.round /\ new.votes[new.round] = r.votes[r.round]
            /\ Accepting(new.hook) = Accepting(r.hook) /\ Owed(new) = Owed(r)
        BY <1>5, <2>2, <3>1
      <3>3. CaseOf(new) = [CaseOf(r) EXCEPT !.stage = StageOf(new.status)]
        BY <3>1, <3>2, OnlyStage
      <3> QED BY <2>2, <3>3, Stages
    <2> HIDE DEF new
    <2>5. Protocol!Become(d, CaseOf(new)) => Protocol!Contest(d)
      BY <1>8, <2>4 DEF Protocol!Contest
    <2> QED BY <1>2, <1>7, <2>1, <2>2, <2>3, <2>5
            DEF Protocol!Next, Protocol!Step
  <1> QED BY <1>9, <1>10, <1>11

(* A statement of a user after which the request goes on with the same row,*)
(* or which was its last.                                                  *)
LEMMA UserGoesOn ==
  ASSUME TypeOK, TypeOK', ~Overlap, OneActive, SerialInv,
         NEW s \in Slots, loc[s].pc \notin {Free, "join", "insert"},
         NEW d \in Disputes, d = loc[s].d, NEW new, NEW pc, pc # "join",
         Write(s, d, new, pc), UNCHANGED <<turn, faults>>,
         row[d].status \in Active \ {"model_thinking", "awaiting_moderator"},
         RowFits(new),
         \A q \in {"advance", "complete"} : Ready(new, q) => pc = q,
         /\ row' = [row EXCEPT ![d] = new] /\ row'[d] = new
         /\ pc # Free => loc'[s].d = d /\ loc'[s].draft = loc[s].draft
         /\ loc'[s].pc = pc
         => Sees(s, row[loc[s].d])'
  PROVE  /\ SerialInv' /\ ClosedStays
         /\ row' = [row EXCEPT ![d] = new]
  <1>1. Alone(s)
    BY UserView DEF SerialInv, AdminsJoin
  <1>2. /\ row' = [row EXCEPT ![d] = new]
        /\ \A t \in Slots \ {s} : loc'[t] = loc[t]
        /\ loc'[s].pc = pc
        /\ pc # Free => loc'[s].d = d /\ loc'[s].draft = loc[s].draft
    BY Effect
  <1>3. row'[d] = new
    BY <1>2 DEF TypeOK
  <1>4. Sees(s, row[loc[s].d])'
    BY <1>2, <1>3
  <1>5. /\ row[d].status \notin {"model_thinking", "awaiting_moderator"}
        /\ row[d].status \notin Closed
    BY DEF Active, Closed, Voting
  <1>6. \A q \in {"advance", "complete"} :
          Ready(new, q) => loc'[s].pc = q /\ loc'[s].d = d
    BY <1>2 DEF Free
  <1>7. SerialInv'
    BY <1>1, <1>2, <1>4, <1>5, <1>6, UserWrites
  <1>8. ClosedStays
    BY <1>2, <1>5 DEF ClosedStays, TypeOK
  <1> QED BY <1>2, <1>7, <1>8

LEMMA SerialAnswer ==
  ASSUME TypeOK, TypeOK', ~Overlap, OneActive, SerialInv,
         NEW s \in Slots, WriteAnswer(s)
  PROVE  SerialInv' /\ ClosedStays /\ Protocol!Next
  <1> DEFINE d == loc[s].d
             r == row[d]
             p == Actor[s]
             draft == loc[s].draft
             new == [r EXCEPT !.answers = draft.answers]
             pc == IF Required(draft) \subseteq draft.answers
                     THEN "complete" ELSE Free
  <1>1. /\ loc[s].pc = "answer" /\ Write(s, d, new, pc)
        /\ UNCHANGED <<turn, faults>>
    BY DEF WriteAnswer
  <1>2. d \in Disputes /\ r \in Row /\ RowFits(r) /\ Sees(s, r)
    BY SeesRow
  <1>3. /\ r.status = "waiting_clarification_answers"
        /\ p \in Required(r) \ r.answers
        /\ draft.asked = r.asked /\ draft.answers = r.answers \cup {p}
    BY <1>1, <1>2 DEF Sees, Seen
  <1>4. Required(draft) = Required(r)
    BY <1>3 DEF Required
  <1>5. /\ new.status = r.status /\ new.round = r.round /\ new.votes = r.votes
        /\ new.hook = r.hook /\ new.asked = r.asked /\ new.selected = r.selected
        /\ new.answers = r.answers \cup {p}
    BY <1>2, <1>3 DEF Row
  <1>6. Required(new) = Required(r)
    BY <1>5 DEF Required
  <1> HIDE DEF d, r, draft, new
  <1>7. RowFits(new)
    BY <1>2, <1>3, <1>5 DEF RowFits, Voting
  <1>8. /\ loc[s].pc \notin {Free, "join", "insert"} /\ pc # "join"
        /\ r.status \in Active \ {"model_thinking", "awaiting_moderator"}
    BY <1>1, <1>3 DEF Free, Active
  <1>9. \A q \in {"advance", "complete"} : Ready(new, q) => pc = q
    BY <1>3, <1>4, <1>5, <1>6 DEF Ready, Voting
  <1>10. /\ row'[d] = new
         /\ pc # Free => loc'[s].d = d /\ loc'[s].draft = loc[s].draft
         /\ loc'[s].pc = pc
         => Sees(s, row[loc[s].d])'
    <2>1. CASE pc = Free
      BY <2>1, SeesNothing
    <2>2. CASE pc # Free
      BY <1>3, <1>4, <1>5, <1>6, <2>2 DEF Sees, Seen, Required, Free
    <2> QED BY <2>1, <2>2
  <1> HIDE DEF pc
  <1>11. SerialInv' /\ ClosedStays /\ row' = [row EXCEPT ![d] = new]
    BY <1>1, <1>2, <1>7, <1>8, <1>9, <1>10, UserGoesOn DEF d, r
  <1>12. Cases[d] = CaseOf(r) /\ Protocol!Become(d, CaseOf(new))
    BY <1>2, <1>11, Becomes DEF r
  <1>13. Cases[d].stage = "asking" /\ p \in Cases[d].owed
    BY <1>3, <1>12, StageOfRow, CaseFields DEF Owed
  <1>14. CaseOf(new) = [Cases[d] EXCEPT !.owed = @ \ {p}]
    <2> DEFINE want == [CaseOf(r) EXCEPT !.owed = @ \ {p}]
    <2>1. /\ IsCase(want) /\ want.stage = StageOf(r.status)
          /\ want.round = r.round /\ want.owed = Owed(r) \ {p}
          /\ want.backing = r.votes[r.round] /\ want.offer = r.selected
          /\ want.consent = Accepting(r.hook)
      BY CaseRecord DEF IsCase, CaseKeys
    <2>2. Owed(new) = Owed(r) \ {p}
      BY <1>3, <1>5, <1>6 DEF Owed
    <2> HIDE DEF want
    <2>3. /\ StageOf(new.status) = want.stage /\ new.round = want.round
          /\ Owed(new) = want.owed /\ new.votes[new.round] = want.backing
          /\ new.selected = want.offer /\ Accepting(new.hook) = want.consent
      BY <1>5, <2>1, <2>2
    <2>4. CaseOf(new) = want
      BY <2>1, <2>3, CaseIs
    <2> QED BY <1>12, <2>4 DEF want
  <1>15. Protocol!Answer(d)
    BY <1>12, <1>13, <1>14 DEF Protocol!Answer
  <1> QED BY <1>2, <1>11, <1>15 DEF Protocol!Next, Protocol!Step

LEMMA SerialComplete ==
  ASSUME TypeOK, TypeOK', ~Overlap, OneActive, SerialInv,
         NEW s \in Slots, WriteComplete(s)
  PROVE  SerialInv' /\ ClosedStays /\ Protocol!Next
  <1> DEFINE d == loc[s].d
             r == row[d]
             new == [r EXCEPT !.status = "model_thinking"]
  <1>1. /\ loc[s].pc = "complete" /\ Write(s, d, new, "schedule")
        /\ UNCHANGED <<turn, faults>>
    BY DEF WriteComplete
  <1>2. d \in Disputes /\ r \in Row /\ RowFits(r) /\ Sees(s, r)
    BY SeesRow
  <1>3. /\ r.status = "waiting_clarification_answers"
        /\ Required(r) \subseteq r.answers
    BY <1>1, <1>2 DEF Sees, Seen
  <1>4. /\ new.status = "model_thinking" /\ new.round = r.round
        /\ new.votes = r.votes /\ new.hook = r.hook /\ new.selected = r.selected
    BY <1>2 DEF Row
  <1> HIDE DEF d, r, new
  <1>5. RowFits(new)
    BY <1>2, <1>3, <1>4 DEF RowFits, Voting
  <1>6. /\ loc[s].pc \notin {Free, "join"}
        /\ r.status \in Active \ {"model_thinking", "awaiting_moderator"}
        /\ r.status \notin Closed
        /\ new.status \notin Voting \cup {"waiting_clarification_answers"}
    BY <1>1, <1>3, <1>4 DEF Free, Active, Closed, Voting
  <1>7. SerialInv' /\ ClosedStays /\ row' = [row EXCEPT ![d] = new]
    BY <1>1, <1>2, <1>5, <1>6, UserLeaves DEF d, r
  <1>8. Cases[d] = CaseOf(r) /\ Protocol!Become(d, CaseOf(new))
    BY <1>2, <1>7, Becomes DEF r
  <1>9. Owed(r) = {} /\ Owed(new) = {}
    BY <1>3, <1>4 DEF Owed
  <1>10. Cases[d].stage = "asking" /\ Cases[d].owed = {}
    BY <1>3, <1>8, <1>9, StageOfRow, CaseFields
  <1>11. CaseOf(new) = [Cases[d] EXCEPT !.stage = "mediation"]
    BY <1>4, <1>8, <1>9, OnlyStage, Stages
  <1>12. Protocol!Heard(d)
    BY <1>8, <1>10, <1>11 DEF Protocol!Heard
  <1> QED BY <1>2, <1>7, <1>12 DEF Protocol!Next, Protocol!Step

LEMMA SerialVote ==
  ASSUME TypeOK, TypeOK', ~Overlap, OneActive, SerialInv,
         NEW s \in Slots, WriteVote(s)
  PROVE  SerialInv' /\ ClosedStays /\ Protocol!Next
  <1> DEFINE d == loc[s].d
             r == row[d]
             p == Actor[s]
             draft == loc[s].draft
             new == [r EXCEPT !.votes[draft.round] = draft.votes[draft.round]]
             pc == IF BothVoted(draft) THEN "advance" ELSE Free
  <1>1. /\ loc[s].pc = "vote" /\ Write(s, d, new, pc)
        /\ UNCHANGED <<turn, faults>>
    BY DEF WriteVote
  <1>2. d \in Disputes /\ r \in Row /\ RowFits(r) /\ Sees(s, r)
    BY SeesRow
  <1>3. r.status \in Voting /\ draft.round = r.round
    BY <1>1, <1>2 DEF Sees, Seen
  <1>4. PICK ks \in (SUBSET Kinds) \ {{}} :
          draft.votes[r.round] = [r.votes[r.round] EXCEPT ![p] = ks]
    BY <1>1, <1>2 DEF Sees, Seen
  <1>5. p \in Role
    BY <1>1, ActorAssumption DEF SerialInv, AdminsJoin, User, Free
  <1>6. /\ new.status = r.status /\ new.round = r.round
        /\ new.hook = r.hook /\ new.selected = r.selected
        /\ new.asked = r.asked /\ new.answers = r.answers
        /\ new.votes[new.round] = draft.votes[draft.round]
        /\ r.round = 1 => new.votes[2] = r.votes[2]
    BY <1>2, <1>3 DEF Row
  <1>7. BothVoted(draft) <=> BothVoted(new)
    BY <1>6 DEF BothVoted
  <1> HIDE DEF d, r, draft, new
  <1>8. RowFits(new)
    BY <1>2, <1>3, <1>6 DEF RowFits, Voting
  <1>9. /\ loc[s].pc \notin {Free, "join", "insert"} /\ pc # "join"
        /\ r.status \in Active \ {"model_thinking", "awaiting_moderator"}
    BY <1>1, <1>3 DEF Free, Active, Voting
  <1>10. \A q \in {"advance", "complete"} : Ready(new, q) => pc = q
    BY <1>3, <1>6, <1>7 DEF Ready, Voting
  <1>11. /\ row'[d] = new
         /\ pc # Free => loc'[s].d = d /\ loc'[s].draft = loc[s].draft
         /\ loc'[s].pc = pc
         => Sees(s, row[loc[s].d])'
    <2>1. CASE pc = Free
      BY <2>1, SeesNothing
    <2>2. CASE pc # Free
      BY <1>3, <1>6, <1>7, <2>2 DEF Sees, Seen, BothVoted, Free, draft
    <2> QED BY <2>1, <2>2
  <1> HIDE DEF pc
  <1>12. SerialInv' /\ ClosedStays /\ row' = [row EXCEPT ![d] = new]
    BY <1>1, <1>2, <1>8, <1>9, <1>10, <1>11, UserGoesOn DEF d, r
  <1>13. Cases[d] = CaseOf(r) /\ Protocol!Become(d, CaseOf(new))
    BY <1>2, <1>12, Becomes DEF r
  <1>14. CaseOf(new) = [Cases[d] EXCEPT !.backing[p] = ks]
    <2> DEFINE want == [CaseOf(r) EXCEPT !.backing[p] = ks]
    <2>1. /\ IsCase(want) /\ want.stage = StageOf(r.status)
          /\ want.round = r.round /\ want.owed = Owed(r)
          /\ want.backing = [r.votes[r.round] EXCEPT ![p] = ks]
          /\ want.offer = r.selected /\ want.consent = Accepting(r.hook)
      BY CaseRecord DEF IsCase, CaseKeys
    <2>2. Owed(new) = Owed(r)
      BY <1>6 DEF Owed, Required
    <2> HIDE DEF want
    <2>3. /\ StageOf(new.status) = want.stage /\ new.round = want.round
          /\ Owed(new) = want.owed /\ new.votes[new.round] = want.backing
          /\ new.selected = want.offer /\ Accepting(new.hook) = want.consent
      BY <1>3, <1>4, <1>6, <2>1, <2>2
    <2>4. CaseOf(new) = want
      BY <2>1, <2>3, CaseIs
    <2> QED BY <1>13, <2>4 DEF want
  <1>15. Cases[d].stage = "choosing"
    BY <1>3, <1>13, StageOfRow
  <1>16. Protocol!Back(d)
    <2>1. Protocol!Become(d, [Cases[d] EXCEPT !.backing[p] = ks])
      BY <1>13, <1>14
    <2> QED BY <1>5, <1>15, <2>1, SameRole, Zenon DEF Protocol!Back
  <1> QED BY <1>2, <1>12, <1>16 DEF Protocol!Next, Protocol!Step

(* Both sides have voted.                                                  *)
LEMMA SerialAdvance ==
  ASSUME TypeOK, TypeOK', ~Overlap, OneActive, SerialInv,
         NEW s \in Slots,
         AdvanceToAcceptance(s) \/ AdvanceToRound2(s) \/ AdvanceToModerator(s)
  PROVE  SerialInv' /\ ClosedStays /\ Protocol!Next
  <1> DEFINE d == loc[s].d
             r == row[d]
             draft == loc[s].draft
  <1>1. loc[s].pc = "advance" /\ UNCHANGED <<turn, faults>>
    BY DEF AdvanceToAcceptance, AdvanceToRound2, AdvanceToModerator
  <1>2. d \in Disputes /\ r \in Row /\ RowFits(r) /\ Sees(s, r)
    BY SeesRow
  <1>3. /\ r.status \in Voting /\ draft.round = r.round
        /\ draft.votes[r.round] = r.votes[r.round] /\ BothVoted(r)
    BY <1>1, <1>2 DEF Sees, Seen
  <1>4. Common(draft) = Common(r)
    BY <1>3 DEF Common
  <1>5. /\ r.status \in Active \ {"model_thinking", "awaiting_moderator"}
        /\ r.status \notin Closed
    BY <1>3 DEF Active, Closed, Voting
  <1>6. /\ Accepting(r.hook) = {} /\ r.round \in {1, 2}
        /\ r.round = 1 => r.votes[2] = NoVotes
    BY <1>2, <1>3 DEF RowFits, Row
  <1>7. Accepting(Pending) = {} /\ Accepting(NoHook) = {} /\ {} # Role
    BY DEF Accepting, Pending, NoHook, NoFinal, Role
  <1> HIDE DEF d, r, draft
  <1>8. ASSUME NEW new, NEW pc \in {Free, "schedule"}, Write(s, d, new, pc),
               RowFits(new), Protocol!Become(d, CaseOf(new)) => Protocol!Next,
               new.status \in {"awaiting_moderator", "waiting_final_acceptance",
                               "model_thinking"}
        PROVE  SerialInv' /\ ClosedStays /\ Protocol!Next
    <2>1. /\ loc[s].pc \notin {Free, "join"}
          /\ new.status \notin Voting \cup {"waiting_clarification_answers"}
      BY <1>1, <1>8 DEF Free, Voting
    <2>2. SerialInv' /\ ClosedStays /\ row' = [row EXCEPT ![d] = new]
      BY <1>1, <1>2, <1>5, <1>8, <2>1, UserLeaves DEF d, r
    <2> QED BY <1>2, <1>8, <2>2, Becomes
  <1>9. Cases[d] = CaseOf(r) /\ Cases[d].stage = "choosing"
    BY <1>2, <1>3, StageOfRow DEF Cases, r
  <1>10. /\ Protocol!BothBacked(d)
         /\ Protocol!Agreed(d) = Common(r)
    <2>1. Cases[d].backing = r.votes[r.round]
      BY <1>9, CaseFields
    <2> QED BY <1>3, <2>1, SameRole
            DEF Protocol!BothBacked, Protocol!Agreed, BothVoted, Common
  <1>11. Owed(r) = {}
    BY <1>3 DEF Owed, Voting
  <1>12. CASE AdvanceToAcceptance(s)
    <2>1. PICK k \in Common(r) :
            Write(s, d, [r EXCEPT !.status = "waiting_final_acceptance",
                                  !.selected = {k}, !.hook = NoHook], Free)
      BY <1>4, <1>12 DEF AdvanceToAcceptance, d, r, draft
    <2> DEFINE new == [r EXCEPT !.status = "waiting_final_acceptance",
                                !.selected = {k}, !.hook = NoHook]
    <2>2. /\ new.status = "waiting_final_acceptance" /\ new.round = r.round
          /\ new.votes = r.votes /\ new.selected = {k} /\ new.hook = NoHook
      BY <1>2 DEF Row
    <2>3. Write(s, d, new, Free)
      BY <2>1
    <2> HIDE DEF new
    <2>4. RowFits(new)
      BY <1>6, <1>7, <2>2 DEF RowFits, Voting
    <2>5. CaseOf(new) = [CaseOf(r) EXCEPT !.stage = "confirming", !.offer = {k},
                                          !.consent = {}]
      <3> DEFINE want == [CaseOf(r) EXCEPT !.stage = "confirming",
                                           !.offer = {k}, !.consent = {}]
      <3>1. /\ IsCase(want) /\ want.stage = "confirming"
            /\ want.round = r.round /\ want.owed = Owed(r)
            /\ want.backing = r.votes[r.round] /\ want.offer = {k}
            /\ want.consent = {}
        BY CaseRecord DEF IsCase, CaseKeys
      <3>2. Owed(new) = {}
        BY <2>2 DEF Owed
      <3> HIDE DEF want
      <3>3. /\ StageOf(new.status) = want.stage /\ new.round = want.round
            /\ Owed(new) = want.owed /\ new.votes[new.round] = want.backing
            /\ new.selected = want.offer /\ Accepting(new.hook) = want.consent
        BY <1>7, <1>11, <2>2, <3>1, <3>2, Stages
      <3>4. CaseOf(new) = want
        BY <3>1, <3>3, CaseIs
      <3> QED BY <3>4 DEF want
    <2>6. k \in Protocol!Agreed(d)
      BY <1>10
    <2>7. ASSUME Protocol!Become(d, CaseOf(new)) PROVE Protocol!Agree(d)
      <3>1. Protocol!Become(d, [Cases[d] EXCEPT !.stage = "confirming",
                                                !.offer = {k}, !.consent = {}])
        BY <1>9, <2>5, <2>7
      <3> QED BY <1>9, <2>6, <3>1, Zenon DEF Protocol!Agree
    <2> QED BY <1>2, <1>8, <2>2, <2>3, <2>4, <2>7
            DEF Protocol!Next, Protocol!Step
  <1>13. CASE AdvanceToRound2(s)
    <2> DEFINE new == [r EXCEPT !.status = "model_thinking", !.round = 2]
    <2>1. Write(s, d, new, "schedule") /\ Common(r) = {} /\ r.round = 1
      BY <1>3, <1>4, <1>13 DEF AdvanceToRound2, d, r, draft
    <2>2. /\ new.status = "model_thinking" /\ new.round = 2
          /\ new.votes = r.votes /\ new.selected = r.selected
          /\ new.hook = r.hook
      BY <1>2 DEF Row
    <2> HIDE DEF new
    <2>3. RowFits(new)
      BY <1>6, <2>2 DEF RowFits, Voting
    <2>4. CaseOf(new) = [CaseOf(r) EXCEPT !.stage = "mediation", !.round = 2,
                                          !.backing = Protocol!NoBacking]
      <3> DEFINE want == [CaseOf(r) EXCEPT !.stage = "mediation", !.round = 2,
                                           !.backing = Protocol!NoBacking]
      <3>1. /\ IsCase(want) /\ want.stage = "mediation"
            /\ want.round = 2 /\ want.owed = Owed(r)
            /\ want.backing = Protocol!NoBacking /\ want.offer = r.selected
            /\ want.consent = Accepting(r.hook)
        BY CaseRecord DEF IsCase, CaseKeys
      <3>2. Owed(new) = {} /\ new.votes[new.round] = Protocol!NoBacking
        BY <1>6, <2>1, <2>2, SameRole DEF Owed
      <3> HIDE DEF want
      <3>3. /\ StageOf(new.status) = want.stage /\ new.round = want.round
            /\ Owed(new) = want.owed /\ new.votes[new.round] = want.backing
            /\ new.selected = want.offer /\ Accepting(new.hook) = want.consent
        BY <1>11, <2>2, <3>1, <3>2, Stages
      <3>4. CaseOf(new) = want
        BY <3>1, <3>3, CaseIs
      <3> QED BY <3>4 DEF want
    <2>5. Cases[d].round = 1
      BY <1>9, <2>1, CaseFields
    <2>6. Protocol!Become(d, CaseOf(new)) => Protocol!Disagree(d)
      BY <1>9, <1>10, <2>1, <2>4, <2>5 DEF Protocol!Disagree
    <2> QED BY <1>2, <1>8, <2>1, <2>2, <2>3, <2>6
            DEF Protocol!Next, Protocol!Step
  <1>14. CASE AdvanceToModerator(s)
    <2> DEFINE new == [r EXCEPT !.status = "awaiting_moderator",
                                !.hook = Pending]
    <2>1. Write(s, d, new, Free) /\ Common(r) = {} /\ r.round = 2
      BY <1>3, <1>4, <1>14 DEF AdvanceToModerator, d, r, draft
    <2>2. /\ new.status = "awaiting_moderator" /\ new.round = r.round
          /\ new.votes = r.votes /\ new.selected = r.selected
          /\ new.hook = Pending
      BY <1>2 DEF Row
    <2> HIDE DEF new
    <2>3. RowFits(new)
      BY <1>6, <2>2 DEF RowFits, Voting
    <2>4. Owed(new) = {}
      BY <2>2 DEF Owed
    <2>5. CaseOf(new) = [CaseOf(r) EXCEPT !.stage = "escalated"]
      <3>1. /\ new.votes[new.round] = r.votes[r.round]
            /\ Accepting(new.hook) = Accepting(r.hook) /\ Owed(new) = Owed(r)
        BY <1>6, <1>7, <1>11, <2>2, <2>4
      <3>2. CaseOf(new) = [CaseOf(r) EXCEPT !.stage = StageOf(new.status)]
        BY <2>2, <3>1, OnlyStage
      <3> QED BY <2>2, <3>2, Stages
    <2>6. Cases[d].round # 1
      BY <1>9, <2>1, CaseFields
    <2>7. Protocol!Become(d, CaseOf(new)) => Protocol!Disagree(d)
      BY <1>9, <1>10, <2>1, <2>5, <2>6 DEF Protocol!Disagree
    <2> QED BY <1>2, <1>8, <2>1, <2>2, <2>3, <2>7
            DEF Protocol!Next, Protocol!Step
  <1> QED BY <1>12, <1>13, <1>14

LEMMA SerialFinal ==
  ASSUME TypeOK, TypeOK', ~Overlap, OneActive, SerialInv,
         NEW s \in Slots, WriteFinal(s)
  PROVE  SerialInv' /\ ClosedStays /\ Protocol!Next
  <1> DEFINE d == loc[s].d
             r == row[d]
             p == Actor[s]
             draft == loc[s].draft
             status == IF draft.status = "waiting_final_acceptance"
                         THEN row[d].status ELSE draft.status
             new == [r EXCEPT !.status = status, !.hook = draft.hook]
  <1>1. /\ loc[s].pc = "final" /\ Write(s, d, new, Free)
        /\ UNCHANGED <<turn, faults>>
    BY DEF WriteFinal
  <1>2. d \in Disputes /\ r \in Row /\ RowFits(r) /\ Sees(s, r)
    BY SeesRow
  <1>3. r.status = "waiting_final_acceptance"
    BY <1>1, <1>2 DEF Sees, Seen
  <1>4. PICK decision \in {"accepted", "rejected"} :
          /\ r.hook.final[p] # decision
          /\ draft.hook.final = [r.hook.final EXCEPT ![p] = decision]
          /\ draft.status =
               IF decision = "rejected" THEN "awaiting_moderator"
               ELSE IF Accepting(draft.hook) = Role THEN "resolved"
               ELSE "waiting_final_acceptance"
    BY <1>1, <1>2 DEF Sees, Seen
  <1>5. p \in Role
    BY <1>1, ActorAssumption DEF SerialInv, AdminsJoin, User, Free
  <1>6. /\ new.status = draft.status /\ new.round = r.round
        /\ new.votes = r.votes /\ new.selected = r.selected
        /\ new.hook = draft.hook
    BY <1>2, <1>3, <1>4 DEF Row
  <1> HIDE DEF d, r, p, draft, status, new
  <1>7. /\ decision = "accepted"
             => Accepting(new.hook) = Accepting(r.hook) \cup {p}
        /\ decision = "rejected"
             => Accepting(new.hook) = Accepting(r.hook) \ {p}
        /\ decision = "accepted" => p \notin Accepting(r.hook)
    <2>1. r.hook.final \in [Role -> {"none", "accepted", "rejected"}]
      BY <1>2 DEF Row, Hook
    <2>2. /\ new.hook.final[p] = decision
          /\ \A q \in Role \ {p} : new.hook.final[q] = r.hook.final[q]
      BY <1>4, <1>5, <1>6, <2>1
    <2>3. \A q \in Role :
            /\ q \in Accepting(new.hook) <=> new.hook.final[q] = "accepted"
            /\ q \in Accepting(r.hook) <=> r.hook.final[q] = "accepted"
      BY DEF Accepting
    <2>4. Accepting(new.hook) \subseteq Role /\ Accepting(r.hook) \subseteq Role
      BY DEF Accepting
    <2>5. CASE decision = "accepted"
      <3>1. p \in Accepting(new.hook) /\ p \notin Accepting(r.hook)
        BY <1>4, <1>5, <2>2, <2>3, <2>5
      <3>2. \A q \in Role \ {p} :
              q \in Accepting(new.hook) <=> q \in Accepting(r.hook)
        BY <2>2, <2>3
      <3>3. Accepting(new.hook) = Accepting(r.hook) \cup {p}
        BY <1>5, <2>4, <3>1, <3>2
      <3> QED BY <2>5, <3>1, <3>3
    <2>6. CASE decision = "rejected"
      <3>1. p \notin Accepting(new.hook)
        BY <1>5, <2>2, <2>3, <2>6
      <3>2. \A q \in Role \ {p} :
              q \in Accepting(new.hook) <=> q \in Accepting(r.hook)
        BY <2>2, <2>3
      <3>3. Accepting(new.hook) = Accepting(r.hook) \ {p}
        BY <1>5, <2>4, <3>1, <3>2
      <3> QED BY <2>6, <3>3
    <2> QED BY <2>5, <2>6
  <1>8. RowFits(new)
    BY <1>2, <1>4, <1>6 DEF RowFits, Voting
  <1>9. /\ loc[s].pc \notin {Free, "join"}
        /\ r.status \in Active \ {"model_thinking", "awaiting_moderator"}
        /\ r.status \notin Closed
        /\ new.status \notin Voting \cup {"waiting_clarification_answers"}
    BY <1>1, <1>3, <1>4, <1>6 DEF Free, Active, Closed, Voting
  <1>10. SerialInv' /\ ClosedStays /\ row' = [row EXCEPT ![d] = new]
    BY <1>1, <1>2, <1>8, <1>9, UserLeaves DEF d, r, Free
  <1>11. Cases[d] = CaseOf(r) /\ Protocol!Become(d, CaseOf(new))
    BY <1>2, <1>10, Becomes DEF r
  <1>12. /\ Cases[d].stage = "confirming"
         /\ Cases[d].consent = Accepting(r.hook)
         /\ Owed(r) = {} /\ Owed(new) = {}
    BY <1>3, <1>9, <1>11, StageOfRow, CaseFields DEF Owed
  <1>13. CASE decision = "accepted"
    <2> DEFINE all == Accepting(r.hook) \cup {p}
               want == [CaseOf(r) EXCEPT
                          !.consent = all,
                          !.stage = IF all = Role THEN "settled" ELSE @]
    <2>1. /\ IsCase(want)
          /\ want.stage = IF all = Role THEN "settled" ELSE StageOf(r.status)
          /\ want.round = r.round /\ want.owed = Owed(r)
          /\ want.backing = r.votes[r.round] /\ want.offer = r.selected
          /\ want.consent = all
      BY CaseRecord DEF IsCase, CaseKeys
    <2>2. new.status = IF all = Role THEN "resolved"
                       ELSE "waiting_final_acceptance"
      BY <1>4, <1>6, <1>7, <1>13
    <2> HIDE DEF want
    <2>3. /\ StageOf(new.status) = want.stage /\ new.round = want.round
          /\ Owed(new) = want.owed /\ new.votes[new.round] = want.backing
          /\ new.selected = want.offer /\ Accepting(new.hook) = want.consent
      BY <1>3, <1>6, <1>7, <1>12, <1>13, <2>1, <2>2, Stages
    <2>4. CaseOf(new) = want
      BY <2>1, <2>3, CaseIs
    <2>5. /\ Protocol!Role = Role /\ p \in Role \ Cases[d].consent
          /\ all = Cases[d].consent \cup {p}
      BY <1>5, <1>7, <1>12, <1>13, SameRole
    <2>6. want = [Cases[d] EXCEPT
                    !.consent = all,
                    !.stage = IF all = Role THEN "settled" ELSE @]
      BY <1>11 DEF want
    <2> HIDE DEF all
    <2>7. Protocol!Consent(d)
      <3>1. Protocol!Become(d, [Cases[d] EXCEPT
                                  !.consent = all,
                                  !.stage = IF all = Role THEN "settled" ELSE @])
        BY <1>11, <2>4, <2>6
      <3> QED BY <1>12, <2>5, <3>1, Zenon DEF Protocol!Consent
    <2> QED BY <1>2, <1>10, <2>7 DEF Protocol!Next, Protocol!Step
  <1>14. CASE decision = "rejected"
    <2> DEFINE want == [CaseOf(r) EXCEPT !.stage = "escalated",
                                         !.consent = @ \ {p}]
    <2>1. /\ IsCase(want) /\ want.stage = "escalated"
          /\ want.round = r.round /\ want.owed = Owed(r)
          /\ want.backing = r.votes[r.round] /\ want.offer = r.selected
          /\ want.consent = Accepting(r.hook) \ {p}
      BY CaseRecord DEF IsCase, CaseKeys
    <2> HIDE DEF want
    <2>2. /\ StageOf(new.status) = want.stage /\ new.round = want.round
          /\ Owed(new) = want.owed /\ new.votes[new.round] = want.backing
          /\ new.selected = want.offer /\ Accepting(new.hook) = want.consent
      BY <1>4, <1>6, <1>7, <1>12, <1>14, <2>1, Stages
    <2>3. CaseOf(new) = want
      BY <2>1, <2>2, CaseIs
    <2>4. want = [Cases[d] EXCEPT !.stage = "escalated", !.consent = @ \ {p}]
      BY <1>11 DEF want
    <2>5. Protocol!Refuse(d)
      BY <1>5, <1>11, <1>12, <2>3, <2>4, SameRole DEF Protocol!Refuse
    <2> QED BY <1>2, <1>10, <2>5 DEF Protocol!Next, Protocol!Step
  <1> QED BY <1>13, <1>14

----------------------------------------------------------------------------
(* Steps that write no row.                                                *)

LEMMA RowSame ==
  ASSUME TypeOK, SerialInv, row' = row,
         \A s \in Slots : loc'[s] = loc[s] \/ loc'[s].pc = Free,
         \A w \in Turns : Calls(w, row[turn[w].d])',
         faults' = 0 => /\ faults = 0
                        /\ \A s \in Slots :
                             loc[s].pc \in {"advance", "complete"}
                               => loc'[s] = loc[s]
  PROVE  SerialInv' /\ ClosedStays /\ Cases' = Cases
  <1>1. OneByOne' /\ AdminsJoin'
    BY DEF SerialInv, OneByOne, AdminsJoin, User
  <1>2. \A d \in Disputes : RowFits(row[d])'
    BY DEF SerialInv, RowFits
  <1>3. ASSUME NEW s \in Slots PROVE Sees(s, row[loc[s].d])'
    <2>1. CASE loc'[s].pc = Free
      BY <2>1, SeesNothing
    <2>2. CASE loc'[s] = loc[s]
      <3>1. Sees(s, row[loc[s].d])
        BY DEF SerialInv
      <3> QED BY <2>2, <3>1, SeesKept
    <2> QED BY <2>1, <2>2
  <1>4. Moving'
    <2> SUFFICES ASSUME faults' = 0, NEW e \in Disputes,
                        NEW pc \in {"advance", "complete"}, Ready(row[e], pc)
                 PROVE  Due(e, pc)'
      BY DEF Moving, Ready, BothVoted, Required
    <2>1. PICK t \in Slots : loc[t].pc = pc /\ loc[t].d = e
      BY DEF SerialInv, Moving, Due
    <2> QED BY <2>1 DEF Due
  <1>5. SerialInv'
    BY <1>1, <1>2, <1>3, <1>4 DEF SerialInv
  <1>6. ClosedStays
    BY DEF ClosedStays
  <1> QED BY <1>5, <1>6, SameCases

Quiet ==
  \/ UNCHANGED vars
  \/ \E s \in Slots : StartModel(s) \/ RequestDies(s)
  \/ \E w \in Turns : \/ AcquireSlot(w) \/ ReadTurn(w) \/ ReleaseSlot(w)
                      \/ TurnDies(w)
  \/ \E d \in Disputes : DeadlinePasses(d)
  \/ Restart

LEMMA SerialQuiet ==
  ASSUME TypeOK, SerialInv, Quiet
  PROVE  SerialInv' /\ ClosedStays /\ Cases' = Cases
  <1>1. faults \in Nat /\ faults + 1 # 0
    BY MaxFaultsAssumption DEF TypeOK
  <1>2. \A w \in Turns : Calls(w, row[turn[w].d])
    BY DEF SerialInv
  <1>3. ASSUME row' = row, turn' = turn
        PROVE  \A w \in Turns : Calls(w, row[turn[w].d])'
    BY <1>2, <1>3 DEF Calls
  <1>4. CASE UNCHANGED vars
    <2>1. row' = row /\ loc' = loc /\ turn' = turn /\ faults' = faults
      BY <1>4 DEF vars
    <2> QED BY <1>3, <2>1, RowSame
  <1>5. ASSUME NEW s \in Slots, StartModel(s)
        PROVE  SerialInv' /\ ClosedStays /\ Cases' = Cases
    <2>1. /\ loc[s].pc = "schedule" /\ loc' = [loc EXCEPT ![s] = IdleLoc]
          /\ row' = row /\ faults' = faults
      BY <1>5 DEF StartModel, Finish
    <2>2. PICK v \in Turns :
            turn' = [turn EXCEPT ![v] = [pc |-> "scheduled", d |-> loc[s].d,
                                         round |-> 1]]
      BY <1>5 DEF StartModel
    <2>3. ASSUME NEW w \in Turns PROVE Calls(w, row[turn[w].d])'
      BY <1>2, <2>1, <2>2 DEF Calls, TypeOK
    <2>4. /\ \A t \in Slots : loc'[t] = loc[t] \/ loc'[t].pc = Free
          /\ \A t \in Slots : loc[t].pc \in {"advance", "complete"}
                                => loc'[t] = loc[t]
      BY <2>1 DEF TypeOK, IdleLoc
    <2> QED BY <2>1, <2>3, <2>4, RowSame
  <1>6. ASSUME NEW s \in Slots, RequestDies(s)
        PROVE  SerialInv' /\ ClosedStays /\ Cases' = Cases
    <2>1. /\ loc' = [loc EXCEPT ![s] = IdleLoc] /\ faults' = faults + 1
          /\ row' = row /\ turn' = turn
      BY <1>6 DEF RequestDies, Finish, Fault
    <2>2. \A t \in Slots : loc'[t] = loc[t] \/ loc'[t].pc = Free
      BY <2>1 DEF TypeOK, IdleLoc
    <2> QED BY <1>1, <1>3, <2>1, <2>2, RowSame
  <1>7. ASSUME NEW w \in Turns,
               \/ AcquireSlot(w) \/ ReadTurn(w) \/ ReleaseSlot(w) \/ TurnDies(w)
        PROVE  SerialInv' /\ ClosedStays /\ Cases' = Cases
    <2>1. row' = row /\ loc' = loc /\ (faults' = 0 => faults = 0)
      BY <1>1, <1>7 DEF AcquireSlot, ReadTurn, ReleaseSlot, TurnDies, Fault
    <2>2. ASSUME NEW v \in Turns PROVE Calls(v, row[turn[v].d])'
      <3>1. CASE v # w
        <4>1. turn'[v] = turn[v]
          BY <1>7, <3>1 DEF AcquireSlot, ReadTurn, ReleaseSlot, TurnDies, TypeOK
        <4> QED BY <1>2, <2>1, <4>1 DEF Calls
      <3>2. CASE v = w /\ ~ReadTurn(w)
        <4>1. turn'[w].pc # "calling"
          <5>1. CASE AcquireSlot(w)
            <6>1. \/ turn' = [turn EXCEPT ![w] = IdleTurn]
                  \/ turn' = [turn EXCEPT ![w].pc = "acquired"]
              BY <5>1 DEF AcquireSlot
            <6> QED BY <6>1 DEF TypeOK, Turn, IdleTurn, Free
          <5>2. CASE ReleaseSlot(w)
            BY <5>2 DEF ReleaseSlot, TypeOK, IdleTurn, Free
          <5>3. CASE TurnDies(w)
            BY <5>3 DEF TurnDies, TypeOK, Turn
          <5> QED BY <1>7, <3>2, <5>1, <5>2, <5>3
        <4> QED BY <3>2, <4>1 DEF Calls
      <3>3. CASE v = w /\ ReadTurn(w)
        <4>1. CASE row[turn[w].d].status = "model_thinking"
          <5>1. /\ turn'[w].d = turn[w].d
                /\ turn'[w].round = row[turn[w].d].round
            BY <3>3, <4>1 DEF ReadTurn, TypeOK, Turn
          <5> QED BY <2>1, <3>3, <4>1, <5>1 DEF Calls
        <4>2. CASE row[turn[w].d].status # "model_thinking"
          <5>1. turn'[w].pc = "returning"
            BY <3>3, <4>2 DEF ReadTurn, TypeOK, Turn
          <5> QED BY <3>3, <5>1 DEF Calls
        <4> QED BY <4>1, <4>2
      <3> QED BY <3>1, <3>2, <3>3
    <2> QED BY <2>1, <2>2, RowSame
  <1>8. ASSUME NEW d \in Disputes, DeadlinePasses(d)
        PROVE  SerialInv' /\ ClosedStays /\ Cases' = Cases
    <2>1. row' = row /\ loc' = loc /\ turn' = turn /\ faults' = faults
      BY <1>8 DEF DeadlinePasses
    <2> QED BY <1>3, <2>1, RowSame
  <1>9. ASSUME Restart
        PROVE  SerialInv' /\ ClosedStays /\ Cases' = Cases
    <2>1. /\ row' = row /\ faults' = faults + 1
          /\ \A t \in Slots : loc'[t] = loc[t] \/ loc'[t] = IdleLoc
          /\ \A v \in Turns : turn'[v] = IdleTurn
      BY <1>9 DEF Restart, Fault
    <2>2. \A t \in Slots : loc'[t] = loc[t] \/ loc'[t].pc = Free
      BY <2>1 DEF IdleLoc
    <2>3. \A v \in Turns : Calls(v, row[turn[v].d])'
      BY <2>1 DEF Calls, IdleTurn, Free
    <2> QED BY <1>1, <2>1, <2>2, <2>3, RowSame
  <1> QED BY <1>4, <1>5, <1>6, <1>7, <1>8, <1>9 DEF Quiet

----------------------------------------------------------------------------
(* Steps on a row nobody else is working on.                               *)

(* With the status of r only moderators and ended requests still hold r.   *)
Waiting == {"model_thinking", "awaiting_moderator"}

LEMMA WaitingSlots ==
  ASSUME TypeOK, SerialInv, NEW d \in Disputes, row[d].status \in Waiting,
         NEW t \in Slots
  PROVE  /\ loc[t].pc # "insert"
         /\ loc[t].d = d => loc[t].pc \in {Free, "schedule", "join"}
         /\ loc[t].d = d /\ loc[t].pc = "join"
              => row[d].status = "awaiting_moderator"
  <1>1. Sees(t, row[loc[t].d]) /\ loc[t].pc \in RequestPC
    BY DEF SerialInv, TypeOK, Loc
  <1>2. loc[t].pc # "insert"
    BY <1>1 DEF Sees, Seen, Waiting, Active
  <1>3. ASSUME loc[t].d = d PROVE loc[t].pc \in {Free, "schedule", "join"}
    BY <1>1, <1>2, <1>3 DEF Sees, Seen, Waiting, RequestPC, Voting
  <1>4. ASSUME loc[t].d = d, loc[t].pc = "join"
        PROVE  row[d].status = "awaiting_moderator"
    BY <1>1, <1>4 DEF Sees, Seen
  <1> QED BY <1>2, <1>3, <1>4

LEMMA SerialJoin ==
  ASSUME TypeOK, OneActive, SerialInv, NEW s \in Slots, WriteJoin(s)
  PROVE  SerialInv' /\ ClosedStays /\ Cases' = Cases
  <1> DEFINE d == loc[s].d
             r == row[d]
             draft == loc[s].draft
             new == [r EXCEPT !.hook = draft.hook]
  <1>1. /\ loc[s].pc = "join" /\ Write(s, d, new, Free)
        /\ turn' = turn /\ faults' = faults
    BY DEF WriteJoin
  <1>2. d \in Disputes /\ r \in Row /\ RowFits(r) /\ Sees(s, r)
    BY SeesRow
  <1>3. r.status = "awaiting_moderator" /\ draft.hook.final = r.hook.final
    BY <1>1, <1>2 DEF Sees, Seen
  <1>4. /\ new.status = r.status /\ new.round = r.round
        /\ new.votes = r.votes /\ new.selected = r.selected
        /\ new.hook.final = r.hook.final
    BY <1>2, <1>3 DEF Row
  <1> HIDE DEF d, r, draft, new
  <1>5. /\ row' = [row EXCEPT ![d] = new]
        /\ \A t \in Slots \ {s} : loc'[t] = loc[t]
        /\ loc'[s].pc = Free
    <2>1. row[d].status \in Active
      BY <1>3 DEF Active, r
    <2> QED BY <1>1, <1>2, <2>1, Effect
  <1>6. row'[d] = new /\ \A e \in Disputes \ {d} : row'[e] = row[e]
    BY <1>2, <1>5 DEF TypeOK
  <1>7. row[d].status \in Waiting
    BY <1>3 DEF Waiting, r
  <1>8. OneByOne' /\ AdminsJoin'
    BY <1>5 DEF SerialInv, OneByOne, AdminsJoin, User
  <1>9. \A e \in Disputes : RowFits(row'[e])
    <2>1. RowFits(new)
      BY <1>2, <1>3, <1>4 DEF RowFits, Voting
    <2> QED BY <1>6, <2>1 DEF SerialInv
  <1>10. ASSUME NEW t \in Slots PROVE Sees(t, row[loc[t].d])'
    <2>1. CASE loc'[t].pc \in {Free, "schedule"}
      BY <2>1, SeesNothing
    <2>2. CASE loc'[t].pc \notin {Free, "schedule"}
      <3>1. loc'[t] = loc[t] /\ loc[t].pc # "insert"
        BY <1>2, <1>5, <1>7, <2>2, WaitingSlots
      <3>2. CASE loc[t].d # d
        <4>1. row'[loc[t].d] = row[loc[t].d] /\ Sees(t, row[loc[t].d])
          BY <1>6, <3>2, Referents DEF SerialInv
        <4> QED BY <3>1, <4>1, SeesKept
      <3>3. CASE loc[t].d = d
        <4>1. loc[t].pc = "join"
          BY <1>2, <1>7, <2>2, <3>1, <3>3, WaitingSlots
        <4>2. loc[t].draft.hook.final = r.hook.final
          BY <3>3, <4>1 DEF SerialInv, Sees, Seen, r
        <4> QED BY <1>3, <1>4, <1>6, <3>1, <3>3, <4>1, <4>2 DEF Sees, Seen
      <3> QED BY <3>2, <3>3
    <2> QED BY <2>1, <2>2
  <1>11. ASSUME NEW w \in Turns PROVE Calls(w, row[turn[w].d])'
    <2>1. Calls(w, row[turn[w].d]) /\ turn[w].d \in Disputes
      BY Referents DEF SerialInv
    <2>2. turn[w].pc = "calling" => turn[w].d # d
      BY <1>3, <2>1 DEF Calls, r
    <2> QED BY <1>1, <1>6, <2>1, <2>2 DEF Calls
  <1>12. Moving'
    <2> SUFFICES ASSUME faults = 0, NEW e \in Disputes,
                        NEW pc \in {"advance", "complete"}, Ready(row'[e], pc)
                 PROVE  Due(e, pc)'
      BY <1>1 DEF Moving, Ready, BothVoted, Required
    <2>1. e # d
      BY <1>3, <1>4, <1>6 DEF Ready, Voting
    <2>2. PICK t \in Slots : loc[t].pc = pc /\ loc[t].d = e
      BY <1>6, <2>1 DEF SerialInv, Moving, Due
    <2> QED BY <1>1, <1>5, <2>2 DEF Due
  <1>13. SerialInv'
    BY <1>8, <1>9, <1>10, <1>11, <1>12 DEF SerialInv, RowFits
  <1>14. ClosedStays
    BY <1>3, <1>6 DEF ClosedStays, Closed, r
  <1>15. Cases' = Cases
    <2>1. CaseOf(new) = CaseOf(r)
      <3>1. /\ Owed(new) = {} /\ Owed(r) = {}
            /\ Accepting(new.hook) = Accepting(r.hook)
        BY <1>3, <1>4 DEF Owed, Accepting
      <3>2. /\ StageOf(new.status) = CaseOf(r).stage
            /\ new.round = CaseOf(r).round /\ Owed(new) = CaseOf(r).owed
            /\ new.votes[new.round] = CaseOf(r).backing
            /\ new.selected = CaseOf(r).offer
            /\ Accepting(new.hook) = CaseOf(r).consent
        BY <1>4, <3>1, CaseFields
      <3> QED BY <3>2, CaseIs, CaseIsCase
    <2>2. Cases[d] = CaseOf(r) /\ Protocol!Become(d, CaseOf(new))
      BY <1>2, <1>5, Becomes DEF r
    <2>3. Cases' = [Cases EXCEPT ![d] = Cases[d]]
      BY <2>1, <2>2 DEF Protocol!Become
    <2> QED BY <2>3 DEF Cases
  <1> QED BY <1>13, <1>14, <1>15

(* A turn writes what the model has answered, or calls a moderator.        *)
LEMMA TurnWrites ==
  ASSUME TypeOK, TurnExclusive, SerialInv, NEW w \in Turns,
         turn[w].pc = "calling", NEW d, d = turn[w].d, NEW new,
         row' = [row EXCEPT ![d] = new],
         \A v \in Turns \ {w} : turn'[v] = turn[v], turn'[w].pc # "calling",
         loc' = loc, faults' = faults, RowFits(new),
         \A q \in {"advance", "complete"} : ~Ready(new, q)
  PROVE  SerialInv' /\ ClosedStays
  <1>1. d \in Disputes /\ row[d].status = "model_thinking"
    BY Referents DEF SerialInv, Calls
  <1>2. row'[d] = new /\ \A e \in Disputes \ {d} : row'[e] = row[e]
    BY <1>1 DEF TypeOK
  <1>3. row[d].status \in Waiting
    BY <1>1 DEF Waiting
  <1>4. OneByOne' /\ AdminsJoin'
    BY DEF SerialInv, OneByOne, AdminsJoin, User
  <1>5. \A e \in Disputes : RowFits(row'[e])
    BY <1>2 DEF SerialInv
  <1>6. ASSUME NEW t \in Slots PROVE Sees(t, row[loc[t].d])'
    <2>1. CASE loc'[t].pc \in {Free, "schedule"}
      BY <2>1, SeesNothing
    <2>2. CASE loc'[t].pc \notin {Free, "schedule"}
      <3>1. loc'[t] = loc[t] /\ loc[t].pc # "insert" /\ loc[t].d # d
        BY <1>1, <1>3, <2>2, WaitingSlots
      <3>2. row'[loc[t].d] = row[loc[t].d] /\ Sees(t, row[loc[t].d])
        BY <1>2, <3>1, Referents DEF SerialInv
      <3> QED BY <3>1, <3>2, SeesKept
    <2> QED BY <2>1, <2>2
  <1>7. ASSUME NEW v \in Turns PROVE Calls(v, row[turn[v].d])'
    <2>1. CASE v = w
      BY <2>1 DEF Calls
    <2>2. CASE v # w
      <3>1. /\ Calls(v, row[turn[v].d])
            /\ turn'[v] = turn[v] /\ turn[v].d \in Disputes
        BY <2>2, Referents DEF SerialInv
      <3>2. turn[v].pc = "calling" => turn[v].d # d
        BY <2>2 DEF TurnExclusive, Working
      <3> QED BY <1>2, <3>1, <3>2 DEF Calls
    <2> QED BY <2>1, <2>2
  <1>8. Moving'
    <2> SUFFICES ASSUME faults = 0, NEW e \in Disputes,
                        NEW pc \in {"advance", "complete"}, Ready(row'[e], pc)
                 PROVE  Due(e, pc)'
      BY DEF Moving, Ready, BothVoted, Required
    <2>1. e # d
      BY <1>2
    <2>2. Due(e, pc)
      BY <1>2, <2>1 DEF SerialInv, Moving
    <2> QED BY <2>2 DEF Due
  <1>9. SerialInv'
    BY <1>4, <1>5, <1>6, <1>7, <1>8 DEF SerialInv, RowFits
  <1>10. ClosedStays
    BY <1>1, <1>2 DEF ClosedStays, Closed
  <1> QED BY <1>9, <1>10

LEMMA SerialTurn ==
  ASSUME TypeOK, TurnExclusive, OneActive, SerialInv, NEW w \in Turns,
         AskQuestions(w) \/ OfferRound1(w) \/ OfferRound2(w) \/ TurnFails(w)
  PROVE  SerialInv' /\ ClosedStays /\ Protocol!Next
  <1> DEFINE d == turn[w].d
             r == row[d]
  <1>1. turn[w].pc = "calling" /\ d \in Disputes /\ r \in Row /\ RowFits(r)
    BY Referents
       DEF AskQuestions, OfferRound1, OfferRound2, TurnFails, WriteTurn,
           SerialInv
  <1>2. r.status = "model_thinking" /\ r.round = turn[w].round
    BY <1>1 DEF SerialInv, Calls
  <1>3. Accepting(r.hook) = {} /\ Owed(r) = {}
        /\ (r.round = 1 => r.votes[2] = NoVotes)
    BY <1>1, <1>2 DEF RowFits, Owed
  <1>4. Cases[d] = CaseOf(r) /\ Cases[d].stage = "mediation"
    BY <1>1, <1>2, StageOfRow DEF Cases
  <1> HIDE DEF d, r
  <1>5. ASSUME NEW new, row' = [row EXCEPT ![d] = new], loc' = loc,
               faults' = faults, NEW pc, pc # "calling",
               turn' = [turn EXCEPT ![w].pc = pc], RowFits(new),
               \A q \in {"advance", "complete"} : ~Ready(new, q),
               Protocol!Become(d, CaseOf(new)) => Protocol!Next
        PROVE  SerialInv' /\ ClosedStays /\ Protocol!Next
    <2>1. /\ \A v \in Turns \ {w} : turn'[v] = turn[v]
          /\ turn'[w].pc # "calling"
      BY <1>5 DEF TypeOK, Turn
    <2>2. SerialInv' /\ ClosedStays
      BY <1>1, <1>5, <2>1, TurnWrites DEF d
    <2> QED BY <1>1, <1>5, <2>2, Becomes
  <1>6. CASE AskQuestions(w)
    <2>1. PICK ps \in (SUBSET Role) \ {{}} :
            WriteTurn(w, [r EXCEPT !.status = "waiting_clarification_answers",
                                   !.asked = ps, !.answers = {}])
      BY <1>6 DEF AskQuestions, d, r
    <2> DEFINE new == [r EXCEPT !.status = "waiting_clarification_answers",
                                !.asked = ps, !.answers = {}]
    <2>2. /\ row' = [row EXCEPT ![d] = new] /\ loc' = loc /\ faults' = faults
          /\ turn' = [turn EXCEPT ![w].pc = "posting"]
      BY <2>1 DEF WriteTurn, d
    <2>3. /\ new.status = "waiting_clarification_answers" /\ new.asked = ps
          /\ new.answers = {} /\ new.round = r.round /\ new.votes = r.votes
          /\ new.selected = r.selected /\ new.hook = r.hook
      BY <1>1 DEF Row
    <2> HIDE DEF new
    <2>4. Required(new) = ps /\ Owed(new) = ps
      BY <2>3 DEF Required, Owed
    <2>5. RowFits(new) /\ \A q \in {"advance", "complete"} : ~Ready(new, q)
      BY <1>3, <2>3, <2>4 DEF RowFits, Ready, Voting
    <2>6. CaseOf(new) = [CaseOf(r) EXCEPT !.stage = "asking", !.owed = ps]
      <3> DEFINE want == [CaseOf(r) EXCEPT !.stage = "asking", !.owed = ps]
      <3>1. /\ IsCase(want) /\ want.stage = "asking"
            /\ want.round = r.round /\ want.owed = ps
            /\ want.backing = r.votes[r.round] /\ want.offer = r.selected
            /\ want.consent = Accepting(r.hook)
        BY CaseRecord DEF IsCase, CaseKeys
      <3> HIDE DEF want
      <3>2. /\ StageOf(new.status) = want.stage /\ new.round = want.round
            /\ Owed(new) = want.owed /\ new.votes[new.round] = want.backing
            /\ new.selected = want.offer /\ Accepting(new.hook) = want.consent
        BY <2>3, <2>4, <3>1, Stages
      <3>3. CaseOf(new) = want
        BY <3>1, <3>2, CaseIs
      <3> QED BY <3>3 DEF want
    <2>7. ASSUME Protocol!Become(d, CaseOf(new)) PROVE Protocol!Ask(d)
      <3>1. Cases[d].round = 1
        BY <1>2, <1>4, <1>6, CaseFields DEF AskQuestions
      <3>2. Protocol!Become(d, [Cases[d] EXCEPT !.stage = "asking", !.owed = ps])
        BY <1>4, <2>6, <2>7
      <3> QED BY <1>4, <3>1, <3>2, SameRole, Zenon DEF Protocol!Ask
    <2> QED BY <1>1, <1>5, <2>2, <2>5, <2>7 DEF Protocol!Next, Protocol!Step
  <1>7. CASE OfferRound1(w) \/ OfferRound2(w)
    <2>1. PICK new :
            /\ WriteTurn(w, new)
            /\ new.status \in Voting /\ new.round = r.round
            /\ new.votes[r.round] = NoVotes
            /\ r.round = 1 => new.votes[2] = r.votes[2]
            /\ new.selected = r.selected /\ new.hook = r.hook
      <3>1. CASE OfferRound1(w)
        <4> DEFINE new == [r EXCEPT !.status = "waiting_round_1_votes",
                                    !.ready = @ \cup {1}, !.votes[1] = NoVotes,
                                    !.asked = {}, !.answers = {}]
        <4>1. WriteTurn(w, new) /\ r.round = 1
          BY <1>2, <3>1 DEF OfferRound1, d, r
        <4>2. /\ new.status = "waiting_round_1_votes" /\ new.round = r.round
              /\ new.votes[1] = NoVotes /\ new.votes[2] = r.votes[2]
              /\ new.selected = r.selected /\ new.hook = r.hook
          BY <1>1 DEF Row
        <4> HIDE DEF new
        <4> QED BY <4>1, <4>2 DEF Voting
      <3>2. CASE OfferRound2(w)
        <4> DEFINE new == [r EXCEPT !.status = "waiting_round_2_votes",
                                    !.ready = @ \cup {2}, !.votes[2] = NoVotes]
        <4>1. WriteTurn(w, new) /\ r.round = 2
          BY <1>2, <3>2 DEF OfferRound2, d, r
        <4>2. /\ new.status = "waiting_round_2_votes" /\ new.round = r.round
              /\ new.votes[2] = NoVotes
              /\ new.selected = r.selected /\ new.hook = r.hook
          BY <1>1 DEF Row
        <4> HIDE DEF new
        <4> QED BY <4>1, <4>2 DEF Voting
      <3> QED BY <1>7, <3>1, <3>2
    <2>2. /\ row' = [row EXCEPT ![d] = new] /\ loc' = loc /\ faults' = faults
          /\ turn' = [turn EXCEPT ![w].pc = "posting"]
      BY <2>1 DEF WriteTurn, d
    <2>3. Owed(new) = {}
      BY <2>1 DEF Owed, Voting
    <2>4. ~BothVoted(new)
      BY <2>1 DEF BothVoted, NoVotes, Role
    <2>5. RowFits(new) /\ \A q \in {"advance", "complete"} : ~Ready(new, q)
      BY <1>3, <2>1, <2>4 DEF RowFits, Ready, Voting
    <2>6. CaseOf(new) = [CaseOf(r) EXCEPT !.stage = "choosing",
                                          !.backing = Protocol!NoBacking]
      <3> DEFINE want == [CaseOf(r) EXCEPT !.stage = "choosing",
                                           !.backing = Protocol!NoBacking]
      <3>1. /\ IsCase(want) /\ want.stage = "choosing"
            /\ want.round = r.round /\ want.owed = Owed(r)
            /\ want.backing = Protocol!NoBacking /\ want.offer = r.selected
            /\ want.consent = Accepting(r.hook)
        BY CaseRecord DEF IsCase, CaseKeys
      <3> HIDE DEF want
      <3>2. /\ StageOf(new.status) = want.stage /\ new.round = want.round
            /\ Owed(new) = want.owed /\ new.votes[new.round] = want.backing
            /\ new.selected = want.offer /\ Accepting(new.hook) = want.consent
        BY <1>3, <2>1, <2>3, <3>1, SameRole, Stages
      <3>3. CaseOf(new) = want
        BY <3>1, <3>2, CaseIs
      <3> QED BY <3>3 DEF want
    <2>7. ASSUME Protocol!Become(d, CaseOf(new)) PROVE Protocol!Propose(d)
      BY <1>4, <2>6, <2>7 DEF Protocol!Propose
    <2> QED BY <1>1, <1>5, <2>2, <2>5, <2>7 DEF Protocol!Next, Protocol!Step
  <1>8. CASE TurnFails(w)
    <2> DEFINE new == [r EXCEPT !.status = "awaiting_moderator"]
    <2>1. IndexAllows(d, "awaiting_moderator")
      BY <1>1, <1>2 DEF IndexAllows, OneActive, Active, d, r
    <2>2. HandOver(w) /\ faults' = faults
      BY <1>8, <2>1 DEF TurnFails, d
    <2>3. /\ row' = [row EXCEPT ![d].status = "awaiting_moderator"]
          /\ loc' = loc /\ turn' = [turn EXCEPT ![w].pc = "returning"]
      BY <2>2 DEF HandOver, d
    <2>4. row' = [row EXCEPT ![d] = new]
      BY <1>1, <2>3 DEF TypeOK, r
    <2>5. /\ new.status = "awaiting_moderator" /\ new.round = r.round
          /\ new.votes = r.votes /\ new.selected = r.selected
          /\ new.hook = r.hook
      BY <1>1 DEF Row
    <2> HIDE DEF new
    <2>6. Owed(new) = {}
      BY <2>5 DEF Owed
    <2>7. RowFits(new) /\ \A q \in {"advance", "complete"} : ~Ready(new, q)
      BY <1>3, <2>5 DEF RowFits, Ready, Voting
    <2>8. CaseOf(new) = [CaseOf(r) EXCEPT !.stage = "escalated"]
      <3>1. /\ new.votes[new.round] = r.votes[r.round]
            /\ Accepting(new.hook) = Accepting(r.hook) /\ Owed(new) = Owed(r)
        BY <1>3, <2>5, <2>6
      <3>2. CaseOf(new) = [CaseOf(r) EXCEPT !.stage = StageOf(new.status)]
        BY <2>5, <3>1, OnlyStage
      <3>3. StageOf(new.status) = "escalated"
        BY <2>5, Stages
      <3> QED BY <3>2, <3>3
    <2>9. ASSUME Protocol!Become(d, CaseOf(new)) PROVE Protocol!GiveUp(d)
      BY <1>4, <2>8, <2>9 DEF Protocol!GiveUp
    <2> QED BY <1>1, <1>5, <2>2, <2>3, <2>4, <2>7, <2>9
            DEF Protocol!Next, Protocol!Step
  <1> QED BY <1>6, <1>7, <1>8

----------------------------------------------------------------------------
(* All together.                                                           *)

LEMMA SerialStep ==
  ASSUME ~Overlap, "turn raises" \notin Faults,
         TypeOK, TypeOK', TurnExclusive, OneActive, SerialInv, [Next]_vars
  PROVE  SerialInv' /\ ClosedStays /\ [Protocol!Next]_Cases
  <1>1. ASSUME NEW s \in Slots, Request(s)
        PROVE  SerialInv' /\ ClosedStays /\ [Protocol!Next]_Cases
    <2>1. row' = row
      BY <1>1 DEF Request, ReadOpen, ReadOverdue, ReadAccept, ReadRespond,
                  ReadAnswer, ReadVote, ReadFinal, ReadJoin, Begin
    <2>2. ClosedStays /\ Cases' = Cases
      BY <2>1, SameCases DEF ClosedStays
    <2> QED BY <1>1, <2>2, SerialRequest
  <1>2. ASSUME NEW s \in Slots, Statement(s)
        PROVE  SerialInv' /\ ClosedStays /\ [Protocol!Next]_Cases
    <2>1. CASE StartModel(s)
      BY <2>1, SerialQuiet DEF Quiet
    <2>2. CASE WriteJoin(s)
      BY <2>2, SerialJoin
    <2>3. CASE ~StartModel(s) /\ ~WriteJoin(s)
      BY <1>2, <2>3, SerialInsert, SerialAnswered, SerialAnswer, SerialComplete,
         SerialVote, SerialAdvance, SerialFinal DEF Statement
    <2> QED BY <2>1, <2>2, <2>3
  <1>3. ASSUME NEW w \in Turns, ModelStep(w)
        PROVE  SerialInv' /\ ClosedStays /\ [Protocol!Next]_Cases
    <2>1. CASE AcquireSlot(w) \/ ReadTurn(w) \/ ReleaseSlot(w)
      BY <2>1, SerialQuiet DEF Quiet
    <2>2. CASE \/ AskQuestions(w) \/ OfferRound1(w) \/ OfferRound2(w)
               \/ TurnFails(w)
      BY <2>2, SerialTurn
    <2> QED BY <1>3, <2>1, <2>2 DEF ModelStep
  <1>4. CASE Quiet
    BY <1>4, SerialQuiet
  <1>5. \A w \in Turns : ~TurnRaises(w)
    BY DEF TurnRaises, Fault
  <1> QED BY <1>1, <1>2, <1>3, <1>4, <1>5 DEF Next, Quiet

LEMMA SerialAlways ==
  ASSUME ~Overlap, "turn raises" \notin Faults
  PROVE  Spec => [](TypeOK /\ TurnExclusive /\ OneActive /\ SerialInv)
  <1>1. Init => SerialInv
    BY SerialInit
  <1>2. /\ TypeOK /\ TypeOK' /\ TurnExclusive /\ OneActive /\ SerialInv
        /\ [Next]_vars
        => SerialInv'
    BY SerialStep
  <1> QED BY <1>1, <1>2, Typing, Exclusion, OneActiveAlways, PTL DEF Spec

(* When the users' requests do not overlap, no dispute waits for a side    *)
(* that has voted, answered or accepted, whatever model turns, moderators, *)
(* restarts and failed requests do in between.                             *)
THEOREM NoVainWait ==
  ASSUME ~Overlap, "turn raises" \notin Faults
  PROVE  Spec => []NobodyWaitsInVain
  <1>1. SerialInv => NobodyWaitsInVain
    <2> SUFFICES ASSUME SerialInv, faults = 0, NEW d \in Disputes
                 PROVE  /\ row[d].status \in Voting /\ BothVoted(row[d])
                             => Due(d, "advance")
                        /\ row[d].status = "waiting_clarification_answers"
                             /\ Required(row[d]) \subseteq row[d].answers
                             => Due(d, "complete")
                        /\ row[d].status = "waiting_final_acceptance"
                             => \E p \in Role : row[d].hook.final[p] # "accepted"
      BY DEF NobodyWaitsInVain
    <2>1. \A pc \in {"advance", "complete"} : Ready(row[d], pc) => Due(d, pc)
      BY DEF SerialInv, Moving
    <2>2. RowFits(row[d])
      BY DEF SerialInv
    <2> QED BY <2>1, <2>2 DEF Ready, RowFits, Accepting
  <1> QED BY <1>1, SerialAlways, PTL

(* ... a dispute that is closed stays closed.                              *)
THEOREM ClosedForGood ==
  ASSUME ~Overlap, "turn raises" \notin Faults
  PROVE  Spec => ClosedIsFinal
  <1>1. /\ TypeOK /\ TurnExclusive /\ OneActive /\ SerialInv
        /\ TypeOK' /\ [Next]_vars
        => [\A d \in Disputes : row[d].status \in Closed => row'[d] = row[d]]_row
    BY SerialStep DEF ClosedStays
  <1> QED BY <1>1, SerialAlways, PTL DEF Spec, ClosedIsFinal

(* ... and the procedure implements what the two sides are promised.       *)
THEOREM Refinement ==
  ASSUME ~Overlap, "turn raises" \notin Faults
  PROVE  Spec => ImplementsProtocol
  <1>1. Init => Protocol!Init
    <2> SUFFICES ASSUME Init PROVE Cases = [d \in Disputes |-> Protocol!Unopened]
      BY DEF Protocol!Init
    <2>1. \A d \in Disputes : row[d] = Blank
      BY DEF Init, Blank
    <2>2. CaseOf(Blank) = Protocol!Unopened
      <3>1. /\ StageOf(Blank.status) = "none" /\ Blank.round = 1
            /\ Owed(Blank) = {} /\ Blank.votes[1] = Protocol!NoBacking
            /\ Blank.selected = {} /\ Accepting(Blank.hook) = {}
        BY Stages, SameRole DEF Blank, NewRow, Owed, Accepting, NoHook, NoFinal
      <3>2. /\ IsCase(Protocol!Unopened)
            /\ Protocol!Unopened.stage = "none" /\ Protocol!Unopened.round = 1
            /\ Protocol!Unopened.owed = {} /\ Protocol!Unopened.offer = {}
            /\ Protocol!Unopened.backing = Protocol!NoBacking
            /\ Protocol!Unopened.consent = {}
        BY DEF IsCase, CaseKeys, Protocol!Unopened
      <3> QED BY <3>1, <3>2, CaseIs
    <2> QED BY <2>1, <2>2 DEF Cases
  <1>2. /\ TypeOK /\ TurnExclusive /\ OneActive /\ SerialInv
        /\ TypeOK' /\ [Next]_vars
        => [Protocol!Next]_Cases
    BY SerialStep
  <1> QED BY <1>1, <1>2, SerialAlways, PTL
          DEF Spec, ImplementsProtocol, Protocol!Spec
----------------------------------------------------------------------------
(* What the refinement buys.  The protocol settles nothing but an option   *)
(* both sides back in the same round, and only when both have consented.   *)

AgreedCase(c) ==
  /\ c.stage \in {"confirming", "settled"} =>
       \E k \in Kinds : /\ c.offer = {k}
                        /\ \A p \in Role : k \in c.backing[p]
  /\ c.stage = "settled" => c.consent = Role

AgreedCases == \A d \in Disputes : AgreedCase(Cases[d])

(* The same of the rows: what a resolved dispute is settled with is, to    *)
(* this day, in the votes of both sides in its last round.                 *)
SettledIsAgreed ==
  \A d \in Disputes :
    LET r == row[d] IN
    /\ r.status \in {"waiting_final_acceptance", "resolved"} =>
         \E k \in Kinds : /\ r.selected = {k}
                          /\ \A p \in Role : k \in r.votes[r.round][p]
    /\ r.status = "resolved" =>
         \A p \in Role : r.hook.final[p] = "accepted"

(* Overwriting one case, or only its stage.                                *)
LEMMA AgreedBecome ==
  ASSUME AgreedCases, NEW d \in Disputes, NEW new,
         Protocol!Become(d, new), AgreedCase(new)
  PROVE  AgreedCases'
  <1>1. Cases = [e \in Disputes |-> CaseOf(row[e])]
    BY DEF Cases
  <1>2. Cases' = [Cases EXCEPT ![d] = new]
    BY DEF Protocol!Become
  <1>3. \A e \in Disputes : Cases'[e] = new \/ Cases'[e] = Cases[e]
    BY <1>1, <1>2
  <1>4. \A e \in Disputes : AgreedCase(Cases'[e])
    BY <1>3 DEF AgreedCases
  <1> QED BY <1>4 DEF AgreedCases, AgreedCase

LEMMA AgreedStage ==
  ASSUME AgreedCases, NEW d \in Disputes, NEW new,
         Protocol!Become(d, new),
         new.stage \notin {"confirming", "settled"}
  PROVE  AgreedCases'
  BY AgreedBecome DEF AgreedCase

LEMMA AgreedStep ==
  ASSUME AgreedCases, [Protocol!Next]_Cases
  PROVE  AgreedCases'
  <1>1. CASE UNCHANGED Cases
    BY <1>1 DEF AgreedCases, AgreedCase
  <1>2. ASSUME NEW d \in Disputes, Protocol!Step(d)
        PROVE  AgreedCases'
    <2> DEFINE c == Cases[d]
    <2>1. c = [stage |-> c.stage, round |-> c.round, owed |-> c.owed,
               backing |-> c.backing, offer |-> c.offer, consent |-> c.consent]
      BY CaseRecord DEF Cases
    <2>2. AgreedCase(c)
      BY DEF AgreedCases
    <2>3. CASE \/ Protocol!Open(d) \/ Protocol!Concede(d) \/ Protocol!Lapse(d)
               \/ Protocol!Contest(d) \/ Protocol!Heard(d)
               \/ Protocol!GiveUp(d)
      <3>1. \/ Protocol!Become(d, [Protocol!Unopened EXCEPT !.stage = "opened"])
            \/ \E stage \in {"conceded", "escalated", "mediation"} :
                 Protocol!Become(d, [c EXCEPT !.stage = stage])
        BY <2>3 DEF Protocol!Open, Protocol!Concede, Protocol!Lapse,
                    Protocol!Contest, Protocol!Heard, Protocol!GiveUp
      <3>2. [Protocol!Unopened EXCEPT !.stage = "opened"].stage = "opened"
        BY DEF Protocol!Unopened
      <3>3. \A stage : [c EXCEPT !.stage = stage].stage = stage
        BY <2>1
      <3> HIDE DEF c
      <3> QED BY <3>1, <3>2, <3>3, AgreedStage
    <2>4. CASE Protocol!Ask(d)
      <3>1. PICK ps : Protocol!Become(d, [c EXCEPT !.stage = "asking",
                                                   !.owed = ps])
        BY <2>4 DEF Protocol!Ask
      <3>2. [c EXCEPT !.stage = "asking", !.owed = ps].stage = "asking"
        BY <2>1
      <3> HIDE DEF c
      <3> QED BY <3>1, <3>2, AgreedStage
    <2>5. CASE Protocol!Answer(d)
      <3>1. PICK p : Protocol!Become(d, [c EXCEPT !.owed = @ \ {p}])
        BY <2>5 DEF Protocol!Answer
      <3>2. c.stage = "asking"
        BY <2>5 DEF Protocol!Answer
      <3>3. [c EXCEPT !.owed = @ \ {p}].stage = c.stage
        BY <2>1
      <3> HIDE DEF c
      <3> QED BY <3>1, <3>2, <3>3, AgreedStage
    <2>6. CASE Protocol!Propose(d)
      <3>1. Protocol!Become(d, [c EXCEPT !.stage = "choosing",
                                         !.backing = Protocol!NoBacking])
        BY <2>6 DEF Protocol!Propose
      <3>2. [c EXCEPT !.stage = "choosing",
                      !.backing = Protocol!NoBacking].stage = "choosing"
        BY <2>1
      <3> HIDE DEF c
      <3> QED BY <3>1, <3>2, AgreedStage
    <2>7. CASE Protocol!Back(d)
      <3>1. PICK p, ks : Protocol!Become(d, [c EXCEPT !.backing[p] = ks])
        BY <2>7 DEF Protocol!Back
      <3>2. c.stage = "choosing"
        BY <2>7 DEF Protocol!Back
      <3>3. [c EXCEPT !.backing[p] = ks].stage = c.stage
        BY <2>1
      <3> HIDE DEF c
      <3> QED BY <3>1, <3>2, <3>3, AgreedStage
    <2>8. CASE Protocol!Agree(d)
      <3>1. PICK k \in Protocol!Agreed(d) :
              Protocol!Become(d, [c EXCEPT !.stage = "confirming",
                                           !.offer = {k}, !.consent = {}])
        BY <2>8 DEF Protocol!Agree
      <3> DEFINE new == [c EXCEPT !.stage = "confirming", !.offer = {k},
                                  !.consent = {}]
      <3>2. k \in Kinds /\ \A p \in Role : k \in c.backing[p]
        BY SameRole DEF Protocol!Agreed
      <3>3. /\ new.stage = "confirming" /\ new.offer = {k}
            /\ new.backing = c.backing
        BY <2>1
      <3> HIDE DEF new, c
      <3>4. AgreedCase(new)
        BY <3>2, <3>3 DEF AgreedCase
      <3>5. Protocol!Become(d, new)
        BY <3>1 DEF new
      <3> QED BY <3>4, <3>5, AgreedBecome
    <2>9. CASE Protocol!Disagree(d)
      <3> DEFINE again == [c EXCEPT !.stage = "mediation", !.round = 2,
                                    !.backing = Protocol!NoBacking]
                 over == [c EXCEPT !.stage = "escalated"]
      <3>1. Protocol!Become(d, again) \/ Protocol!Become(d, over)
        BY <2>9 DEF Protocol!Disagree
      <3>2. again.stage = "mediation" /\ over.stage = "escalated"
        BY <2>1
      <3> HIDE DEF again, over, c
      <3> QED BY <3>1, <3>2, AgreedStage
    <2>10. CASE Protocol!Consent(d)
      <3>1. PICK p \in Role :
              Protocol!Become(d, [c EXCEPT
                !.consent = c.consent \cup {p},
                !.stage = IF c.consent \cup {p} = Role THEN "settled" ELSE @])
        BY <2>10, SameRole DEF Protocol!Consent
      <3> DEFINE new == [c EXCEPT
                !.consent = c.consent \cup {p},
                !.stage = IF c.consent \cup {p} = Role THEN "settled" ELSE @]
      <3>2. c.stage = "confirming"
        BY <2>10 DEF Protocol!Consent
      <3>3. /\ new.offer = c.offer /\ new.backing = c.backing
            /\ new.stage = "settled" => new.consent = Role
        BY <2>1, <3>2
      <3> HIDE DEF new, c
      <3>4. AgreedCase(new)
        BY <2>2, <3>2, <3>3 DEF AgreedCase
      <3>5. Protocol!Become(d, new)
        BY <3>1 DEF new
      <3> QED BY <3>4, <3>5, AgreedBecome
    <2>11. CASE Protocol!Refuse(d)
      <3>1. PICK p : Protocol!Become(d, [c EXCEPT !.stage = "escalated",
                                                  !.consent = @ \ {p}])
        BY <2>11 DEF Protocol!Refuse
      <3>2. [c EXCEPT !.stage = "escalated",
                      !.consent = @ \ {p}].stage = "escalated"
        BY <2>1
      <3> HIDE DEF c
      <3> QED BY <3>1, <3>2, AgreedStage
    <2> HIDE DEF c
    <2> QED
      BY <1>2, <2>3, <2>4, <2>5, <2>6, <2>7, <2>8, <2>9, <2>10, <2>11
         DEF Protocol!Step
  <1> QED BY <1>1, <1>2 DEF Protocol!Next

(* When the users' requests do not overlap, a dispute is confirmed and     *)
(* resolved only with an option that both sides have voted for in the same *)
(* round, and resolved only when both have accepted it: a consequence of   *)
(* the protocol that the handlers, the turns and the moderators implement. *)
THEOREM SettledByAgreement ==
  ASSUME ~Overlap, "turn raises" \notin Faults
  PROVE  Spec => []SettledIsAgreed
  <1>1. Protocol!Init => AgreedCases
    <2>1. Protocol!Unopened.stage = "none"
      BY DEF Protocol!Unopened
    <2> QED BY <2>1 DEF Protocol!Init, AgreedCases, AgreedCase
  <1>2. AgreedCases /\ [Protocol!Next]_Cases => AgreedCases'
    BY AgreedStep
  <1>3. AgreedCases => SettledIsAgreed
    <2> SUFFICES ASSUME AgreedCases, NEW d \in Disputes
                 PROVE  LET r == row[d] IN
                        /\ r.status \in {"waiting_final_acceptance", "resolved"} =>
                             \E k \in Kinds :
                               /\ r.selected = {k}
                               /\ \A p \in Role : k \in r.votes[r.round][p]
                        /\ r.status = "resolved" =>
                             \A p \in Role : r.hook.final[p] = "accepted"
      BY DEF SettledIsAgreed
    <2> DEFINE r == row[d]
    <2>1. AgreedCase(CaseOf(r))
      BY DEF AgreedCases, Cases
    <2> HIDE DEF r
    <2>2. /\ r.status \in {"waiting_final_acceptance", "resolved"} =>
               \E k \in Kinds : /\ r.selected = {k}
                                /\ \A p \in Role : k \in r.votes[r.round][p]
          /\ r.status = "resolved" => Accepting(r.hook) = Role
      BY <2>1, CaseFields, Stages DEF AgreedCase
    <2>3. Accepting(r.hook) = Role => \A p \in Role : r.hook.final[p] = "accepted"
      BY DEF Accepting
    <2> QED BY <2>2, <2>3 DEF r
  <1> QED BY <1>1, <1>2, <1>3, Refinement, PTL
          DEF ImplementsProtocol, Protocol!Spec
=============================================================================
