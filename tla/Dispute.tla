------------------------------ MODULE Dispute ------------------------------
(***************************************************************************)
(* The dispute procedure of one chat thread (app/disputes.py), statement   *)
(* by statement.  Handlers run in a thread pool, and outside transaction() *)
(* every SQL statement commits by itself (app/db.py), so a handler is a    *)
(* read of the dispute row followed by UPDATEs computed from what it read. *)
(* Requests, model turns and the moderators of the admin panel interleave  *)
(* between those statements.                                               *)
(***************************************************************************)
EXTENDS Naturals, FiniteSets

CONSTANTS
  Disputes,   \* ids the rows of the thread's disputes may take
  Kinds,      \* the options the model offers in a round
  Ballots,    \* per side, the sets of options it may choose in one vote
  Slots,      \* server threads that execute requests
  Actor,      \* who a slot acts for: a side of the dispute, or "admin"
  Overlap,    \* whether the sides' requests may overlap; the code lets them
  Turns,      \* asyncio tasks that can hold a model turn (bounds the tasks)
  Faults,     \* the kinds of fault that may happen
  MaxFaults   \* bound on the number of faults

Role == {"customer", "performer"}
Other(p) == IF p = "customer" THEN "performer" ELSE "customer"

ASSUME DisputesAssumption == Disputes # {}
ASSUME BallotsAssumption == Ballots \in [Role -> SUBSET ((SUBSET Kinds) \ {{}})]
ASSUME ActorAssumption == Actor \in [Slots -> Role \cup {"admin"}]
ASSUME OverlapAssumption == Overlap \in BOOLEAN
ASSUME FaultsAssumption ==
  Faults \subseteq {"request dies", "restart", "turn dies", "turn raises"}
ASSUME MaxFaultsAssumption == MaxFaults \in Nat

VARIABLES
  row,        \* the disputes table
  expired,    \* disputes whose counterparty_deadline_at lies in the past
  loc,        \* per slot: the request it executes and what it keeps of the
              \* row it read
  turn,       \* per task: the model turn it executes
  inflight,   \* _MODEL_INFLIGHT
  faults,     \* faults so far
  past        \* history: what the sides have asked for, which model failed

vars == <<row, expired, loc, turn, inflight, faults, past>>

----------------------------------------------------------------------------
(* Rows.                                                                   *)

Voting == {"waiting_round_1_votes", "waiting_round_2_votes"}

Active ==                                     \* DISPUTE_ACTIVE_STATUSES
  {"open_waiting_counterparty", "model_thinking",
   "waiting_clarification_answers", "waiting_final_acceptance",
   "awaiting_moderator"} \cup Voting

Closed == {"closed_by_acceptance", "resolved"}
Status == Active \cup Closed \cup {"absent"}  \* "absent": no such row

NoFinal == [p \in Role |-> "none"]
NoVotes == [p \in Role |-> {}]

Hook == [state : {"none", "pending", "in_progress", "accepted"},
         final : [Role -> {"none", "accepted", "rejected"}]]
NoHook == [state |-> "none", final |-> NoFinal]
Pending == [state |-> "pending", final |-> NoFinal]

Row == [status    : Status,
        initiator : Role,
        round     : {1, 2},                 \* active_round
        asked     : SUBSET Role,            \* whom clarifying_questions address
        answers   : SUBSET Role,            \* keys of clarification_answers
        ready     : SUBSET {1, 2},          \* rounds that have options
        votes     : [{1, 2} -> [Role -> SUBSET Kinds]],
        selected  : SUBSET Kinds,           \* selected_option_id, {} is NULL
        hook      : Hook]                   \* moderator_hook

NewRow(status, p) ==
  [status |-> status, initiator |-> p, round |-> 1, asked |-> {},
   answers |-> {}, ready |-> {}, votes |-> [r \in {1, 2} |-> NoVotes],
   selected |-> {}, hook |-> NoHook]

IndexAllows_Dropped(d, status) == TRUE          \* mutant: no such index

(* The partial unique index ux_disputes_thread_active: an INSERT or UPDATE *)
(* that would leave the thread with two active disputes raises.            *)
IndexAllows(d, status) ==
  status \in Active => \A e \in Disputes \ {d} : row[e].status \notin Active

(* _required_answer_roles: no questions on record means both sides.        *)
Required(r) == IF r.asked = {} THEN Role ELSE r.asked

BothVoted_OneIsEnough(r) == \E p \in Role : r.votes[r.round][p] # {}  \* mutant
BothVoted(r) == \A p \in Role : r.votes[r.round][p] # {}
Common(r) == {k \in Kinds : \A p \in Role : k \in r.votes[r.round][p]}

----------------------------------------------------------------------------
(* Requests and model turns.                                               *)

Free == "free"                                \* Nobody works in this slot.
NoDispute == CHOOSE d \in Disputes : TRUE
Blank == NewRow("absent", "customer")
IdleLoc == [pc |-> Free, d |-> NoDispute, draft |-> Blank]
IdleTurn == [pc |-> Free, d |-> NoDispute, round |-> 1]

RequestPC == {Free, "insert", "timeout", "accept", "respond", "vote", "advance",
              "final", "answer", "complete", "schedule", "join"}
TurnPC == {Free, "scheduled", "acquired", "calling", "posting", "returning"}

Loc == [pc : RequestPC, d : Disputes, draft : Row]
Turn == [pc : TurnPC, d : Disputes, round : {1, 2}]

Past == [agreed   : SUBSET Role,              \* counterparty/accept
         chose    : [{1, 2} -> [Role -> SUBSET Kinds]],
         accepted : SUBSET Role,              \* final-acceptance, yes
         rejected : SUBSET Role,              \* final-acceptance, no
         failed   : BOOLEAN]                  \* a model turn has failed
Silence == [agreed |-> {}, chose |-> [r \in {1, 2} |-> NoVotes],
            accepted |-> {}, rejected |-> {}, failed |-> FALSE]

TypeOK ==
  /\ row \in [Disputes -> Row]
  /\ expired \in SUBSET Disputes
  /\ loc \in [Slots -> Loc]
  /\ turn \in [Turns -> Turn]
  /\ inflight \in SUBSET Disputes
  /\ faults \in 0..MaxFaults
  /\ past \in [Disputes -> Past]

Init ==
  /\ row = [d \in Disputes |-> NewRow("absent", "customer")]
  /\ expired = {}
  /\ loc = [s \in Slots |-> IdleLoc]
  /\ turn = [w \in Turns |-> IdleTurn]
  /\ inflight = {}
  /\ faults = 0
  /\ past = [d \in Disputes |-> Silence]

(* With Overlap = FALSE the users' requests come one after the other, as   *)
(* nothing in the code makes them; model turns, moderators and faults are  *)
(* as concurrent as ever.                                                  *)
MayBegin(s) ==
  \/ Overlap
  \/ Actor[s] = "admin"
  \/ \A t \in Slots : Actor[t] = "admin" \/ loc[t].pc = Free

(* The read that starts a request: the checks of the handler passed on the *)
(* row as it was, and "draft" holds the columns the handler will write     *)
(* back from what it read.  A request whose checks fail answers 4xx and    *)
(* changes nothing.                                                        *)
Begin(s, d, pc, draft) ==
  /\ loc[s].pc = Free
  /\ MayBegin(s)
  /\ loc' = [loc EXCEPT ![s] = [pc |-> pc, d |-> d, draft |-> draft]]
  /\ UNCHANGED <<row, expired, turn, inflight, faults>>

Goto(s, pc) == loc' = [loc EXCEPT ![s].pc = pc]
Finish(s) == loc' = [loc EXCEPT ![s] = IdleLoc]

(* One statement on the row of dispute d; when the index refuses it, the   *)
(* exception ends the request with a 500 and the row stays as it is.       *)
Write(s, d, new, pc) ==
  IF IndexAllows(d, new.status)
    THEN /\ row' = [row EXCEPT ![d] = new]
         /\ IF pc = Free THEN Finish(s) ELSE Goto(s, pc)
    ELSE /\ UNCHANGED row
         /\ Finish(s)

StartModel(s) ==             \* the endpoint: _schedule_dispute_model_cycle
  /\ loc[s].pc = "schedule"
  /\ \E w \in Turns :
       /\ turn[w].pc = Free
       /\ turn' = [turn EXCEPT ![w] = [pc |-> "scheduled", d |-> loc[s].d,
                                      round |-> 1]]
  /\ Finish(s)
  /\ UNCHANGED <<row, expired, inflight, faults, past>>

----------------------------------------------------------------------------
(* Opening, and the counterparty's answer or silence.                      *)

ReadOpen(s) ==                                \* open_dispute, its checks
  /\ Actor[s] \in Role
  /\ \A d \in Disputes : row[d].status \notin Active
  /\ Begin(s, NoDispute, "insert",
           NewRow("open_waiting_counterparty", Actor[s]))
  /\ UNCHANGED past

InsertDispute(s) ==                           \* open_dispute, the INSERT
  /\ loc[s].pc = "insert"
  /\ \E d \in Disputes :
       /\ row[d].status = "absent"
       /\ Write(s, d, loc[s].draft, Free)
  /\ UNCHANGED <<expired, turn, inflight, faults, past>>

DeadlinePasses(d) ==
  /\ row[d].status = "open_waiting_counterparty"
  /\ expired' = expired \cup {d}
  /\ UNCHANGED <<row, loc, turn, inflight, faults, past>>

ReadOverdue_NoDeadline(s, d) ==               \* mutant: any reader hands over
  /\ Actor[s] \in Role
  /\ row[d].status = "open_waiting_counterparty"
  /\ Begin(s, d, "timeout", Blank)
  /\ UNCHANGED past

ReadOverdue_AnyStatus(s, d) ==                \* mutant: status not looked at
  /\ Actor[s] \in Role
  /\ d \in expired
  /\ Begin(s, d, "timeout", Blank)
  /\ UNCHANGED past

(* _apply_counterparty_timeout_if_needed: there is no timer, the next      *)
(* reader of an overdue dispute decides to hand it over.                   *)
ReadOverdue(s, d) ==
  /\ Actor[s] \in Role
  /\ row[d].status = "open_waiting_counterparty"
  /\ d \in expired
  /\ Begin(s, d, "timeout", Blank)
  /\ UNCHANGED past

WriteTimeout(s) ==                            \* _transition_to_moderator_timeout
  LET d == loc[s].d IN
  /\ loc[s].pc = "timeout"
  /\ Write(s, d, [row[d] EXCEPT !.status = "awaiting_moderator",
                                !.hook = Pending], Free)
  /\ UNCHANGED <<expired, turn, inflight, faults, past>>

CounterpartyMayAnswer(s, d) ==
  /\ row[d].status = "open_waiting_counterparty"
  /\ d \notin expired
  /\ Actor[s] = Other(row[d].initiator)

ReadAccept(s, d) ==                           \* counterparty_accept
  /\ CounterpartyMayAnswer(s, d)
  /\ Begin(s, d, "accept", Blank)
  /\ past' = [past EXCEPT ![d].agreed = @ \cup {Actor[s]}]

WriteAccept(s) ==
  LET d == loc[s].d IN
  /\ loc[s].pc = "accept"
  /\ Write(s, d, [row[d] EXCEPT !.status = "closed_by_acceptance"], Free)
  /\ UNCHANGED <<expired, turn, inflight, faults, past>>

ReadRespond(s, d) ==                          \* counterparty_submit_form
  /\ CounterpartyMayAnswer(s, d)
  /\ Begin(s, d, "respond", Blank)
  /\ UNCHANGED past

WriteRespond(s) ==
  LET d == loc[s].d IN
  /\ loc[s].pc = "respond"
  /\ Write(s, d,
       [row[d] EXCEPT !.status = "model_thinking", !.round = 1, !.asked = {},
                      !.answers = {}, !.votes = [r \in {1, 2} |-> NoVotes]],
       "schedule")
  /\ UNCHANGED <<expired, turn, inflight, faults, past>>

----------------------------------------------------------------------------
(* Clarifying answers, taken from the ordinary chat messages of the sides: *)
(* the first message of each required side is its answer.                  *)

ReadAnswer(s, d) ==          \* capture_clarification_answer_from_chat_message
  /\ row[d].status = "waiting_clarification_answers"
  /\ Actor[s] \in Required(row[d]) \ row[d].answers
  /\ Begin(s, d, "answer",
           [Blank EXCEPT !.asked = row[d].asked,
                         !.answers = row[d].answers \cup {Actor[s]}])
  /\ UNCHANGED past

WriteAnswer_BothSides(s) ==  \* mutant: waits for both, whoever was asked
  LET d == loc[s].d
      draft == loc[s].draft IN
  /\ loc[s].pc = "answer"
  /\ Write(s, d, [row[d] EXCEPT !.answers = draft.answers],
           IF Role \subseteq draft.answers THEN "complete" ELSE Free)
  /\ UNCHANGED <<expired, turn, inflight, faults, past>>

WriteAnswer(s) ==            \* the answers, all of them, in one JSON value
  LET d == loc[s].d
      draft == loc[s].draft IN
  /\ loc[s].pc = "answer"
  /\ Write(s, d, [row[d] EXCEPT !.answers = draft.answers],
           IF Required(draft) \subseteq draft.answers THEN "complete" ELSE Free)
  /\ UNCHANGED <<expired, turn, inflight, faults, past>>

WriteComplete(s) ==          \* every required answer is in: on to the model
  LET d == loc[s].d IN
  /\ loc[s].pc = "complete"
  /\ Write(s, d, [row[d] EXCEPT !.status = "model_thinking"], "schedule")
  /\ UNCHANGED <<expired, turn, inflight, faults, past>>

----------------------------------------------------------------------------
(* Votes on the options of a round.                                        *)

ReadVote_AnyStatus(s, d) ==  \* mutant: votes taken whenever options exist
  LET p == Actor[s]
      r == row[d].round IN
  /\ p \in Role
  /\ r \in row[d].ready
  /\ \E ks \in Ballots[p] :
       /\ Begin(s, d, "vote",
                [Blank EXCEPT !.round = r,
                              !.votes[r] = [row[d].votes[r] EXCEPT ![p] = ks]])
       /\ past' = [past EXCEPT ![d].chose[r][p] = @ \cup ks]

ReadVote(s, d) ==                             \* select_settlement_option
  LET p == Actor[s]
      r == row[d].round IN
  /\ p \in Role
  /\ row[d].status \in Voting
  /\ r \in row[d].ready
  /\ \E ks \in Ballots[p] :
       /\ Begin(s, d, "vote",
                [Blank EXCEPT !.round = r,
                              !.votes[r] = [row[d].votes[r] EXCEPT ![p] = ks]])
       /\ past' = [past EXCEPT ![d].chose[r][p] = @ \cup ks]

WriteVote(s) ==              \* the round's votes, both sides', in one JSON value
  LET d == loc[s].d
      draft == loc[s].draft IN
  /\ loc[s].pc = "vote"
  /\ Write(s, d,
           [row[d] EXCEPT !.votes[draft.round] = draft.votes[draft.round]],
           IF BothVoted(draft) THEN "advance" ELSE Free)
  /\ UNCHANGED <<expired, turn, inflight, faults, past>>

AdvanceToAcceptance(s) ==    \* an option both sides chose
  LET d == loc[s].d IN
  /\ loc[s].pc = "advance"
  /\ \E k \in Common(loc[s].draft) :          \* see _choose_compromise_option_id
       Write(s, d, [row[d] EXCEPT !.status = "waiting_final_acceptance",
                                  !.selected = {k}, !.hook = NoHook], Free)
  /\ UNCHANGED <<expired, turn, inflight, faults, past>>

AdvanceToRound2_Increment(s) ==  \* mutant: active_round + 1
  LET d == loc[s].d IN
  /\ loc[s].pc = "advance"
  /\ Common(loc[s].draft) = {}
  /\ loc[s].draft.round = 1
  /\ Write(s, d, [row[d] EXCEPT !.status = "model_thinking", !.round = @ + 1],
           "schedule")
  /\ UNCHANGED <<expired, turn, inflight, faults, past>>

AdvanceToRound2(s) ==        \* nothing in common in round 1
  LET d == loc[s].d IN
  /\ loc[s].pc = "advance"
  /\ Common(loc[s].draft) = {}
  /\ loc[s].draft.round = 1
  /\ Write(s, d, [row[d] EXCEPT !.status = "model_thinking", !.round = 2],
           "schedule")
  /\ UNCHANGED <<expired, turn, inflight, faults, past>>

AdvanceToModerator(s) ==     \* nothing in common in round 2
  LET d == loc[s].d IN
  /\ loc[s].pc = "advance"
  /\ Common(loc[s].draft) = {}
  /\ loc[s].draft.round = 2
  /\ Write(s, d, [row[d] EXCEPT !.status = "awaiting_moderator",
                                !.hook = Pending], Free)
  /\ UNCHANGED <<expired, turn, inflight, faults, past>>

----------------------------------------------------------------------------
(* Final acceptance of the selected option.                                *)

ReadFinal(s, d, decision) ==                  \* submit_final_acceptance
  LET p == Actor[s]
      final == [row[d].hook.final EXCEPT ![p] = decision]
      next == IF decision = "rejected" THEN "awaiting_moderator"
              ELSE IF \A q \in Role : final[q] = "accepted" THEN "resolved"
              ELSE row[d].status
      state == CASE next = "resolved"           -> "accepted"
                 [] next = "awaiting_moderator" -> "pending"
                 [] OTHER                       -> row[d].hook.state IN
  /\ p \in Role
  /\ row[d].status = "waiting_final_acceptance"
  /\ row[d].selected # {}
  /\ row[d].hook.final[p] # decision          \* a repeated decision is a no-op
  /\ Begin(s, d, "final",
           [Blank EXCEPT !.status = next,
                         !.hook = [state |-> state, final |-> final]])
  /\ past' = IF decision = "accepted"
               THEN [past EXCEPT ![d].accepted = @ \cup {p}]
               ELSE [past EXCEPT ![d].rejected = @ \cup {p}]

WriteFinal(s) ==             \* a lone acceptance leaves the status column alone
  LET d == loc[s].d
      draft == loc[s].draft
      status == IF draft.status = "waiting_final_acceptance"
                  THEN row[d].status ELSE draft.status IN
  /\ loc[s].pc = "final"
  /\ Write(s, d, [row[d] EXCEPT !.status = status, !.hook = draft.hook], Free)
  /\ UNCHANGED <<expired, turn, inflight, faults, past>>

----------------------------------------------------------------------------
(* The model turn (process_dispute_model_turn), run by an asyncio task.    *)

AcquireSlot_Always(w) ==     \* mutant: a busy dispute is taken all the same
  /\ turn[w].pc = "scheduled"
  /\ turn' = [turn EXCEPT ![w].pc = "acquired"]
  /\ inflight' = inflight \cup {turn[w].d}
  /\ UNCHANGED <<row, expired, loc, faults, past>>

AcquireSlot(w) ==
  LET d == turn[w].d IN
  /\ turn[w].pc = "scheduled"
  /\ IF d \in inflight
       THEN /\ turn' = [turn EXCEPT ![w] = IdleTurn]   \* return: turn dropped
            /\ UNCHANGED inflight
       ELSE /\ turn' = [turn EXCEPT ![w].pc = "acquired"]
            /\ inflight' = inflight \cup {d}
  /\ UNCHANGED <<row, expired, loc, faults, past>>

ReadTurn(w) ==
  LET r == row[turn[w].d] IN
  /\ turn[w].pc = "acquired"
  /\ turn' = IF r.status = "model_thinking"
               THEN [turn EXCEPT ![w].pc = "calling", ![w].round = r.round]
               ELSE [turn EXCEPT ![w].pc = "returning"]
  /\ UNCHANGED <<row, expired, loc, inflight, faults, past>>

(* The UPDATE after the model has answered, on whatever the row is by now. *)
WriteTurn(w, new) ==
  /\ turn[w].pc = "calling"
  /\ IndexAllows(turn[w].d, new.status)
  /\ row' = [row EXCEPT ![turn[w].d] = new]
  /\ turn' = [turn EXCEPT ![w].pc = "posting"]
  /\ UNCHANGED <<expired, loc, inflight, faults>>

AskQuestions(w) ==
  LET d == turn[w].d IN
  /\ turn[w].round = 1
  /\ \E ps \in (SUBSET Role) \ {{}} :
       WriteTurn(w, [row[d] EXCEPT !.status = "waiting_clarification_answers",
                                   !.asked = ps, !.answers = {}])
  /\ UNCHANGED past

OfferRound1(w) ==
  LET d == turn[w].d IN
  /\ turn[w].round = 1
  /\ WriteTurn(w, [row[d] EXCEPT !.status = "waiting_round_1_votes",
                                 !.ready = @ \cup {1}, !.votes[1] = NoVotes,
                                 !.asked = {}, !.answers = {}])
  /\ UNCHANGED past

OfferRound2(w) ==
  LET d == turn[w].d IN
  /\ turn[w].round = 2
  /\ WriteTurn(w, [row[d] EXCEPT !.status = "waiting_round_2_votes",
                                 !.ready = @ \cup {2}, !.votes[2] = NoVotes])
  /\ UNCHANGED past

HandOver_Forgotten(w) ==     \* mutant: the exception is only logged
  /\ turn' = [turn EXCEPT ![w].pc = "returning"]
  /\ past' = [past EXCEPT ![turn[w].d].failed = TRUE]
  /\ UNCHANGED <<row, expired, loc, inflight>>

(* except Exception: the dispute is handed over, its hook is left alone.   *)
HandOver(w) ==
  LET d == turn[w].d IN
  /\ row' = [row EXCEPT ![d].status = "awaiting_moderator"]
  /\ turn' = [turn EXCEPT ![w].pc = "returning"]
  /\ past' = [past EXCEPT ![d].failed = TRUE]
  /\ UNCHANGED <<expired, loc, inflight>>

(* The call, the parsing of its answer or the UPDATE raises.  When the     *)
(* index refuses the hand-over as well, the turn only returns.             *)
TurnFails(w) ==
  /\ turn[w].pc = "calling"
  /\ IF IndexAllows(turn[w].d, "awaiting_moderator")
       THEN HandOver(w)
       ELSE /\ turn' = [turn EXCEPT ![w].pc = "returning"]
            /\ UNCHANGED <<row, expired, loc, inflight, past>>
  /\ UNCHANGED faults

ReleaseSlot(w) ==            \* finally
  /\ turn[w].pc \in {"posting", "returning"}
  /\ turn' = [turn EXCEPT ![w] = IdleTurn]
  /\ inflight' = inflight \ {turn[w].d}
  /\ UNCHANGED <<row, expired, loc, faults, past>>

----------------------------------------------------------------------------
(* Moderators (services/admin_panel/app/crud.py), in another process.      *)

ReadJoin(s, d) ==            \* join_dispute, post_dispute_message
  /\ Actor[s] = "admin"
  /\ row[d].status = "awaiting_moderator"
  /\ Begin(s, d, "join", [Blank EXCEPT !.hook = [row[d].hook EXCEPT !.state = "in_progress"]])
  /\ UNCHANGED past

WriteJoin(s) ==              \* _set_moderator_hook
  LET d == loc[s].d IN
  /\ loc[s].pc = "join"
  /\ Write(s, d, [row[d] EXCEPT !.hook = loc[s].draft.hook], Free)
  /\ UNCHANGED <<expired, turn, inflight, faults, past>>

----------------------------------------------------------------------------
(* Faults.                                                                 *)

Fault(kind) ==
  /\ kind \in Faults
  /\ faults < MaxFaults
  /\ faults' = faults + 1

RequestDies(s) ==            \* a statement raises, the rest never runs
  /\ Fault("request dies")
  /\ loc[s].pc # Free
  /\ Finish(s)
  /\ UNCHANGED <<row, expired, turn, inflight, past>>

Restart ==                   \* the backend process is replaced
  /\ Fault("restart")
  /\ loc' = [s \in Slots |-> IF Actor[s] = "admin" THEN loc[s] ELSE IdleLoc]
  /\ turn' = [w \in Turns |-> IdleTurn]
  /\ inflight' = {}
  /\ UNCHANGED <<row, expired, past>>

TurnDies(w) ==               \* the hand-over raises as well: database is away
  /\ Fault("turn dies")
  /\ turn[w].pc \in {"acquired", "calling"}
  /\ turn' = [turn EXCEPT ![w].pc = "returning"]
  /\ UNCHANGED <<row, expired, loc, inflight, past>>

TurnRaises(w) ==             \* its SELECT, or the event after its UPDATE, raises
  /\ Fault("turn raises")
  /\ turn[w].pc \in {"acquired", "posting"}
  /\ IndexAllows(turn[w].d, "awaiting_moderator")
  /\ HandOver(w)

----------------------------------------------------------------------------

Request(s) ==
  \/ ReadOpen(s)
  \/ \E d \in Disputes :
       \/ ReadOverdue(s, d)
       \/ ReadAccept(s, d)
       \/ ReadRespond(s, d)
       \/ ReadAnswer(s, d)
       \/ ReadVote(s, d)
       \/ \E decision \in {"accepted", "rejected"} : ReadFinal(s, d, decision)
       \/ ReadJoin(s, d)

Statement(s) ==
  \/ InsertDispute(s)
  \/ WriteTimeout(s)
  \/ WriteAccept(s)
  \/ WriteRespond(s)
  \/ WriteAnswer(s)
  \/ WriteComplete(s)
  \/ WriteVote(s)
  \/ AdvanceToAcceptance(s)
  \/ AdvanceToRound2(s)
  \/ AdvanceToModerator(s)
  \/ WriteFinal(s)
  \/ StartModel(s)
  \/ WriteJoin(s)

ModelStep(w) ==
  \/ AcquireSlot(w)
  \/ ReadTurn(w)
  \/ AskQuestions(w)
  \/ OfferRound1(w)
  \/ OfferRound2(w)
  \/ TurnFails(w)
  \/ ReleaseSlot(w)

Next ==
  \/ \E s \in Slots : Request(s) \/ Statement(s) \/ RequestDies(s)
  \/ \E w \in Turns : ModelStep(w) \/ TurnDies(w) \/ TurnRaises(w)
  \/ \E d \in Disputes : DeadlinePasses(d)
  \/ Restart

Spec == Init /\ [][Next]_vars

(* A started handler runs to its end, and so does a started model turn:    *)
(* the thread pool and the event loop keep scheduling them.  Nothing makes *)
(* users send requests.                                                    *)
Fairness ==
  /\ \A s \in Slots : WF_vars(Statement(s))
  /\ \A w \in Turns : WF_vars(ModelStep(w))

FairSpec == Spec /\ Fairness
----------------------------------------------------------------------------
(* Properties that hold however the requests overlap.                      *)

Working(w) == turn[w].pc \in {"acquired", "calling", "posting", "returning"}

(* At most one model turn works on a dispute, and it is the one whose      *)
(* dispute is in _MODEL_INFLIGHT (_acquire_model_slot), through restarts,  *)
(* failed turns and turns that find nothing to do.                         *)
TurnExclusive ==
  /\ \A v, w \in Turns : Working(v) /\ Working(w) /\ v # w
                        => turn[v].d # turn[w].d
  /\ \A d \in Disputes :
       d \in inflight <=> \E w \in Turns : Working(w) /\ turn[w].d = d

(* A thread has at most one active dispute: open_dispute looks before it   *)
(* inserts, stale handlers may bring a closed dispute back, and only the   *)
(* index ux_disputes_thread_active stands in between.                      *)
OneActiveDispute ==
  Cardinality({d \in Disputes : row[d].status \in Active}) <= 1

(* No outcome is imposed on a side that did not ask for it, whatever stale *)
(* rows the handlers write: conceding takes the counterparty, a selected   *)
(* option was chosen by both sides in one round, a resolution was accepted *)
(* by both, and round 2 is only reached once both voted in round 1.        *)
NothingImposed ==
  \A d \in Disputes :
    /\ row[d].status = "closed_by_acceptance"
         => Other(row[d].initiator) \in past[d].agreed
    /\ \A k \in row[d].selected :
         \E r \in {1, 2} : \A p \in Role : k \in past[d].chose[r][p]
    /\ row[d].status = "resolved" => past[d].accepted = Role
    /\ row[d].round = 2 => \A p \in Role : past[d].chose[1][p] # {}

(* A moderator is called for a reason: silence past the deadline, a model  *)
(* turn that failed, a refused final option, or votes of both in round 2.  *)
EscalatedForCause ==
  \A d \in Disputes :
    row[d].status = "awaiting_moderator" =>
      \/ d \in expired
      \/ past[d].failed
      \/ past[d].rejected # {}
      \/ \A p \in Role : past[d].chose[2][p] # {}
----------------------------------------------------------------------------
(* Properties of fair behaviours.                                          *)

(* A model turn that has begun to call the model takes the dispute out of  *)
(* model_thinking, by questions, by options or by calling a moderator, and *)
(* whoever has taken the slot of a dispute gives it back.                  *)
TurnEnds ==
  \A d \in Disputes :
    /\ (\E w \in Turns : turn[w].pc = "calling" /\ turn[w].d = d)
         ~> row[d].status # "model_thinking"
    /\ d \in inflight ~> d \notin inflight

----------------------------------------------------------------------------
(* What the users are told, and what overlapping requests make of it.      *)

(* "The dispute is closed": a closed dispute stays as it is.               *)
ClosedIsFinal ==
  [][\A d \in Disputes : row[d].status \in Closed => row'[d] = row[d]]_row

(* "The model continues its analysis": unless something failed, a dispute  *)
(* in model_thinking has a model turn under way, or a request about to     *)
(* start one.                                                              *)
ThinkingIsServed ==
  faults = 0 =>
    \A d \in Disputes :
      row[d].status = "model_thinking" =>
        \/ \E s \in Slots : loc[s].pc = "schedule" /\ loc[s].d = d
        \/ \E w \in Turns :
             /\ turn[w].pc \in {"scheduled", "acquired", "calling"}
             /\ turn[w].d = d
=============================================================================
