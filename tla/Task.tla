-------------------------------- MODULE Task --------------------------------
(***************************************************************************)
(* The life of one task of one customer (app/main.py, app/task_compat.py,  *)
(* services/admin_panel/app/crud.py): moderation, offers of performers,    *)
(* acceptance of one of them, execution, archiving and deletion.           *)
(* accept_announcement_offer runs in transaction() under row locks and is  *)
(* one step; the other handlers are reads and UPDATEs that commit one by   *)
(* one, so a handler writes what it concluded from rows read before.       *)
(***************************************************************************)
EXTENDS Naturals, FiniteSets

CONSTANTS
  Offers,      \* ids the rows of task_offers may take
  Performers,  \* users who may send offers
  By,          \* whose offer a row of task_offers is (performer_id)
  Slots,       \* server threads that execute requests
  Actor,       \* who a slot acts for: a performer, "customer" or "admin"
  Overlap,     \* whether the users' requests may overlap; the code lets them
  Photos,      \* what the detector may find on photos the customer adds
  Decisions,   \* what administrators may make of the task
  Faults,      \* the kinds of fault that may happen
  MaxFaults    \* bound on the number of faults

ASSUME OffersAssumption == IsFiniteSet(Offers) /\ Offers # {}
ASSUME ByAssumption == By \in [Offers -> Performers]
ASSUME SlotsAssumption == Actor \in [Slots -> Performers \cup {"customer", "admin"}]
ASSUME RolesAssumption == "admin" \notin Performers
ASSUME OverlapAssumption == Overlap \in BOOLEAN
ASSUME DecisionsAssumption ==
  Decisions \subseteq {"approved", "needs_fix", "rejected", "archived", "deleted"}
ASSUME PhotosAssumption == Photos \subseteq {"clean", "doubtful", "banned"}
ASSUME TaskFaultsAssumption ==
  Faults \subseteq {"request dies"} /\ MaxFaults \in Nat

VARIABLES
  task,        \* the row of tasks
  offer,       \* task_offers
  asn,         \* task_assignments: the one made for each offer
  loc,         \* per slot: the request it executes and what it has read
  reached,     \* history: the stages the performer of an offer reported
  faults       \* faults so far

vars == <<task, offer, asn, loc, reached, faults>>

----------------------------------------------------------------------------
(* Rows.                                                                   *)

Stage == {"accepted", "en_route", "on_site", "in_progress", "handoff",
          "completed", "cancelled"}

Rank(stage) ==                                \* stage_order
  CASE stage = "accepted"    -> 0
    [] stage = "en_route"    -> 1
    [] stage = "on_site"     -> 2
    [] stage = "in_progress" -> 3
    [] stage = "handoff"     -> 4
    [] stage = "completed"   -> 5
    [] stage = "cancelled"   -> 99

OnTheWay == {"en_route", "on_site", "in_progress", "handoff"}

TaskRow ==
  [status     : {"review", "draft", "published", "in_responses", "agreed",
                 "in_progress", "completed", "cancelled", "closed"},
   moderation : {"pending", "published", "needs_fix", "rejected"},
   deleted    : BOOLEAN,
   accepted   : SUBSET Offers,                \* accepted_offer_id, {} is NULL
   responses  : 0..Cardinality(Offers)]       \* responses_count

OfferRow ==
  [status  : {"absent", "sent", "accepted", "rejected"},
   reoffer : BOOLEAN]                         \* can_reoffer

Assignment ==
  [status : {"none", "assigned", "in_progress", "completed", "cancelled"},
   stage  : Stage]

Working == {"assigned", "in_progress"}
Active == {o \in Offers : asn[o].status \in Working}

ActiveIndexAllows_Dropped(o, status) == TRUE  \* mutant: no such index

(* ux_task_assignments_active_task: one active assignment per task.        *)
ActiveIndexAllows(o, status) == status \in Working => Active \subseteq {o}

(* _count_pending_offers                                                   *)
Pending(offers) ==
  Cardinality({o \in Offers : offers[o].status \in {"sent", "accepted"}})

(* task_to_announcement_status: what the users are shown, and what the     *)
(* handlers of this file take for the status of the task.                  *)
Shown ==
  IF task.deleted THEN "deleted"
  ELSE IF task.moderation = "pending" THEN "pending_review"
  ELSE IF task.moderation \in {"needs_fix", "rejected"} THEN task.moderation
  ELSE IF task.status = "closed" THEN "archived"
  ELSE IF task.status \in {"cancelled", "completed"} THEN task.status
  ELSE IF task.status = "in_progress" \/ \E o \in Active : asn[o].stage \in OnTheWay
    THEN "in_progress"
  ELSE IF task.status = "agreed" \/ Active # {} THEN "assigned"
  ELSE IF task.status \in {"published", "in_responses"} THEN "active"
  ELSE "pending_review"

(* announcement_status_to_task_fields, for the statuses handlers pass.     *)
Fields(shown, assigned) ==
  CASE shown = "pending_review" -> [status |-> "review", moderation |-> "pending"]
    [] shown = "needs_fix"      -> [status |-> "draft", moderation |-> "needs_fix"]
    [] shown = "rejected"       -> [status |-> "draft", moderation |-> "rejected"]
    [] shown = "archived"       -> [status |-> "closed", moderation |-> "published"]
    [] shown = "active"         -> [status |-> IF assigned THEN "agreed" ELSE "published",
                                    moderation |-> "published"]

(* _update_task_content: status, moderation status and deleted_at.         *)
Content(fields) ==
  [task EXCEPT !.status = fields.status, !.moderation = fields.moderation,
               !.deleted = FALSE]

----------------------------------------------------------------------------
(* Requests.                                                               *)

Free == "free"
NoOffer == CHOOSE o \in Offers : TRUE

RequestPC == {Free, "insert", "resend", "reject", "count", "sync", "stage",
              "follow", "erase", "fetch", "content", "decide"}

Loc == [pc : RequestPC, offer : Offers, stage : Stage,
        count : 0..Cardinality(Offers),
        verdict : {"pending_review", "needs_fix", "rejected", "archived",
                   "active"},
        assigned : BOOLEAN,
        decision : {"approved", "needs_fix", "rejected", "archived",
                    "deleted"}]

IdleLoc == [pc |-> Free, offer |-> NoOffer, stage |-> "accepted", count |-> 0,
            verdict |-> "active", assigned |-> FALSE,
            decision |-> "approved"]

TypeOK ==
  /\ task \in TaskRow
  /\ offer \in [Offers -> OfferRow]
  /\ asn \in [Offers -> Assignment]
  /\ loc \in [Slots -> Loc]
  /\ reached \in [Offers -> SUBSET Stage]
  /\ faults \in 0..MaxFaults

(* create_announcement: the classifier's verdict on the text, and whether  *)
(* photos are still to be checked.                                         *)
Init ==
  /\ \E verdict \in {"pending_review", "needs_fix", "rejected", "active"} :
       task = [status     |-> Fields(verdict, FALSE).status,
               moderation |-> Fields(verdict, FALSE).moderation,
               deleted |-> FALSE, accepted |-> {}, responses |-> 0]
  /\ offer = [o \in Offers |-> [status |-> "absent", reoffer |-> TRUE]]
  /\ asn = [o \in Offers |-> [status |-> "none", stage |-> "accepted"]]
  /\ loc = [s \in Slots |-> IdleLoc]
  /\ reached = [o \in Offers |-> {}]
  /\ faults = 0

(* With Overlap = FALSE the users' requests on the task come one after the *)
(* other, as nothing in the code makes them: what is checked then is what  *)
(* each handler delivers when no other user interferes.  Administrators    *)
(* are not bound by it.                                                    *)
MayBegin(s) ==
  /\ loc[s].pc = Free
  /\ \/ Overlap
     \/ Actor[s] = "admin"
     \/ \A t \in Slots : Actor[t] = "admin" \/ loc[t].pc = Free

Begin(s, request) ==
  /\ MayBegin(s)
  /\ loc' = [loc EXCEPT ![s] = request]

Goto(s, pc) == loc' = [loc EXCEPT ![s].pc = pc]
Finish(s) == loc' = [loc EXCEPT ![s] = IdleLoc]
Refresh(s) ==                    \* calls _sync_announcement_offers_count
  loc' = [loc EXCEPT ![s] = [IdleLoc EXCEPT !.pc = "count"]]

----------------------------------------------------------------------------
(* Offers.                                                                 *)

ReadOffer(s) ==                               \* create_offer, its checks
  LET mine == {o \in Offers : By[o] = Actor[s] /\ offer[o].status # "absent"} IN
  /\ Actor[s] \in Performers
  /\ Shown = "active"
  /\ Active = {}
  /\ \/ /\ mine = {}
        /\ Begin(s, [IdleLoc EXCEPT !.pc = "insert"])
     \/ \E o \in mine :
          /\ offer[o].status # "accepted"
          /\ offer[o].status = "rejected" => offer[o].reoffer
          /\ Begin(s, [IdleLoc EXCEPT !.pc = "resend", !.offer = o])
  /\ UNCHANGED <<task, offer, asn, reached, faults>>

Sent == [status |-> "sent", reoffer |-> TRUE]
Accepted == [status |-> "accepted", reoffer |-> FALSE]
Rejected == [status |-> "rejected", reoffer |-> FALSE]

InsertOffer(s) ==
  /\ loc[s].pc = "insert"
  /\ \E o \in Offers :
       /\ By[o] = Actor[s]
       /\ offer[o].status = "absent"
       /\ offer' = [offer EXCEPT ![o] = Sent]
  /\ Refresh(s)
  /\ UNCHANGED <<task, asn, reached, faults>>

ResendOffer(s) ==                             \* whatever the row is by now
  /\ loc[s].pc = "resend"
  /\ offer' = [offer EXCEPT ![loc[s].offer] = Sent]
  /\ Refresh(s)
  /\ UNCHANGED <<task, asn, reached, faults>>

ReadReject(s, o) ==                           \* reject_announcement_offer
  /\ Actor[s] = "customer"
  /\ offer[o].status = "sent"
  /\ Begin(s, [IdleLoc EXCEPT !.pc = "reject", !.offer = o])
  /\ UNCHANGED <<task, offer, asn, reached, faults>>

WriteReject_Uncounted(s) ==                   \* mutant: counter not refreshed
  /\ loc[s].pc = "reject"
  /\ offer' = [offer EXCEPT ![loc[s].offer] = Rejected]
  /\ Finish(s)
  /\ UNCHANGED <<task, asn, reached, faults>>

WriteReject(s) ==
  /\ loc[s].pc = "reject"
  /\ offer' = [offer EXCEPT ![loc[s].offer] = Rejected]
  /\ Refresh(s)
  /\ UNCHANGED <<task, asn, reached, faults>>

(* _sync_announcement_offers_count, in two statements or inside accept.    *)
Synced(count) ==
  [task EXCEPT
     !.responses = count,
     !.status = IF task.accepted # {} THEN @
                ELSE IF count > 0 /\ @ = "published" THEN "in_responses"
                ELSE IF count = 0 /\ @ = "in_responses" THEN "published"
                ELSE @]

CountOffers(s) ==
  /\ loc[s].pc = "count"
  /\ loc' = [loc EXCEPT ![s] = [@ EXCEPT !.pc = "sync",
                                         !.count = Pending(offer)]]
  /\ UNCHANGED <<task, offer, asn, reached, faults>>

SyncTask(s) ==
  /\ loc[s].pc = "sync"
  /\ task' = Synced(loc[s].count)
  /\ Finish(s)
  /\ UNCHANGED <<offer, asn, reached, faults>>

Chosen_NoSweep(o) == [offer EXCEPT ![o] = Accepted]  \* mutant: others stay open

(* accept_announcement_offer: o is accepted, the open offers of the others *)
(* are rejected for good.                                                  *)
Chosen(o) ==
  [q \in Offers |-> IF q = o THEN Accepted
                    ELSE IF offer[q].status = "sent" THEN Rejected
                    ELSE offer[q]]

NewAssignment(o) ==          \* _create_or_update_assignment finds none
  /\ Active = {}                      \* otherwise 409 and rollback
  /\ asn[o].status = "none"           \* ux_task_assignments_offer_id
  /\ asn' = [asn EXCEPT ![o] = [status |-> "assigned", stage |-> "accepted"]]
  /\ reached' = [reached EXCEPT ![o] = @ \cup {"accepted"}]
  /\ task' = [Synced(Pending(Chosen(o)))
                EXCEPT !.status = "agreed", !.accepted = {o}]

SameAssignment(o) ==         \* it finds the offer's own: nothing more
  /\ o \in Active
  /\ task' = Synced(Pending(Chosen(o)))
  /\ UNCHANGED <<asn, reached>>

AcceptOffer(s, o) ==
  /\ MayBegin(s) /\ Actor[s] = "customer"
  /\ offer[o].status = "sent"
  /\ offer' = Chosen(o)
  /\ NewAssignment(o) \/ SameAssignment(o)
  /\ UNCHANGED <<loc, faults>>

----------------------------------------------------------------------------
(* Execution (update_announcement_execution_stage).                        *)

AssignmentStatus_Raw(stage) == stage          \* mutant: the stage itself

AssignmentStatus(stage) ==
  IF stage \in OnTheWay THEN "in_progress"
  ELSE IF stage = "accepted" THEN "assigned" ELSE stage

TaskStatus_NoCancel(stage) ==                 \* mutant: falls to the default
  IF stage \in OnTheWay THEN "in_progress"
  ELSE IF stage = "completed" THEN stage ELSE "agreed"

TaskStatus(stage) ==
  IF stage \in OnTheWay THEN "in_progress"
  ELSE IF stage = "accepted" THEN "agreed" ELSE stage

ReadStage_NotInOrder(s, o, stage) ==          \* mutant: stages may be skipped
  /\ Actor[s] = By[o]
  /\ o \in Active
  /\ Rank(stage) >= Rank(asn[o].stage)
  /\ Begin(s, [IdleLoc EXCEPT !.pc = "stage", !.offer = o, !.stage = stage])
  /\ UNCHANGED <<task, offer, asn, reached, faults>>

ReadStage_BackToo(s, o, stage) ==             \* mutant: stages may go back
  /\ Actor[s] = By[o]
  /\ o \in Active
  /\ stage = "cancelled" \/ Rank(stage) <= Rank(asn[o].stage) + 1
  /\ Begin(s, [IdleLoc EXCEPT !.pc = "stage", !.offer = o, !.stage = stage])
  /\ UNCHANGED <<task, offer, asn, reached, faults>>

ReadStage(s, o, stage) ==
  /\ Actor[s] = By[o]
  /\ o \in Active
  /\ \/ stage = "cancelled"
     \/ Rank(stage) \in {Rank(asn[o].stage), Rank(asn[o].stage) + 1}
  /\ Begin(s, [IdleLoc EXCEPT !.pc = "stage", !.offer = o, !.stage = stage])
  /\ UNCHANGED <<task, offer, asn, reached, faults>>

WriteStage(s) ==                     \* on the assignment, by its id
  LET o == loc[s].offer
      stage == loc[s].stage IN
  /\ loc[s].pc = "stage"
  /\ IF ActiveIndexAllows(o, AssignmentStatus(stage))
       THEN /\ asn' = [asn EXCEPT ![o] = [status |-> AssignmentStatus(stage),
                                          stage |-> stage]]
            /\ reached' = [reached EXCEPT ![o] = @ \cup {stage}]
            /\ Goto(s, "follow")
       ELSE /\ Finish(s)
            /\ UNCHANGED <<asn, reached>>
  /\ UNCHANGED <<task, offer, faults>>

WriteTaskStatus(s) ==
  /\ loc[s].pc = "follow"
  /\ task' = [task EXCEPT !.status = TaskStatus(loc[s].stage)]
  /\ Finish(s)
  /\ UNCHANGED <<offer, asn, reached, faults>>

----------------------------------------------------------------------------
(* What the customer and the moderation do to the announcement.            *)

(* One UPDATE of the content that comes out the same whatever was read.    *)
Archive(s) ==                                 \* archive_announcement
  /\ MayBegin(s) /\ Actor[s] = "customer"
  /\ task' = Content(Fields("archived", FALSE))
  /\ UNCHANGED <<offer, asn, loc, reached, faults>>

Appeal(s) ==                                  \* appeal_announcement
  /\ MayBegin(s) /\ Actor[s] = "customer"
  /\ task' = Content(Fields("pending_review", FALSE))
  /\ UNCHANGED <<offer, asn, loc, reached, faults>>

CancelWork(s) ==                              \* delete_announcement, first
  /\ Actor[s] = "customer"
  /\ asn' = [o \in Offers |->
               IF o \in Active
                 THEN [status |-> "cancelled", stage |-> "cancelled"]
                 ELSE asn[o]]
  /\ Begin(s, [IdleLoc EXCEPT !.pc = "erase"])
  /\ UNCHANGED <<task, offer, reached, faults>>

EraseTask(s) ==                               \* delete_announcement, last
  /\ loc[s].pc = "erase"
  /\ task' = [task EXCEPT !.status = "closed", !.moderation = "published",
                         !.deleted = TRUE]
  /\ Finish(s)
  /\ UNCHANGED <<offer, asn, reached, faults>>

Priority(shown) ==                            \* _status_priority
  CASE shown = "active" -> 0
    [] shown = "needs_fix" -> 2
    [] shown = "rejected" -> 3
    [] shown = "archived" -> 4
    [] OTHER -> 1

KeepStricter(shown, candidate) ==             \* _keep_stricter
  IF Priority(shown) >= Priority(candidate) THEN shown ELSE candidate

ReadMedia(s, photos) ==      \* upload_announcement_media, up to the detector
  /\ Actor[s] = "customer"
  /\ Begin(s, [IdleLoc EXCEPT !.pc = "fetch", !.verdict =
       CASE photos = "banned"   -> KeepStricter(Shown, "rejected")
         [] photos = "doubtful" -> KeepStricter(Shown, "needs_fix")
         [] photos = "clean"    -> IF Priority(Shown) <= 1 THEN "active"
                                   ELSE Shown])
  /\ UNCHANGED <<task, offer, asn, reached, faults>>

FetchTask(s) ==              \* _update_task_content, its read
  /\ loc[s].pc = "fetch"
  /\ loc' = [loc EXCEPT ![s] = [@ EXCEPT !.pc = "content",
                                         !.assigned = Active # {}]]
  /\ UNCHANGED <<task, offer, asn, reached, faults>>

WriteContent(s) ==           \* _update_task_content, its UPDATE
  /\ loc[s].pc = "content"
  /\ task' = Content(Fields(loc[s].verdict, loc[s].assigned))
  /\ Finish(s)
  /\ UNCHANGED <<offer, asn, reached, faults>>

(* The admin panel reads the task and decides in one transaction, without  *)
(* locking the row before its UPDATE.                                      *)
ReadDecision(s, decision) ==                  \* apply_announcement_decision
  /\ Actor[s] = "admin"
  /\ Begin(s, [IdleLoc EXCEPT !.pc = "decide", !.decision = decision,
                              !.count = task.responses])
  /\ UNCHANGED <<task, offer, asn, reached, faults>>

WriteDecision(s) ==
  LET decision == loc[s].decision IN
  /\ loc[s].pc = "decide"
  /\ task' =
       CASE decision = "approved" ->
              [task EXCEPT !.status = IF loc[s].count > 0
                                        THEN "in_responses" ELSE "published",
                           !.moderation = "published", !.deleted = FALSE]
         [] decision = "deleted" ->
              [task EXCEPT !.status = "closed", !.moderation = "rejected",
                           !.deleted = TRUE]
         [] OTHER -> Content(Fields(decision, FALSE))
  /\ Finish(s)
  /\ UNCHANGED <<offer, asn, reached, faults>>

----------------------------------------------------------------------------

RequestDies(s) ==            \* a statement raises, the rest never runs
  /\ "request dies" \in Faults
  /\ faults < MaxFaults
  /\ faults' = faults + 1
  /\ loc[s].pc # Free
  /\ Finish(s)
  /\ UNCHANGED <<task, offer, asn, reached>>

Request(s) ==
  \/ ReadOffer(s)
  \/ \E o \in Offers :
       \/ ReadReject(s, o)
       \/ AcceptOffer(s, o)
       \/ \E stage \in Stage : ReadStage(s, o, stage)
  \/ Archive(s)
  \/ Appeal(s)
  \/ CancelWork(s)
  \/ \E photos \in Photos : ReadMedia(s, photos)
  \/ \E decision \in Decisions : ReadDecision(s, decision)

Statement(s) ==
  \/ InsertOffer(s)
  \/ ResendOffer(s)
  \/ WriteReject(s)
  \/ CountOffers(s)
  \/ SyncTask(s)
  \/ WriteStage(s)
  \/ WriteTaskStatus(s)
  \/ EraseTask(s)
  \/ FetchTask(s)
  \/ WriteContent(s)
  \/ WriteDecision(s)

Next == \E s \in Slots : Request(s) \/ Statement(s) \/ RequestDies(s)

Spec == Init /\ [][Next]_vars

----------------------------------------------------------------------------
(* Properties that hold however the requests overlap.                      *)

(* A task has at most one performer at work: a stage written from a stale  *)
(* read may revive a cancelled assignment while the customer has chosen    *)
(* somebody else, and only ux_task_assignments_active_task stands between. *)
OneActiveAssignment == Cardinality(Active) <= 1

(* The stages of an order are reported one by one: no overlap of stage     *)
(* updates, cancellations and deletions lets an assignment show a stage    *)
(* whose predecessors its performer never reported ("sequentially").       *)
StageEarned ==
  \A o \in Offers :
    asn[o].status \in {"assigned", "in_progress", "completed"} =>
      \A stage \in Stage : Rank(stage) <= Rank(asn[o].stage)
                              => stage \in reached[o]

----------------------------------------------------------------------------
(* A property of users' requests that do not overlap.                      *)

AtRest == \A s \in Slots : Actor[s] # "admin" => loc[s].pc = Free

(* Task and work agree.  The offer of the active assignment stays accepted *)
(* and is the task's accepted one, whatever offers are sent, resent,       *)
(* rejected or moderated around it; between requests a task whose status   *)
(* says that somebody was chosen or is at work has an active assignment,   *)
(* through photo checks, decisions of administrators, cancellations and    *)
(* deletions.                                                              *)
TaskAndWorkAgree ==
  /\ \A o \in Active : offer[o].status = "accepted" /\ task.accepted = {o}
  /\ AtRest /\ faults = 0 /\ task.status \in {"agreed", "in_progress"}
       => Active # {}

----------------------------------------------------------------------------
(* What the handlers refuse, and what overlapping requests make of it.     *)

(* "Your offer is already accepted", "an accepted offer cannot be          *)
(* rejected": an accepted offer stays accepted.                            *)
AcceptedStaysAccepted ==
  [][\A o \in Offers :
       offer[o].status = "accepted" => offer'[o].status = "accepted"]_offer
=============================================================================
