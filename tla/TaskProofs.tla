----------------------------- MODULE TaskProofs -----------------------------
(***************************************************************************)
(* Proofs about Task, for any number of offers, performers, slots and      *)
(* faults: type correctness, one performer at work, that the stages of an  *)
(* order are reported one by one, and what the handlers promise of offers, *)
(* counter and stages, however the requests overlap; and that task and     *)
(* work agree when the users' requests do not overlap.                     *)
(***************************************************************************)
EXTENDS TaskRaces, FiniteSetTheorems, TLAPS

----------------------------------------------------------------------------
(* Operators.                                                              *)

LEMMA NoOfferType == NoOffer \in Offers
  BY OffersAssumption DEF NoOffer

LEMMA CountType == Cardinality(Offers) \in Nat /\ 0 \in 0..Cardinality(Offers)
  <1>1. Cardinality(Offers) \in Nat
    BY OffersAssumption, FS_CardinalityType
  <1> QED BY <1>1

(* The number of pending offers never exceeds the number of rows.          *)
LEMMA PendingType ==
  ASSUME NEW offers
  PROVE  Pending(offers) \in 0..Cardinality(Offers)
  <1> DEFINE open == {o \in Offers : offers[o].status \in {"sent", "accepted"}}
  <1>1. IsFiniteSet(open) /\ Cardinality(open) <= Cardinality(Offers)
    BY OffersAssumption, FS_Subset
  <1>2. Cardinality(open) \in Nat
    BY <1>1, FS_CardinalityType
  <1> QED BY <1>1, <1>2, CountType DEF Pending

Announced == {"pending_review", "needs_fix", "rejected", "archived", "active"}

(* The columns of every announcement status a handler passes are legal.    *)
LEMMA FieldsType ==
  ASSUME NEW shown \in Announced, NEW assigned \in BOOLEAN
  PROVE  /\ Fields(shown, assigned).status
              \in {"review", "draft", "closed", "agreed", "published"}
         /\ Fields(shown, assigned).moderation
              \in {"pending", "needs_fix", "rejected", "published"}
  BY DEF Announced, Fields

LEMMA ContentType ==
  ASSUME task \in TaskRow, NEW shown \in Announced, NEW assigned \in BOOLEAN
  PROVE  Content(Fields(shown, assigned)) \in TaskRow
  BY FieldsType DEF Content, TaskRow

LEMMA SyncedType ==
  ASSUME task \in TaskRow, NEW count \in 0..Cardinality(Offers)
  PROVE  Synced(count) \in TaskRow
  BY DEF Synced, TaskRow

LEMMA ChosenType ==
  ASSUME offer \in [Offers -> OfferRow], NEW o \in Offers
  PROVE  Chosen(o) \in [Offers -> OfferRow]
  <1>1. Accepted \in OfferRow /\ Rejected \in OfferRow
    BY DEF Accepted, Rejected, OfferRow
  <1> QED BY <1>1 DEF Chosen

LEMMA IdleType == IdleLoc \in Loc
  BY NoOfferType, CountType DEF IdleLoc, Loc, RequestPC, Free, Stage

(* What a photo check may conclude is one of the statuses Fields knows.    *)
LEMMA StricterType ==
  /\ KeepStricter(Shown, "rejected") \in Announced
  /\ KeepStricter(Shown, "needs_fix") \in Announced
  /\ Priority(Shown) > 1 => Shown \in Announced
  <1> DEFINE shown == Shown
  <1>1. Priority("rejected") = 3 /\ Priority("needs_fix") = 2
    BY DEF Priority
  <1>2. Priority(shown) \in 0..4
    BY DEF Priority
  <1>3. Priority(shown) > 1 => shown \in Announced
    BY DEF Priority, Announced
  <1> HIDE DEF shown
  <1>4. KeepStricter(shown, "rejected") \in Announced
    BY <1>1, <1>2, <1>3 DEF KeepStricter, Announced
  <1>5. KeepStricter(shown, "needs_fix") \in Announced
    BY <1>1, <1>2, <1>3 DEF KeepStricter, Announced
  <1> QED BY <1>3, <1>4, <1>5 DEF shown

LEMMA StageTypes ==
  ASSUME NEW stage \in Stage
  PROVE  /\ AssignmentStatus(stage)
              \in {"assigned", "in_progress", "completed", "cancelled"}
         /\ TaskStatus(stage)
              \in {"agreed", "in_progress", "completed", "cancelled"}
         /\ Rank(stage) \in Nat
  BY DEF Stage, OnTheWay, AssignmentStatus, TaskStatus, Rank

----------------------------------------------------------------------------
(* Type correctness.                                                       *)

LEMMA InitType == Init => TypeOK
  <1> SUFFICES ASSUME Init PROVE TypeOK
    OBVIOUS
  <1>1. task \in TaskRow
    <2>1. PICK verdict \in {"pending_review", "needs_fix", "rejected", "active"} :
            task = [status     |-> Fields(verdict, FALSE).status,
                    moderation |-> Fields(verdict, FALSE).moderation,
                    deleted |-> FALSE, accepted |-> {}, responses |-> 0]
      BY DEF Init
    <2>2. verdict \in Announced
      BY DEF Announced
    <2> QED BY <2>1, <2>2, FieldsType, CountType DEF TaskRow
  <1>2. offer \in [Offers -> OfferRow]
    BY DEF Init, OfferRow
  <1>3. asn \in [Offers -> Assignment]
    BY DEF Init, Assignment, Stage
  <1>4. loc \in [Slots -> Loc]
    BY IdleType DEF Init
  <1>5. faults \in 0..MaxFaults
    <2>1. faults = 0
      BY DEF Init
    <2>2. MaxFaults \in Nat
      BY TaskFaultsAssumption
    <2> QED BY <2>1, <2>2
  <1>6. reached \in [Offers -> SUBSET Stage]
    BY DEF Init
  <1> QED BY <1>1, <1>2, <1>3, <1>4, <1>5, <1>6 DEF Init, TypeOK

LEMMA BeginType ==
  ASSUME TypeOK, NEW s \in Slots, NEW request \in Loc, Begin(s, request)
  PROVE  loc' \in [Slots -> Loc]
  BY DEF TypeOK, Begin

LEMMA GotoType ==
  ASSUME TypeOK, NEW s \in Slots, NEW pc \in RequestPC,
         Finish(s) \/ Goto(s, pc) \/ Refresh(s)
  PROVE  loc' \in [Slots -> Loc]
  <1>1. [IdleLoc EXCEPT !.pc = "count"] \in Loc
    BY IdleType DEF Loc, RequestPC
  <1> QED BY <1>1, IdleType DEF TypeOK, Finish, Goto, Refresh, Loc

(* A request that begins, or the transaction that is all of it.            *)
LEMMA RequestType ==
  ASSUME TypeOK, NEW s \in Slots, Request(s)
  PROVE  TypeOK'
  <1>1. ASSUME ReadOffer(s) PROVE TypeOK'
    <2>1. ASSUME Begin(s, [IdleLoc EXCEPT !.pc = "insert"])
          PROVE  loc' \in [Slots -> Loc]
      <3>1. [IdleLoc EXCEPT !.pc = "insert"] \in Loc
        BY IdleType DEF Loc, RequestPC
      <3> QED BY <2>1, <3>1, BeginType
    <2>2. ASSUME NEW o \in Offers,
                 Begin(s, [IdleLoc EXCEPT !.pc = "resend", !.offer = o])
          PROVE  loc' \in [Slots -> Loc]
      <3>1. [IdleLoc EXCEPT !.pc = "resend", !.offer = o] \in Loc
        BY IdleType DEF Loc, RequestPC
      <3> QED BY <2>2, <3>1, BeginType
    <2>3. loc' \in [Slots -> Loc]
      BY <1>1, <2>1, <2>2 DEF ReadOffer
    <2> QED BY <1>1, <2>3 DEF ReadOffer, TypeOK
  <1>2. ASSUME NEW o \in Offers, ReadReject(s, o) PROVE TypeOK'
    <2>1. [IdleLoc EXCEPT !.pc = "reject", !.offer = o] \in Loc
      BY IdleType DEF Loc, RequestPC
    <2>2. loc' \in [Slots -> Loc]
      BY <1>2, <2>1, BeginType DEF ReadReject
    <2> QED BY <1>2, <2>2 DEF ReadReject, TypeOK
  <1>3. ASSUME NEW o \in Offers, AcceptOffer(s, o) PROVE TypeOK'
    <2> DEFINE synced == Synced(Pending(Chosen(o)))
    <2>1. offer' \in [Offers -> OfferRow]
      BY <1>3, ChosenType DEF AcceptOffer, TypeOK
    <2>2. synced \in TaskRow
      BY PendingType, SyncedType DEF TypeOK
    <2> HIDE DEF synced
    <2>3. CASE NewAssignment(o)
      <3>1. asn' \in [Offers -> Assignment]
        BY <2>3 DEF NewAssignment, TypeOK, Assignment, Stage
      <3>2. reached' \in [Offers -> SUBSET Stage]
        BY <2>3 DEF NewAssignment, TypeOK, Stage
      <3>3. task' \in TaskRow
        BY <2>2, <2>3 DEF NewAssignment, TaskRow, synced
      <3> QED BY <1>3, <2>1, <3>1, <3>2, <3>3 DEF AcceptOffer, TypeOK
    <2>4. CASE SameAssignment(o)
      BY <1>3, <2>1, <2>2, <2>4 DEF AcceptOffer, SameAssignment, TypeOK, synced
    <2> QED BY <1>3, <2>3, <2>4 DEF AcceptOffer
  <1>5. ASSUME NEW o \in Offers, NEW stage \in Stage, ReadStage(s, o, stage)
        PROVE  TypeOK'
    <2>1. [IdleLoc EXCEPT !.pc = "stage", !.offer = o, !.stage = stage] \in Loc
      BY IdleType DEF Loc, RequestPC
    <2>2. loc' \in [Slots -> Loc]
      BY <1>5, <2>1, BeginType DEF ReadStage
    <2> QED BY <1>5, <2>2 DEF ReadStage, TypeOK
  <1>6. ASSUME Archive(s) PROVE TypeOK'
    <2>1. Content(Fields("archived", FALSE)) \in TaskRow
      BY ContentType DEF TypeOK, Announced
    <2> QED BY <1>6, <2>1 DEF Archive, TypeOK
  <1>7. ASSUME Appeal(s) PROVE TypeOK'
    <2>1. Content(Fields("pending_review", FALSE)) \in TaskRow
      BY ContentType DEF TypeOK, Announced
    <2> QED BY <1>7, <2>1 DEF Appeal, TypeOK
  <1>8. ASSUME CancelWork(s) PROVE TypeOK'
    <2>1. asn' \in [Offers -> Assignment]
      BY <1>8 DEF CancelWork, TypeOK, Assignment, Stage
    <2>2. [IdleLoc EXCEPT !.pc = "erase"] \in Loc
      BY IdleType DEF Loc, RequestPC
    <2>3. loc' \in [Slots -> Loc]
      BY <1>8, <2>2, BeginType DEF CancelWork
    <2> QED BY <1>8, <2>1, <2>3 DEF CancelWork, TypeOK
  <1>9. ASSUME NEW photos \in Photos, ReadMedia(s, photos) PROVE TypeOK'
    <2>1. photos \in {"clean", "doubtful", "banned"}
      BY PhotosAssumption
    <2>2. PICK verdict \in Announced :
            Begin(s, [IdleLoc EXCEPT !.pc = "fetch", !.verdict = verdict])
      <3>1. Priority(Shown) \in 0..4
        BY DEF Priority
      <3>2. "active" \in Announced
        BY DEF Announced
      <3>3. CASE photos = "banned"
        BY <1>9, <3>3, StricterType DEF ReadMedia
      <3>4. CASE photos = "doubtful"
        BY <1>9, <3>4, StricterType DEF ReadMedia
      <3>5. CASE photos = "clean"
        <4>1. (IF Priority(Shown) <= 1 THEN "active" ELSE Shown) \in Announced
          BY <3>1, <3>2, StricterType
        <4> QED BY <1>9, <3>5, <4>1 DEF ReadMedia
      <3> QED BY <2>1, <3>3, <3>4, <3>5
    <2>3. [IdleLoc EXCEPT !.pc = "fetch", !.verdict = verdict] \in Loc
      BY IdleType DEF Loc, RequestPC, Announced
    <2>4. loc' \in [Slots -> Loc]
      BY <2>2, <2>3, BeginType
    <2> QED BY <1>9, <2>4 DEF ReadMedia, TypeOK
  <1>10. ASSUME NEW decision \in Decisions, ReadDecision(s, decision)
         PROVE  TypeOK'
    <2>1. [IdleLoc EXCEPT !.pc = "decide", !.decision = decision,
                          !.count = task.responses] \in Loc
      BY IdleType, DecisionsAssumption DEF Loc, RequestPC, TypeOK, TaskRow
    <2>2. loc' \in [Slots -> Loc]
      BY <1>10, <2>1, BeginType DEF ReadDecision
    <2> QED BY <1>10, <2>2 DEF ReadDecision, TypeOK
  <1> QED
    BY <1>1, <1>2, <1>3, <1>5, <1>6, <1>7, <1>8, <1>9, <1>10 DEF Request

(* A statement of a request under way, and a request that dies.            *)
LEMMA StatementType ==
  ASSUME TypeOK, NEW s \in Slots, Statement(s) \/ RequestDies(s)
  PROVE  TypeOK'
  <1> DEFINE o == loc[s].offer
  <1>1. /\ o \in Offers /\ loc[s].stage \in Stage
        /\ loc[s].count \in 0..Cardinality(Offers)
        /\ loc[s].assigned \in BOOLEAN
    BY DEF TypeOK, Loc
  <1>2. Sent \in OfferRow /\ Rejected \in OfferRow
    BY DEF Sent, Rejected, OfferRow
  <1>3. \A pc \in RequestPC :
          Finish(s) \/ Goto(s, pc) \/ Refresh(s) => loc' \in [Slots -> Loc]
    BY GotoType
  <1>4. {"count", "follow", "content", "sync"} \subseteq RequestPC
    BY DEF RequestPC
  <1> HIDE DEF o
  <1>5. CASE InsertOffer(s)
    <2>1. offer' \in [Offers -> OfferRow]
      BY <1>5, <1>2 DEF InsertOffer, TypeOK
    <2>2. loc' \in [Slots -> Loc]
      BY <1>5, <1>3, <1>4 DEF InsertOffer
    <2> QED BY <1>5, <2>1, <2>2 DEF InsertOffer, TypeOK
  <1>6. CASE ResendOffer(s)
    <2>1. offer' \in [Offers -> OfferRow]
      BY <1>6, <1>2 DEF ResendOffer, TypeOK
    <2>2. loc' \in [Slots -> Loc]
      BY <1>6, <1>3, <1>4 DEF ResendOffer
    <2> QED BY <1>6, <2>1, <2>2 DEF ResendOffer, TypeOK
  <1>7. CASE WriteReject(s)
    <2>1. offer' \in [Offers -> OfferRow]
      BY <1>7, <1>2 DEF WriteReject, TypeOK
    <2>2. loc' \in [Slots -> Loc]
      BY <1>7, <1>3, <1>4 DEF WriteReject
    <2> QED BY <1>7, <2>1, <2>2 DEF WriteReject, TypeOK
  <1>8. CASE CountOffers(s)
    <2>1. Pending(offer) \in 0..Cardinality(Offers)
      BY PendingType
    <2>2. [loc[s] EXCEPT !.pc = "sync", !.count = Pending(offer)] \in Loc
      BY <2>1, <1>4 DEF TypeOK, Loc
    <2>3. loc' \in [Slots -> Loc]
      BY <1>8, <2>2 DEF CountOffers, TypeOK
    <2> QED BY <1>8, <2>3 DEF CountOffers, TypeOK
  <1>9. CASE SyncTask(s)
    <2>1. task' \in TaskRow
      BY <1>9, <1>1, SyncedType DEF SyncTask, TypeOK
    <2>2. loc' \in [Slots -> Loc]
      BY <1>9, <1>3, <1>4 DEF SyncTask
    <2> QED BY <1>9, <2>1, <2>2 DEF SyncTask, TypeOK
  <1>10. CASE WriteStage(s)
    <2> DEFINE new == [status |-> AssignmentStatus(loc[s].stage),
                       stage  |-> loc[s].stage]
    <2>1. new \in Assignment
      BY <1>1, StageTypes DEF Assignment
    <2> HIDE DEF new
    <2>2. \/ /\ asn' = [asn EXCEPT ![o] = new]
             /\ reached' = [reached EXCEPT ![o] = @ \cup {loc[s].stage}]
             /\ Goto(s, "follow")
          \/ Finish(s) /\ UNCHANGED <<asn, reached>>
      BY <1>10 DEF WriteStage, o, new
    <2>3. asn' \in [Offers -> Assignment]
      BY <2>1, <2>2 DEF TypeOK
    <2>4. reached' \in [Offers -> SUBSET Stage]
      BY <1>1, <2>2 DEF TypeOK
    <2>5. loc' \in [Slots -> Loc]
      BY <2>2, <1>3, <1>4
    <2> QED BY <1>10, <2>3, <2>4, <2>5 DEF WriteStage, TypeOK
  <1>11. CASE WriteTaskStatus(s)
    <2>1. TaskStatus(loc[s].stage)
            \in {"agreed", "in_progress", "completed", "cancelled"}
      BY <1>1, StageTypes
    <2>2. task' \in TaskRow
      BY <1>11, <2>1 DEF WriteTaskStatus, TypeOK, TaskRow
    <2>3. loc' \in [Slots -> Loc]
      BY <1>11, <1>3, <1>4 DEF WriteTaskStatus
    <2> QED BY <1>11, <2>2, <2>3 DEF WriteTaskStatus, TypeOK
  <1>12. CASE EraseTask(s)
    <2>1. task' \in TaskRow
      BY <1>12 DEF EraseTask, TypeOK, TaskRow
    <2>2. loc' \in [Slots -> Loc]
      BY <1>12, <1>3, <1>4 DEF EraseTask
    <2> QED BY <1>12, <2>1, <2>2 DEF EraseTask, TypeOK
  <1>13. CASE FetchTask(s)
    <2>1. [loc[s] EXCEPT !.pc = "content", !.assigned = Active # {}] \in Loc
      BY <1>4 DEF TypeOK, Loc
    <2>2. loc' \in [Slots -> Loc]
      BY <1>13, <2>1 DEF FetchTask, TypeOK
    <2> QED BY <1>13, <2>2 DEF FetchTask, TypeOK
  <1>14. CASE WriteContent(s)
    <2>1. loc[s].verdict \in Announced
      BY DEF TypeOK, Loc, Announced
    <2>2. task' \in TaskRow
      BY <1>14, <1>1, <2>1, ContentType DEF WriteContent, TypeOK
    <2>3. loc' \in [Slots -> Loc]
      BY <1>14, <1>3, <1>4 DEF WriteContent
    <2> QED BY <1>14, <2>2, <2>3 DEF WriteContent, TypeOK
  <1>15. CASE WriteDecision(s)
    <2>1. loc[s].decision
            \in {"approved", "needs_fix", "rejected", "archived", "deleted"}
      BY DEF TypeOK, Loc
    <2>2. ASSUME loc[s].decision \in {"needs_fix", "rejected", "archived"}
          PROVE  task' \in TaskRow
      <3>1. loc[s].decision \in Announced
        BY <2>2 DEF Announced
      <3>2. Content(Fields(loc[s].decision, FALSE)) \in TaskRow
        BY <3>1, ContentType DEF TypeOK
      <3> QED BY <1>15, <2>2, <3>2 DEF WriteDecision
    <2>3. ASSUME loc[s].decision \in {"approved", "deleted"}
          PROVE  task' \in TaskRow
      BY <1>15, <2>3 DEF WriteDecision, TypeOK, TaskRow
    <2>4. task' \in TaskRow
      BY <2>1, <2>2, <2>3
    <2>5. loc' \in [Slots -> Loc]
      BY <1>15, <1>3, <1>4 DEF WriteDecision
    <2> QED BY <1>15, <2>4, <2>5 DEF WriteDecision, TypeOK
  <1>16. CASE RequestDies(s)
    <2>1. faults' \in 0..MaxFaults
      <3>1. MaxFaults \in Nat
        BY TaskFaultsAssumption
      <3>2. faults \in 0..MaxFaults /\ faults < MaxFaults /\ faults' = faults + 1
        BY <1>16 DEF RequestDies, TypeOK
      <3> QED BY <3>1, <3>2
    <2>2. loc' \in [Slots -> Loc]
      BY <1>16, <1>3, <1>4 DEF RequestDies
    <2> QED BY <1>16, <2>1, <2>2 DEF RequestDies, TypeOK
  <1> QED
    BY <1>5, <1>6, <1>7, <1>8, <1>9, <1>10, <1>11, <1>12, <1>13, <1>14, <1>15,
       <1>16 DEF Statement

LEMMA NextType == TypeOK /\ [Next]_vars => TypeOK'
  <1> SUFFICES ASSUME TypeOK, [Next]_vars PROVE TypeOK'
    OBVIOUS
  <1>1. ASSUME NEW s \in Slots, Request(s) \/ Statement(s) \/ RequestDies(s)
        PROVE  TypeOK'
    BY <1>1, RequestType, StatementType
  <1>2. CASE UNCHANGED vars
    BY <1>2 DEF vars, TypeOK
  <1> QED BY <1>1, <1>2 DEF Next

(* The rows, the requests under way and the history keep their types under *)
(* every interleaving of handlers, decisions and failures.                 *)
THEOREM TaskTyping == Spec => []TypeOK
  BY InitType, NextType, PTL DEF Spec

----------------------------------------------------------------------------
(* One performer at work.                                                  *)

OneAtWork == \A o, q \in Active : o = q

LEMMA OneAtWorkStep == TypeOK /\ OneAtWork /\ [Next]_vars => OneAtWork'
  <1> SUFFICES ASSUME TypeOK, OneAtWork, [Next]_vars PROVE OneAtWork'
    OBVIOUS
  <1>1. ASSUME UNCHANGED asn PROVE OneAtWork'
    BY <1>1 DEF OneAtWork, Active
  <1>2. ASSUME NEW o \in Offers, NewAssignment(o) PROVE OneAtWork'
    <2>1. \A q \in Offers \ {o} : asn'[q] = asn[q]
      BY <1>2 DEF NewAssignment, TypeOK
    <2>2. \A q \in Offers : asn[q].status \notin Working
      BY <1>2 DEF NewAssignment, Active
    <2> QED BY <2>1, <2>2 DEF OneAtWork, Active
  <1>3. ASSUME NEW s \in Slots, WriteStage(s) PROVE OneAtWork'
    <2> DEFINE o == loc[s].offer
               status == AssignmentStatus(loc[s].stage)
               new == [status |-> status, stage |-> loc[s].stage]
    <2>1. o \in Offers
      BY DEF TypeOK, Loc
    <2>2. CASE ActiveIndexAllows(o, status)
      <3>1. asn' = [asn EXCEPT ![o] = new]
        BY <1>3, <2>2 DEF WriteStage
      <3>2. status = new.status
        OBVIOUS
      <3> HIDE DEF o, status, new
      <3>3. asn'[o].status = status /\ \A q \in Offers \ {o} : asn'[q] = asn[q]
        BY <2>1, <3>1, <3>2 DEF TypeOK
      <3>4. CASE status \in Working
        BY <2>2, <3>3, <3>4 DEF ActiveIndexAllows, OneAtWork, Active
      <3>5. CASE status \notin Working
        BY <3>3, <3>5 DEF OneAtWork, Active
      <3> QED BY <3>4, <3>5
    <2>3. CASE ~ActiveIndexAllows(o, status)
      BY <1>3, <2>3, <1>1 DEF WriteStage
    <2> QED BY <2>2, <2>3
  <1>4. ASSUME NEW s \in Slots, CancelWork(s) PROVE OneAtWork'
    <2>1. \A q \in Offers : asn'[q].status \in Working => asn[q].status \in Working
      BY <1>4 DEF CancelWork, Active, Working
    <2> QED BY <2>1 DEF OneAtWork, Active
  <1>5. ASSUME NEW s \in Slots, Request(s) PROVE OneAtWork'
    BY <1>1, <1>2, <1>4, <1>5
       DEF Request, ReadOffer, ReadReject, AcceptOffer, SameAssignment, ReadStage, Archive,
           Appeal, ReadMedia, ReadDecision
  <1>6. ASSUME NEW s \in Slots, Statement(s) PROVE OneAtWork'
    BY <1>1, <1>3, <1>6
       DEF Statement, InsertOffer, ResendOffer, WriteReject, CountOffers,
           SyncTask, WriteTaskStatus, EraseTask, FetchTask, WriteContent,
           WriteDecision
  <1>7. ASSUME NEW s \in Slots, RequestDies(s) PROVE OneAtWork'
    BY <1>1, <1>7 DEF RequestDies
  <1> QED BY <1>1, <1>5, <1>6, <1>7 DEF Next, vars

(* A set whose elements are all equal counts at most one.                  *)
LEMMA OneAtWorkCounts == OneAtWork => OneActiveAssignment
  <1> SUFFICES ASSUME OneAtWork PROVE Cardinality(Active) <= 1
    BY DEF OneActiveAssignment
  <1>1. CASE Active = {}
    BY <1>1, FS_EmptySet
  <1>2. ASSUME NEW o \in Active PROVE Cardinality(Active) <= 1
    <2>1. Active = {o}
      BY <1>2 DEF OneAtWork
    <2> QED BY <2>1, FS_Singleton
  <1> QED BY <1>1, <1>2

(* At most one assignment of the task is active, although stage updates    *)
(* write on assignments they read long ago.                                *)
THEOREM TaskExclusion == Spec => []OneActiveAssignment
  <1>1. Init => OneAtWork
    BY DEF Init, OneAtWork, Active, Working
  <1> QED
    BY <1>1, OneAtWorkStep, OneAtWorkCounts, InitType, NextType, PTL DEF Spec

----------------------------------------------------------------------------
(* Stages are earned one by one.                                           *)

Below(stage) == {earlier \in Stage : Rank(earlier) <= Rank(stage)}

(* Next to the property itself: a request that will write a stage has seen *)
(* the one before it on the assignment, so all earlier ones were reported. *)
EarnedInv ==
  /\ \A o \in Offers :
       asn[o].status \in {"assigned", "in_progress", "completed"} =>
         Below(asn[o].stage) \subseteq reached[o]
  /\ \A s \in Slots :
       loc[s].pc = "stage" /\ loc[s].stage # "cancelled" =>
         Below(loc[s].stage) \ {loc[s].stage} \subseteq reached[loc[s].offer]

(* The stage after the current one adds only itself.                       *)
LEMMA NextStage ==
  ASSUME NEW stage \in Stage, NEW now \in Stage, stage # "cancelled",
         Rank(stage) \in {Rank(now), Rank(now) + 1}
  PROVE  Below(stage) \ {stage} \subseteq Below(now)
  BY DEF Stage, Rank, Below

(* What is reported stays reported.                                        *)
LEMMA ReachedGrows ==
  ASSUME TypeOK, [Next]_vars
  PROVE  \A o \in Offers : reached[o] \subseteq reached'[o]
  <1>1. ASSUME UNCHANGED reached
        PROVE  \A o \in Offers : reached[o] \subseteq reached'[o]
    BY <1>1
  <1>2. ASSUME NEW q \in Offers, NewAssignment(q)
        PROVE  \A o \in Offers : reached[o] \subseteq reached'[o]
    BY <1>2 DEF NewAssignment, TypeOK
  <1>3. ASSUME NEW s \in Slots, WriteStage(s)
        PROVE  \A o \in Offers : reached[o] \subseteq reached'[o]
    BY <1>3 DEF WriteStage, TypeOK
  <1>4. ASSUME NEW s \in Slots, Request(s)
        PROVE  \A o \in Offers : reached[o] \subseteq reached'[o]
    BY <1>1, <1>2, <1>4
       DEF Request, ReadOffer, ReadReject, AcceptOffer, SameAssignment, ReadStage, Archive,
           Appeal, CancelWork, ReadMedia, ReadDecision
  <1>5. ASSUME NEW s \in Slots, Statement(s)
        PROVE  \A o \in Offers : reached[o] \subseteq reached'[o]
    BY <1>1, <1>3, <1>5
       DEF Statement, InsertOffer, ResendOffer, WriteReject, CountOffers,
           SyncTask, WriteTaskStatus, EraseTask, FetchTask, WriteContent,
           WriteDecision
  <1>6. ASSUME NEW s \in Slots, RequestDies(s)
        PROVE  \A o \in Offers : reached[o] \subseteq reached'[o]
    BY <1>1, <1>6 DEF RequestDies
  <1> QED BY <1>1, <1>4, <1>5, <1>6 DEF Next, vars

Shows(o) == asn[o].status \in {"assigned", "in_progress", "completed"}
Owes(s) == loc[s].pc = "stage" /\ loc[s].stage # "cancelled"

(* Only an acceptance and a stage update make an assignment show a stage.  *)
LEMMA EarnedAssignments ==
  ASSUME TypeOK, EarnedInv, [Next]_vars
  PROVE  \A o \in Offers : Shows(o)' => Below(asn'[o].stage) \subseteq reached'[o]
  <1> DEFINE Goal == \A o \in Offers :
                       Shows(o)' => Below(asn'[o].stage) \subseteq reached'[o]
  <1>1. ASSUME \A o \in Offers : Shows(o)' => asn'[o] = asn[o]
        PROVE  Goal
    <2>1. \A o \in Offers : Shows(o)' => Shows(o)
      BY <1>1 DEF Shows
    <2> QED BY <1>1, <2>1, ReachedGrows DEF EarnedInv, Shows
  <1>2. ASSUME NEW q \in Offers, NewAssignment(q) PROVE Goal
    <2>1. asn'[q].stage = "accepted" /\ "accepted" \in reached'[q]
      BY <1>2 DEF NewAssignment, TypeOK
    <2>2. Below("accepted") = {"accepted"}
      BY DEF Below, Stage, Rank
    <2>3. \A o \in Offers \ {q} : asn'[o] = asn[o]
      BY <1>2 DEF NewAssignment, TypeOK
    <2>4. \A o \in Offers \ {q} :
            Shows(o)' => Below(asn'[o].stage) \subseteq reached'[o]
      BY <2>3, ReachedGrows DEF EarnedInv, Shows
    <2> QED BY <2>1, <2>2, <2>4
  <1>3. ASSUME NEW s \in Slots, WriteStage(s) PROVE Goal
    <2>1. PICK q \in Offers, stage \in Stage :
            q = loc[s].offer /\ stage = loc[s].stage
      BY DEF TypeOK, Loc
    <2>2. CASE ~ActiveIndexAllows(q, AssignmentStatus(stage))
      BY <1>1, <1>3, <2>1, <2>2 DEF WriteStage
    <2>3. CASE ActiveIndexAllows(q, AssignmentStatus(stage))
      <3>1. /\ asn' = [asn EXCEPT ![q] = [status |-> AssignmentStatus(stage),
                                          stage  |-> stage]]
            /\ reached' = [reached EXCEPT ![q] = @ \cup {stage}]
            /\ loc[s].pc = "stage"
        BY <1>3, <2>1, <2>3 DEF WriteStage
      <3>2. stage # "cancelled" => Below(stage) \ {stage} \subseteq reached[q]
        BY <2>1, <3>1 DEF EarnedInv
      <3>3. stage = "cancelled" => AssignmentStatus(stage) = "cancelled"
        BY DEF AssignmentStatus, OnTheWay
      <3>4. asn'[q].status = AssignmentStatus(stage) /\ asn'[q].stage = stage
        BY <2>1, <3>1 DEF TypeOK
      <3>5. reached'[q] = reached[q] \cup {stage}
        BY <2>1, <3>1 DEF TypeOK
      <3>6. Shows(q)' => Below(asn'[q].stage) \subseteq reached'[q]
        BY <3>2, <3>3, <3>4, <3>5 DEF Shows
      <3>7. \A o \in Offers \ {q} : asn'[o] = asn[o]
        BY <3>1 DEF TypeOK
      <3>8. \A o \in Offers \ {q} :
              Shows(o)' => Below(asn'[o].stage) \subseteq reached'[o]
        BY <3>7, ReachedGrows DEF EarnedInv, Shows
      <3> QED BY <3>6, <3>8
    <2> QED BY <2>2, <2>3
  <1>4. ASSUME NEW s \in Slots, CancelWork(s) PROVE Goal
    <2>1. \A o \in Offers : Shows(o)' => asn'[o] = asn[o]
      BY <1>4 DEF CancelWork, Shows
    <2> QED BY <1>1, <2>1
  <1>5. ASSUME UNCHANGED asn PROVE Goal
    BY <1>1, <1>5
  <1> HIDE DEF Goal
  <1>6. ASSUME NEW s \in Slots, Request(s) PROVE Goal
    BY <1>2, <1>4, <1>5, <1>6
       DEF Request, ReadOffer, ReadReject, AcceptOffer, SameAssignment, ReadStage, Archive,
           Appeal, ReadMedia, ReadDecision
  <1>7. ASSUME NEW s \in Slots, Statement(s) PROVE Goal
    BY <1>3, <1>5, <1>7
       DEF Statement, InsertOffer, ResendOffer, WriteReject, CountOffers,
           SyncTask, WriteTaskStatus, EraseTask, FetchTask, WriteContent,
           WriteDecision
  <1>8. ASSUME NEW s \in Slots, RequestDies(s) PROVE Goal
    BY <1>5, <1>8 DEF RequestDies
  <1>9. Goal
    BY <1>5, <1>6, <1>7, <1>8 DEF Next, vars
  <1> QED BY <1>9 DEF Goal

(* Only the start of a stage update makes a request owe a stage.           *)
LEMMA EarnedRequests ==
  ASSUME TypeOK, EarnedInv, [Next]_vars
  PROVE  \A t \in Slots :
           Owes(t)' => Below(loc'[t].stage) \ {loc'[t].stage}
                         \subseteq reached'[loc'[t].offer]
  <1> DEFINE Earned(t) == Owes(t)' => Below(loc'[t].stage) \ {loc'[t].stage}
                                        \subseteq reached'[loc'[t].offer]
  <1>1. ASSUME NEW t \in Slots, Owes(t)' => loc'[t] = loc[t] PROVE Earned(t)
    <2>1. Owes(t)' => Owes(t)
      BY <1>1 DEF Owes
    <2>2. loc[t].offer \in Offers
      BY DEF TypeOK, Loc
    <2> QED BY <1>1, <2>1, <2>2, ReachedGrows DEF EarnedInv, Owes
  <1>2. ASSUME NEW s \in Slots, NEW o \in Offers, NEW stage \in Stage,
               ReadStage(s, o, stage)
        PROVE  \A t \in Slots : Earned(t)
    <2>1. loc' = [loc EXCEPT ![s] = [IdleLoc EXCEPT !.pc = "stage", !.offer = o,
                                                    !.stage = stage]]
      BY <1>2 DEF ReadStage, Begin
    <2>2. \A t \in Slots \ {s} : loc'[t] = loc[t]
      BY <2>1 DEF TypeOK
    <2>3. loc'[s].stage = stage /\ loc'[s].offer = o
      BY <2>1 DEF TypeOK, IdleLoc
    <2>4. ASSUME stage # "cancelled"
          PROVE  Below(stage) \ {stage} \subseteq reached'[o]
      <3>1. asn[o].stage \in Stage /\ asn[o].status \in Working
        BY <1>2 DEF TypeOK, Assignment, ReadStage, Active
      <3>2. Rank(stage) \in {Rank(asn[o].stage), Rank(asn[o].stage) + 1}
        BY <1>2, <2>4 DEF ReadStage
      <3>3. Below(stage) \ {stage} \subseteq Below(asn[o].stage)
        BY <2>4, <3>1, <3>2, NextStage
      <3>4. Below(asn[o].stage) \subseteq reached[o]
        BY <3>1 DEF EarnedInv, Working
      <3> QED BY <3>3, <3>4, ReachedGrows
    <2>5. Earned(s)
      BY <2>3, <2>4 DEF Owes
    <2> QED BY <1>1, <2>2, <2>5
  <1>3. ASSUME NEW s \in Slots, \A t \in Slots \ {s} : loc'[t] = loc[t],
               loc'[s].pc # "stage"
        PROVE  \A t \in Slots : Earned(t)
    BY <1>1, <1>3 DEF Owes
  <1>4. ASSUME NEW s \in Slots, NEW pc \in RequestPC \ {"stage"},
               Goto(s, pc) \/ Refresh(s) \/ Finish(s)
        PROVE  \A t \in Slots : Earned(t)
    <2>1. /\ \A t \in Slots \ {s} : loc'[t] = loc[t]
          /\ loc'[s].pc \in {pc, "count", Free}
      BY <1>4 DEF Goto, Refresh, Finish, IdleLoc, TypeOK, Loc
    <2> QED BY <1>3, <2>1 DEF Free
  <1>5. ASSUME NEW s \in Slots, NEW request, request.pc # "stage",
               Begin(s, request)
        PROVE  \A t \in Slots : Earned(t)
    BY <1>3, <1>5 DEF TypeOK, Begin
  <1>6. ASSUME UNCHANGED loc PROVE \A t \in Slots : Earned(t)
    BY <1>1, <1>6
  <1> DEFINE Goal == \A t \in Slots : Earned(t)
  <1> HIDE DEF Goal, Earned
  <1>7. ASSUME NEW s \in Slots, Request(s) PROVE Goal
    <2>1. ASSUME ReadOffer(s) PROVE Goal
      <3>1. [IdleLoc EXCEPT !.pc = "insert"].pc # "stage"
        BY DEF IdleLoc
      <3>2. \A o \in Offers :
              [IdleLoc EXCEPT !.pc = "resend", !.offer = o].pc # "stage"
        BY DEF IdleLoc
      <3> QED BY <2>1, <3>1, <3>2, <1>5 DEF ReadOffer, Goal
    <2>2. ASSUME NEW o \in Offers, ReadReject(s, o) PROVE Goal
      <3>1. [IdleLoc EXCEPT !.pc = "reject", !.offer = o].pc # "stage"
        BY DEF IdleLoc
      <3> QED BY <2>2, <3>1, <1>5 DEF ReadReject, Goal
    <2>3. ASSUME CancelWork(s) PROVE Goal
      <3>1. [IdleLoc EXCEPT !.pc = "erase"].pc # "stage"
        BY DEF IdleLoc
      <3> QED BY <2>3, <3>1, <1>5 DEF CancelWork, Goal
    <2>4. ASSUME NEW photos \in Photos, ReadMedia(s, photos) PROVE Goal
      <3>1. \E verdict : Begin(s, [IdleLoc EXCEPT !.pc = "fetch",
                                                  !.verdict = verdict])
        BY <2>4 DEF ReadMedia
      <3>2. \A verdict :
              [IdleLoc EXCEPT !.pc = "fetch", !.verdict = verdict].pc # "stage"
        BY DEF IdleLoc
      <3> QED BY <3>1, <3>2, <1>5 DEF Goal
    <2>5. ASSUME NEW decision \in Decisions, ReadDecision(s, decision)
          PROVE  Goal
      <3>1. [IdleLoc EXCEPT !.pc = "decide", !.decision = decision,
                            !.count = task.responses].pc # "stage"
        BY DEF IdleLoc
      <3> QED BY <2>5, <3>1, <1>5 DEF ReadDecision, Goal
    <2> QED
      BY <1>2, <1>6, <1>7, <2>1, <2>2, <2>3, <2>4, <2>5
         DEF Request, AcceptOffer, Archive, Appeal, Goal
  <1>8. ASSUME NEW s \in Slots, Statement(s) \/ RequestDies(s) PROVE Goal
    <2>1. {"count", "follow", "sync"} \subseteq RequestPC \ {"stage"}
      BY DEF RequestPC
    <2>2. ASSUME CountOffers(s) \/ FetchTask(s) PROVE Goal
      <3>1. /\ \A t \in Slots \ {s} : loc'[t] = loc[t]
            /\ loc'[s].pc \in {"sync", "content"}
        <4>1. CASE CountOffers(s)
          BY <4>1 DEF CountOffers, TypeOK, Loc
        <4>2. CASE FetchTask(s)
          BY <4>2 DEF FetchTask, TypeOK, Loc
        <4> QED BY <2>2, <4>1, <4>2
      <3> QED BY <3>1, <1>3 DEF Goal
    <2>3. ASSUME Goto(s, "follow") \/ Refresh(s) \/ Finish(s)
          PROVE  Goal
      BY <2>1, <2>3, <1>4 DEF Goal
    <2> QED
      BY <1>8, <2>2, <2>3
         DEF Statement, InsertOffer, ResendOffer, WriteReject, SyncTask,
             WriteStage, WriteTaskStatus, EraseTask, WriteContent,
             WriteDecision, RequestDies
  <1>9. Goal
    BY <1>6, <1>7, <1>8 DEF Next, vars, Goal
  <1> QED BY <1>9 DEF Goal, Earned

LEMMA EarnedInit == Init => EarnedInv
  <1> SUFFICES ASSUME Init PROVE EarnedInv
    OBVIOUS
  <1>1. \A o \in Offers : asn[o].status = "none"
    BY DEF Init
  <1>2. \A s \in Slots : loc[s].pc = Free
    BY DEF Init, IdleLoc
  <1> QED BY <1>1, <1>2 DEF EarnedInv, Free

(* No assignment shows a stage whose predecessors were never reported, for *)
(* any overlap of stage updates, cancellations and acceptances.            *)
THEOREM StagesEarned == Spec => []StageEarned
  <1>1. TypeOK /\ EarnedInv /\ [Next]_vars => EarnedInv'
    BY EarnedAssignments, EarnedRequests DEF EarnedInv, Shows, Owes, Below
  <1>2. EarnedInv => StageEarned
    BY DEF EarnedInv, StageEarned, Below
  <1> QED BY <1>1, <1>2, EarnedInit, InitType, NextType, PTL DEF Spec
----------------------------------------------------------------------------
(* Users' requests one at a time (Overlap = FALSE), administrators at any  *)
(* time.  SerialInv is what the properties of such behaviours rest on.     *)

User(s) == Actor[s] # "admin"

OneByOne ==
  \A s, t \in Slots :
    User(s) /\ User(t) /\ loc[s].pc # Free /\ loc[t].pc # Free => s = t

AdminsDecide ==
  \A s \in Slots : loc[s].pc # Free => (loc[s].pc = "decide" <=> ~User(s))

StagesFit ==
  \A o \in Offers :
    asn[o].status # "none" => asn[o].status = AssignmentStatus(asn[o].stage)

WorkAccepted ==
  /\ \A o \in Active : offer[o].status = "accepted" /\ task.accepted = {o}
  /\ Active # {} => \A o \in Offers : offer[o].status # "sent"

Busy == {"agreed", "in_progress"}

(* What a request has read is still so when it writes.                     *)
Sees(s) ==
  LET o     == loc[s].offer
      stage == loc[s].stage
  IN
  /\ loc[s].pc \in {"insert", "resend"} => Active = {}
  /\ loc[s].pc = "reject" => offer[o].status = "sent"
  /\ loc[s].pc = "stage" =>
       /\ o \in Active
       /\ stage = "cancelled" \/ Rank(stage) \in {Rank(asn[o].stage),
                                                  Rank(asn[o].stage) + 1}
  /\ loc[s].pc = "follow" /\ TaskStatus(stage) \in Busy => Active # {}
  /\ loc[s].pc = "content" /\ loc[s].assigned => Active # {}

WorkShown ==
  /\ faults = 0
  /\ \A s \in Slots : loc[s].pc \notin {"erase", "follow"}
  /\ task.status \in Busy
  => Active # {}

SerialInv ==
  /\ OneByOne /\ AdminsDecide
  /\ StagesFit /\ WorkAccepted
  /\ \A s \in Slots : Sees(s)
  /\ WorkShown

LEMMA SerialInit == Init => SerialInv
  <1> SUFFICES ASSUME Init PROVE SerialInv
    OBVIOUS
  <1>1. \A s \in Slots : loc[s].pc = Free
    BY DEF Init, IdleLoc
  <1>2. Active = {} /\ \A o \in Offers : asn[o].status = "none"
    BY DEF Init, Active, Working
  <1>3. task.status \notin Busy
    <2>1. PICK verdict \in {"pending_review", "needs_fix", "rejected", "active"} :
            task = [status     |-> Fields(verdict, FALSE).status,
                    moderation |-> Fields(verdict, FALSE).moderation,
                    deleted |-> FALSE, accepted |-> {}, responses |-> 0]
      BY DEF Init
    <2>2. Fields(verdict, FALSE).status \notin Busy
      BY DEF Fields, Busy
    <2> QED BY <2>1, <2>2
  <1> QED
    BY <1>1, <1>2, <1>3
       DEF SerialInv, OneByOne, AdminsDecide, StagesFit, WorkAccepted, Sees,
           WorkShown, Free

(* The same seen from the one request that a user has under way.           *)
Alone(s) ==
  /\ User(s)
  /\ \A t \in Slots \ {s} : loc[t].pc \in {Free, "decide"}

ShownAt(s) ==
  faults = 0 /\ loc[s].pc \notin {"erase", "follow"} /\ task.status \in Busy
    => Active # {}

LEMMA UserView ==
  ASSUME ~Overlap, SerialInv, NEW s \in Slots, User(s),
         loc[s].pc # Free \/ MayBegin(s)
  PROVE  Alone(s) /\ ShownAt(s)
  <1>1. Alone(s)
    <2> SUFFICES ASSUME NEW t \in Slots \ {s}, loc[t].pc # Free
                 PROVE  loc[t].pc = "decide"
      BY DEF Alone
    <2>1. ~User(t)
      BY DEF SerialInv, OneByOne, MayBegin, User
    <2> QED BY <2>1 DEF SerialInv, AdminsDecide
  <1>2. ShownAt(s)
    BY <1>1 DEF SerialInv, WorkShown, ShownAt, Alone, Free
  <1> QED BY <1>1, <1>2

(* A step of the one request of a user.                                    *)
LEMMA UserStep ==
  ASSUME SerialInv, NEW s \in Slots, Alone(s),
         \A t \in Slots \ {s} : loc'[t] = loc[t],
         loc'[s].pc # "decide",
         StagesFit', WorkAccepted', Sees(s)', ShownAt(s)'
  PROVE  SerialInv'
  <1>1. \A t \in Slots \ {s} : loc'[t].pc \in {Free, "decide"}
    BY DEF Alone
  <1>2. OneByOne' /\ AdminsDecide'
    BY <1>1 DEF SerialInv, OneByOne, AdminsDecide, Alone, User, Free
  <1>3. \A t \in Slots : Sees(t)'
    BY <1>1 DEF Sees, Free
  <1>4. WorkShown'
    BY <1>1 DEF ShownAt, WorkShown, Free
  <1> QED BY <1>2, <1>3, <1>4 DEF SerialInv

(* Reading and deciding on the task in the panel disturbs nobody's work.   *)
LEMMA AdminStep ==
  ASSUME SerialInv, NEW s \in Slots, ~User(s),
         \A t \in Slots \ {s} : loc'[t] = loc[t],
         loc[s].pc \in {Free, "decide"}, loc'[s].pc \in {Free, "decide"},
         UNCHANGED <<offer, asn, faults>>,
         task'.accepted = task.accepted,
         task'.status \in Busy => task.status \in Busy
  PROVE  SerialInv'
  <1>1. /\ Active' = Active
        /\ \A t \in Slots \ {s} : Sees(t)' = Sees(t)
    BY DEF Active, Sees
  <1>2. OneByOne' /\ AdminsDecide'
    BY DEF SerialInv, OneByOne, AdminsDecide, User, Free
  <1>3. StagesFit' /\ WorkAccepted'
    BY <1>1 DEF SerialInv, StagesFit, WorkAccepted
  <1>4. \A t \in Slots : Sees(t)'
    <2>1. Sees(s)'
      BY DEF Sees, Free
    <2> QED BY <1>1, <2>1 DEF SerialInv
  <1>5. WorkShown'
    BY <1>1 DEF SerialInv, WorkShown, Free
  <1> QED BY <1>2, <1>3, <1>4, <1>5 DEF SerialInv

LEMMA FieldsBusy ==
  ASSUME NEW shown \in Announced, NEW assigned \in BOOLEAN,
         Fields(shown, assigned).status \in Busy
  PROVE  assigned
  BY DEF Announced, Fields, Busy

(* What an UPDATE of the content and one of the counter leave alone.       *)
LEMMA ContentKeeps ==
  ASSUME TypeOK, NEW fields
  PROVE  /\ Content(fields).accepted = task.accepted
         /\ Content(fields).status = fields.status
  BY DEF TypeOK, TaskRow, Content

LEMMA SyncedKeeps ==
  ASSUME TypeOK, NEW count
  PROVE  /\ Synced(count).accepted = task.accepted
         /\ Synced(count).responses = count
         /\ Synced(count).status \in Busy => task.status \in Busy
  BY DEF TypeOK, TaskRow, Synced, Busy

(* A request of a user that begins by reading.                             *)
LEMMA UserBegin ==
  ASSUME TypeOK, ~Overlap, SerialInv, NEW s \in Slots, User(s), NEW request,
         request.pc # "decide", Begin(s, request),
         UNCHANGED <<task, offer, asn, faults>>, Sees(s)'
  PROVE  SerialInv'
  <1>1. Alone(s) /\ ShownAt(s)
    BY UserView DEF Begin
  <1>2. loc[s].pc = Free /\ loc'[s] = request
    BY DEF TypeOK, Begin, MayBegin
  <1>3. \A t \in Slots \ {s} : loc'[t] = loc[t]
    BY DEF TypeOK, Begin
  <1>4. Active' = Active
    BY DEF Active
  <1>5. StagesFit' /\ WorkAccepted'
    BY <1>4 DEF SerialInv, StagesFit, WorkAccepted
  <1>6. ShownAt(s)'
    BY <1>1, <1>2, <1>4 DEF ShownAt, Free
  <1> QED BY <1>1, <1>2, <1>3, <1>5, <1>6, UserStep

LEMMA BeginAt ==
  ASSUME TypeOK, NEW s \in Slots, NEW request, Begin(s, request)
  PROVE  loc'[s] = request
  BY DEF TypeOK, Begin

LEMMA SerialRequest ==
  ASSUME TypeOK, ~Overlap, SerialInv, NEW s \in Slots, Request(s)
  PROVE  SerialInv'
  <1>1. ASSUME Actor[s] \in Performers \cup {"customer"} PROVE User(s)
    BY <1>1, RolesAssumption DEF User
  <1>2. ASSUME ReadOffer(s) PROVE SerialInv'
    <2>1. User(s) /\ Active = {} /\ UNCHANGED <<task, offer, asn, faults>>
      BY <1>1, <1>2 DEF ReadOffer
    <2>2. ASSUME NEW request, Begin(s, request),
                 request.pc \in {"insert", "resend"}
          PROVE  SerialInv'
      <3>1. Sees(s)'
        BY <2>1, <2>2, BeginAt DEF Sees, Active
      <3> QED BY <2>1, <2>2, <3>1, UserBegin
    <2> DEFINE anew == [IdleLoc EXCEPT !.pc = "insert"]
               again(o) == [IdleLoc EXCEPT !.pc = "resend", !.offer = o]
    <2>3. /\ anew.pc = "insert"
          /\ \A o \in Offers : again(o).pc = "resend"
      BY DEF IdleLoc
    <2>4. \/ Begin(s, anew)
          \/ \E o \in Offers : offer[o].status # "accepted" /\ Begin(s, again(o))
      BY <1>2 DEF ReadOffer
    <2> HIDE DEF anew, again
    <2>5. CASE Begin(s, anew)
      BY <2>2, <2>3, <2>5
    <2>6. ASSUME NEW o \in Offers, offer[o].status # "accepted",
                 Begin(s, again(o))
          PROVE  SerialInv'
      BY <2>2, <2>3, <2>6
    <2> QED BY <2>4, <2>5, <2>6
  <1>3. ASSUME NEW o \in Offers, ReadReject(s, o) PROVE SerialInv'
    <2> DEFINE request == [IdleLoc EXCEPT !.pc = "reject", !.offer = o]
    <2>1. /\ User(s) /\ offer[o].status = "sent" /\ Begin(s, request)
          /\ UNCHANGED <<task, offer, asn, faults>>
      BY <1>1, <1>3 DEF ReadReject
    <2>2. request.pc = "reject" /\ request.offer = o
      BY DEF IdleLoc
    <2> HIDE DEF request
    <2>3. Sees(s)'
      BY <2>1, <2>2, BeginAt DEF Sees
    <2> QED BY <2>1, <2>2, <2>3, UserBegin
  <1>4. ASSUME NEW o \in Offers, AcceptOffer(s, o) PROVE SerialInv'
    <2> DEFINE synced == Synced(Pending(Chosen(o)))
    <2>1. ~SameAssignment(o)
      BY <1>4 DEF AcceptOffer, SameAssignment, SerialInv, WorkAccepted
    <2>2. /\ User(s) /\ MayBegin(s) /\ Active = {} /\ offer' = Chosen(o)
          /\ asn' = [asn EXCEPT ![o] = [status |-> "assigned",
                                        stage  |-> "accepted"]]
          /\ task' = [synced EXCEPT !.status = "agreed", !.accepted = {o}]
          /\ UNCHANGED <<loc, faults>>
      BY <1>1, <1>4, <2>1 DEF AcceptOffer, NewAssignment
    <2>3. loc[s].pc = Free /\ Alone(s)
      BY <2>2, UserView DEF MayBegin
    <2>4. synced \in TaskRow
      BY PendingType, SyncedType DEF TypeOK
    <2> HIDE DEF synced
    <2>5. task'.accepted = {o}
      BY <2>2, <2>4 DEF TaskRow
    <2>6. Active' = {o}
      BY <2>2 DEF TypeOK, Active, Working
    <2>7. StagesFit'
      BY <2>2 DEF SerialInv, StagesFit, TypeOK, AssignmentStatus, OnTheWay
    <2>8. /\ offer'[o].status = "accepted"
          /\ \A q \in Offers : offer'[q].status # "sent"
      BY <2>2 DEF Chosen, Accepted, Rejected
    <2>9. WorkAccepted'
      BY <2>5, <2>6, <2>8 DEF WorkAccepted
    <2>10. Sees(s)' /\ ShownAt(s)'
      BY <2>2, <2>3, <2>5, <2>6 DEF Sees, ShownAt, Free
    <2> QED BY <2>2, <2>3, <2>7, <2>9, <2>10, UserStep DEF Free
  <1>6. ASSUME NEW o \in Offers, NEW stage \in Stage, ReadStage(s, o, stage)
        PROVE  SerialInv'
    <2> DEFINE request == [IdleLoc EXCEPT !.pc = "stage", !.offer = o,
                                          !.stage = stage]
    <2>1. /\ User(s) /\ o \in Active /\ Begin(s, request)
          /\ \/ stage = "cancelled"
             \/ Rank(stage) \in {Rank(asn[o].stage), Rank(asn[o].stage) + 1}
          /\ UNCHANGED <<task, offer, asn, faults>>
      BY <1>1, <1>6, ByAssumption DEF ReadStage
    <2>2. request.pc = "stage" /\ request.offer = o /\ request.stage = stage
      BY DEF IdleLoc
    <2> HIDE DEF request
    <2>3. Sees(s)'
      BY <2>1, <2>2, BeginAt DEF Sees, Active
    <2> QED BY <2>1, <2>2, <2>3, UserBegin
  <1>7. ASSUME Archive(s) \/ Appeal(s) PROVE SerialInv'
    <2>1. PICK shown \in Announced :
            /\ User(s) /\ MayBegin(s) /\ task' = Content(Fields(shown, FALSE))
            /\ UNCHANGED <<offer, asn, loc, faults>>
      BY <1>1, <1>7 DEF Archive, Appeal, Announced
    <2>2. /\ loc[s].pc = Free /\ Alone(s)
      BY <2>1, UserView DEF MayBegin
    <2>3. /\ task'.accepted = task.accepted
          /\ task'.status \notin Busy
      BY <2>1, ContentKeeps, FieldsBusy
    <2>4. Active' = Active
      BY <2>1 DEF Active
    <2>5. StagesFit' /\ WorkAccepted'
      BY <2>1, <2>3, <2>4 DEF SerialInv, StagesFit, WorkAccepted
    <2>6. Sees(s)' /\ ShownAt(s)'
      BY <2>1, <2>2, <2>3 DEF Sees, ShownAt, Free
    <2> QED BY <2>1, <2>2, <2>5, <2>6, UserStep DEF Free
  <1>8. ASSUME CancelWork(s) PROVE SerialInv'
    <2> DEFINE request == [IdleLoc EXCEPT !.pc = "erase"]
    <2>1. User(s) /\ Begin(s, request) /\ UNCHANGED <<task, offer, faults>>
      BY <1>1, <1>8 DEF CancelWork
    <2>2. request.pc = "erase"
      BY DEF IdleLoc
    <2> HIDE DEF request
    <2>3. /\ loc'[s] = request /\ loc[s].pc = Free
          /\ \A t \in Slots \ {s} : loc'[t] = loc[t]
      BY <2>1 DEF TypeOK, Begin, MayBegin
    <2>4. Alone(s)
      BY <2>1, UserView DEF Begin
    <2>5. Active' = {}
      BY <1>8 DEF CancelWork, Active, Working
    <2>6. StagesFit'
      BY <1>8 DEF CancelWork, SerialInv, StagesFit, AssignmentStatus, OnTheWay
    <2>7. WorkAccepted'
      BY <2>5 DEF WorkAccepted
    <2>8. Sees(s)' /\ ShownAt(s)'
      BY <2>1, <2>2, <2>3, <2>4 DEF Sees, ShownAt, Free
    <2> QED BY <2>2, <2>3, <2>4, <2>6, <2>7, <2>8, UserStep
  <1>9. ASSUME NEW photos \in Photos, ReadMedia(s, photos) PROVE SerialInv'
    <2>1. User(s) /\ UNCHANGED <<task, offer, asn, faults>>
      BY <1>1, <1>9 DEF ReadMedia
    <2>2. PICK request : Begin(s, request) /\ request.pc = "fetch"
      <3>1. \E verdict : Begin(s, [IdleLoc EXCEPT !.pc = "fetch",
                                                  !.verdict = verdict])
        BY <1>9 DEF ReadMedia
      <3>2. \A verdict : [IdleLoc EXCEPT !.pc = "fetch",
                                         !.verdict = verdict].pc = "fetch"
        BY DEF IdleLoc
      <3> QED BY <3>1, <3>2
    <2>3. Sees(s)'
      BY <2>2, BeginAt DEF Sees
    <2> QED BY <2>1, <2>2, <2>3, UserBegin
  <1>10. ASSUME NEW decision \in Decisions, ReadDecision(s, decision)
         PROVE  SerialInv'
    <2>1. PICK request : Begin(s, request) /\ request.pc = "decide"
      <3>1. [IdleLoc EXCEPT !.pc = "decide", !.decision = decision,
                            !.count = task.responses].pc = "decide"
        BY DEF IdleLoc
      <3> QED BY <1>10, <3>1 DEF ReadDecision
    <2>2. /\ loc'[s] = request /\ loc[s].pc = Free
          /\ \A t \in Slots \ {s} : loc'[t] = loc[t]
      BY <2>1 DEF TypeOK, Begin, MayBegin
    <2>3. ~User(s) /\ UNCHANGED <<task, offer, asn, faults>>
      BY <1>10 DEF ReadDecision, User
    <2> QED BY <2>1, <2>2, <2>3, AdminStep
  <1> QED
    BY <1>2, <1>3, <1>4, <1>6, <1>7, <1>8, <1>9, <1>10 DEF Request

(* A statement of a user's request, the counter and the task apart.        *)
LEMMA UserGoto ==
  ASSUME TypeOK, ~Overlap, SerialInv, NEW s \in Slots, NEW pc,
         loc[s].pc \notin {Free, "decide"}, pc # "decide",
         \/ Goto(s, pc)
         \/ pc = "count" /\ Refresh(s)
         \/ pc = Free /\ Finish(s)
  PROVE  /\ Alone(s) /\ ShownAt(s) /\ Sees(s)
         /\ \A t \in Slots \ {s} : loc'[t] = loc[t]
         /\ loc'[s].pc = pc
         /\ pc \notin {"count", Free} => loc'[s].stage = loc[s].stage
  <1>1. User(s)
    BY DEF SerialInv, AdminsDecide
  <1>2. Alone(s) /\ ShownAt(s)
    BY <1>1, UserView
  <1>3. CASE Goto(s, pc)
    BY <1>2, <1>3 DEF SerialInv, Goto, TypeOK, Loc
  <1>4. CASE pc = Free /\ Finish(s)
    BY <1>2, <1>4 DEF SerialInv, Finish, TypeOK, IdleLoc
  <1>5. CASE pc = "count" /\ Refresh(s)
    BY <1>2, <1>5 DEF SerialInv, Refresh, TypeOK, IdleLoc
  <1> QED BY <1>3, <1>4, <1>5

LEMMA SerialStatement ==
  ASSUME TypeOK, ~Overlap, SerialInv, NEW s \in Slots, Statement(s)
  PROVE  SerialInv'
  <1>1. ASSUME UNCHANGED asn
        PROVE  Active' = Active /\ StagesFit'
    BY <1>1 DEF Active, SerialInv, StagesFit
  <1>2. CASE InsertOffer(s) \/ ResendOffer(s)
    <2>1. /\ loc[s].pc \in {"insert", "resend"} /\ Refresh(s)
          /\ UNCHANGED <<task, asn, faults>>
      BY <1>2 DEF InsertOffer, ResendOffer
    <2>2. /\ Alone(s) /\ ShownAt(s) /\ Sees(s) /\ loc'[s].pc = "count"
          /\ \A t \in Slots \ {s} : loc'[t] = loc[t]
      BY <2>1, UserGoto DEF Free
    <2>3. Active = {} /\ Active' = {} /\ StagesFit'
      BY <1>1, <2>1, <2>2 DEF Sees
    <2>4. WorkAccepted'
      BY <2>3 DEF WorkAccepted
    <2>5. Sees(s)' /\ ShownAt(s)'
      BY <2>1, <2>2, <2>3 DEF Sees, ShownAt
    <2> QED BY <2>2, <2>3, <2>4, <2>5, UserStep
  <1>3. CASE WriteReject(s)
    <2>1. /\ loc[s].pc = "reject" /\ Refresh(s)
          /\ UNCHANGED <<task, asn, faults>>
      BY <1>3 DEF WriteReject
    <2>2. /\ Alone(s) /\ ShownAt(s) /\ Sees(s) /\ loc'[s].pc = "count"
          /\ \A t \in Slots \ {s} : loc'[t] = loc[t]
      BY <2>1, UserGoto DEF Free
    <2>3. loc[s].offer \in Offers /\ offer[loc[s].offer].status = "sent"
      BY <2>1, <2>2 DEF Sees, TypeOK, Loc
    <2>4. Active = {} /\ Active' = {} /\ StagesFit'
      BY <1>1, <2>1, <2>3 DEF SerialInv, WorkAccepted
    <2>5. WorkAccepted'
      BY <2>4 DEF WorkAccepted
    <2>6. Sees(s)' /\ ShownAt(s)'
      BY <2>1, <2>2, <2>4 DEF Sees, ShownAt
    <2> QED BY <2>2, <2>4, <2>5, <2>6, UserStep
  <1>4. CASE CountOffers(s)
    <2>1. User(s) /\ loc[s].pc = "count" /\ UNCHANGED <<task, offer, asn, faults>>
      BY <1>4 DEF CountOffers, SerialInv, AdminsDecide, Free
    <2>2. Alone(s) /\ ShownAt(s)
      BY <2>1, UserView DEF Free
    <2>3. /\ loc'[s].pc = "sync" /\ loc'[s].count = Pending(offer)
          /\ \A t \in Slots \ {s} : loc'[t] = loc[t]
      BY <1>4 DEF CountOffers, TypeOK, Loc
    <2>4. Active' = Active /\ StagesFit' /\ WorkAccepted'
      BY <1>1, <2>1 DEF SerialInv, WorkAccepted
    <2>5. Sees(s)' /\ ShownAt(s)'
      BY <2>1, <2>2, <2>3, <2>4 DEF Sees, ShownAt
    <2> QED BY <2>2, <2>3, <2>4, <2>5, UserStep
  <1>5. CASE SyncTask(s)
    <2>1. /\ loc[s].pc = "sync" /\ Finish(s) /\ task' = Synced(loc[s].count)
          /\ UNCHANGED <<offer, asn, faults>>
      BY <1>5 DEF SyncTask
    <2>2. /\ Alone(s) /\ ShownAt(s) /\ loc'[s].pc = Free
          /\ \A t \in Slots \ {s} : loc'[t] = loc[t]
      BY <2>1, UserGoto DEF Free
    <2>3. /\ task'.accepted = task.accepted
          /\ task'.status \in Busy => task.status \in Busy
      BY <2>1, SyncedKeeps
    <2>4. Active' = Active /\ StagesFit' /\ WorkAccepted'
      BY <1>1, <2>1, <2>3 DEF SerialInv, WorkAccepted
    <2>5. Sees(s)' /\ ShownAt(s)'
      BY <2>1, <2>2, <2>3, <2>4 DEF Sees, ShownAt, Free
    <2> QED BY <2>2, <2>4, <2>5, UserStep DEF Free
  <1>6. CASE WriteStage(s)
    <2>1. PICK o \in Offers, stage \in Stage :
            o = loc[s].offer /\ stage = loc[s].stage
      BY DEF TypeOK, Loc
    <2>2. loc[s].pc = "stage" /\ User(s) /\ UNCHANGED <<task, offer, faults>>
      BY <1>6 DEF WriteStage, SerialInv, AdminsDecide, Free
    <2>3. Alone(s) /\ o \in Active
      BY <2>1, <2>2, UserView DEF Free, SerialInv, Sees
    <2>4. Active = {o}
      BY <2>3 DEF SerialInv, WorkAccepted
    <2>5. /\ asn' = [asn EXCEPT ![o] = [status |-> AssignmentStatus(stage),
                                        stage  |-> stage]]
          /\ Goto(s, "follow")
      BY <1>6, <2>1, <2>4 DEF WriteStage, ActiveIndexAllows
    <2>6. /\ loc'[s].pc = "follow" /\ loc'[s].stage = stage
          /\ \A t \in Slots \ {s} : loc'[t] = loc[t]
      BY <2>1, <2>2, <2>5, UserGoto DEF Free
    <2>7. asn'[o].status = AssignmentStatus(stage) /\ asn'[o].stage = stage
      BY <2>5 DEF TypeOK
    <2>8. \A p \in Offers \ {o} : asn'[p] = asn[p]
      BY <2>5 DEF TypeOK
    <2>9. StagesFit'
      BY <2>7, <2>8 DEF SerialInv, StagesFit
    <2>10. Active' \subseteq Active
      BY <2>4, <2>8 DEF Active
    <2>11. WorkAccepted'
      BY <2>2, <2>10 DEF SerialInv, WorkAccepted
    <2>12. TaskStatus(stage) \in Busy => o \in Active'
      BY <2>7 DEF Active, TaskStatus, AssignmentStatus, Busy, Working,
                  OnTheWay, Stage
    <2>13. Sees(s)' /\ ShownAt(s)'
      BY <2>2, <2>3, <2>6, <2>12 DEF Sees, ShownAt
    <2> QED BY <2>3, <2>6, <2>9, <2>11, <2>13, UserStep
  <1>7. CASE WriteTaskStatus(s)
    <2>1. /\ loc[s].pc = "follow" /\ Finish(s)
          /\ task' = [task EXCEPT !.status = TaskStatus(loc[s].stage)]
          /\ UNCHANGED <<offer, asn, faults>>
      BY <1>7 DEF WriteTaskStatus
    <2>2. /\ Alone(s) /\ Sees(s) /\ loc'[s].pc = Free
          /\ \A t \in Slots \ {s} : loc'[t] = loc[t]
      BY <2>1, UserGoto DEF Free
    <2>3. /\ task'.accepted = task.accepted
          /\ task'.status = TaskStatus(loc[s].stage)
      BY <2>1 DEF TypeOK, TaskRow
    <2>4. Active' = Active /\ StagesFit' /\ WorkAccepted'
      BY <1>1, <2>1, <2>3 DEF SerialInv, WorkAccepted
    <2>5. Sees(s)' /\ ShownAt(s)'
      BY <2>1, <2>2, <2>3, <2>4 DEF Sees, ShownAt, Free
    <2> QED BY <2>2, <2>4, <2>5, UserStep DEF Free
  <1>8. CASE EraseTask(s)
    <2>1. /\ loc[s].pc = "erase" /\ Finish(s)
          /\ task' = [task EXCEPT !.status = "closed",
                                  !.moderation = "published", !.deleted = TRUE]
          /\ UNCHANGED <<offer, asn, faults>>
      BY <1>8 DEF EraseTask
    <2>2. /\ Alone(s) /\ loc'[s].pc = Free
          /\ \A t \in Slots \ {s} : loc'[t] = loc[t]
      BY <2>1, UserGoto DEF Free
    <2>3. /\ task'.accepted = task.accepted
          /\ task'.status \notin Busy
      BY <2>1 DEF TypeOK, TaskRow, Busy
    <2>4. Active' = Active /\ StagesFit' /\ WorkAccepted'
      BY <1>1, <2>1, <2>3 DEF SerialInv, WorkAccepted
    <2>5. Sees(s)' /\ ShownAt(s)'
      BY <2>1, <2>2, <2>3, <2>4 DEF Sees, ShownAt, Free
    <2> QED BY <2>2, <2>4, <2>5, UserStep DEF Free
  <1>9. CASE FetchTask(s)
    <2>1. User(s) /\ loc[s].pc = "fetch" /\ UNCHANGED <<task, offer, asn, faults>>
      BY <1>9 DEF FetchTask, SerialInv, AdminsDecide, Free
    <2>2. Alone(s) /\ ShownAt(s)
      BY <2>1, UserView DEF Free
    <2>3. /\ loc'[s].pc = "content" /\ loc'[s].assigned = (Active # {})
          /\ \A t \in Slots \ {s} : loc'[t] = loc[t]
      BY <1>9 DEF FetchTask, TypeOK, Loc
    <2>4. Active' = Active /\ StagesFit' /\ WorkAccepted'
      BY <1>1, <2>1 DEF SerialInv, WorkAccepted
    <2>5. Sees(s)' /\ ShownAt(s)'
      BY <2>1, <2>2, <2>3, <2>4 DEF Sees, ShownAt
    <2> QED BY <2>2, <2>3, <2>4, <2>5, UserStep
  <1>10. CASE WriteContent(s)
    <2> DEFINE fields == Fields(loc[s].verdict, loc[s].assigned)
    <2>1. /\ loc[s].pc = "content" /\ Finish(s) /\ task' = Content(fields)
          /\ UNCHANGED <<offer, asn, faults>>
      BY <1>10 DEF WriteContent
    <2>2. /\ Alone(s) /\ Sees(s) /\ loc'[s].pc = Free
          /\ \A t \in Slots \ {s} : loc'[t] = loc[t]
      BY <2>1, UserGoto DEF Free
    <2>3. fields.status \in Busy => Active # {}
      BY <2>1, <2>2, FieldsBusy DEF Sees, TypeOK, Loc, Announced
    <2> HIDE DEF fields
    <2>4. /\ task'.accepted = task.accepted
          /\ task'.status = fields.status
      BY <2>1, ContentKeeps
    <2>5. Active' = Active /\ StagesFit' /\ WorkAccepted'
      BY <1>1, <2>1, <2>4 DEF SerialInv, WorkAccepted
    <2>6. Sees(s)' /\ ShownAt(s)'
      BY <2>1, <2>2, <2>3, <2>4, <2>5 DEF Sees, ShownAt, Free
    <2> QED BY <2>2, <2>5, <2>6, UserStep DEF Free
  <1>11. CASE WriteDecision(s)
    <2>1. /\ loc[s].pc = "decide" /\ Finish(s) /\ ~User(s)
          /\ UNCHANGED <<offer, asn, faults>>
      BY <1>11 DEF WriteDecision, SerialInv, AdminsDecide, Free
    <2>2. loc'[s].pc = Free /\ \A t \in Slots \ {s} : loc'[t] = loc[t]
      BY <2>1 DEF Finish, TypeOK, IdleLoc
    <2>3. /\ task'.accepted = task.accepted
          /\ task'.status \notin Busy
      <3> DEFINE decision == loc[s].decision
                 fields == Fields(decision, FALSE)
      <3>1. CASE decision \in {"approved", "deleted"}
        BY <1>11, <3>1 DEF WriteDecision, TypeOK, TaskRow, Busy
      <3>2. CASE decision \in {"needs_fix", "rejected", "archived"}
        <4>1. task' = Content(fields)
          BY <1>11, <3>2 DEF WriteDecision
        <4>2. fields.status \notin Busy
          BY <3>2, FieldsBusy DEF Announced
        <4> HIDE DEF fields
        <4> QED BY <4>1, <4>2, ContentKeeps
      <3> QED BY <3>1, <3>2 DEF TypeOK, Loc
    <2> QED BY <2>1, <2>2, <2>3, AdminStep
  <1> QED
    BY <1>2, <1>3, <1>4, <1>5, <1>6, <1>7, <1>8, <1>9, <1>10, <1>11
       DEF Statement

(* After a request that died halfway nothing is said of the counter and of *)
(* the status of the task any more.                                        *)
LEMMA SerialDeath ==
  ASSUME TypeOK, SerialInv, NEW s \in Slots, RequestDies(s)
  PROVE  SerialInv'
  <1>1. faults' # 0
    <2>1. faults \in 0..MaxFaults /\ faults' = faults + 1
      BY DEF RequestDies, TypeOK
    <2>2. MaxFaults \in Nat
      BY TaskFaultsAssumption
    <2> QED BY <2>1, <2>2
  <1>2. /\ loc'[s].pc = Free /\ UNCHANGED <<task, offer, asn>>
        /\ \A t \in Slots \ {s} : loc'[t] = loc[t]
    BY DEF RequestDies, Finish, TypeOK, IdleLoc
  <1>3. Active' = Active
    BY <1>2 DEF Active
  <1>4. OneByOne' /\ AdminsDecide'
    BY <1>2 DEF SerialInv, OneByOne, AdminsDecide, User
  <1>5. StagesFit' /\ WorkAccepted'
    BY <1>2, <1>3 DEF SerialInv, StagesFit, WorkAccepted
  <1>6. \A t \in Slots : Sees(t)'
    <2>1. Sees(s)'
      BY <1>2 DEF Sees, Free
    <2>2. \A t \in Slots \ {s} : Sees(t)' = Sees(t)
      BY <1>2, <1>3 DEF Sees
    <2> QED BY <2>1, <2>2 DEF SerialInv
  <1> QED BY <1>1, <1>4, <1>5, <1>6 DEF SerialInv, WorkShown

LEMMA SerialNext ==
  ASSUME TypeOK, ~Overlap, SerialInv, [Next]_vars
  PROVE  SerialInv'
  <1>1. ASSUME UNCHANGED vars PROVE SerialInv'
    BY <1>1 DEF vars, SerialInv, OneByOne, AdminsDecide, User, StagesFit,
                WorkAccepted, Active, Sees, WorkShown
  <1> QED BY <1>1, SerialRequest, SerialStatement, SerialDeath DEF Next

LEMMA SerialAlways == ASSUME ~Overlap PROVE Spec => [](TypeOK /\ SerialInv)
  <1>1. TypeOK /\ SerialInv /\ [Next]_vars => (TypeOK /\ SerialInv)'
    BY SerialNext, NextType
  <1>2. Init => TypeOK /\ SerialInv
    BY InitType, SerialInit
  <1> QED BY <1>1, <1>2, PTL DEF Spec

(* Users one at a time: the offer of the work under way is the accepted    *)
(* one, and a task that says somebody was chosen has somebody at work.     *)
THEOREM WorkAndTaskAgree ==
  ASSUME ~Overlap
  PROVE  Spec => []TaskAndWorkAgree
  <1>1. SerialInv => TaskAndWorkAgree
    BY DEF SerialInv, WorkAccepted, WorkShown, TaskAndWorkAgree, AtRest,
           AdminsDecide, User, Free, Busy
  <1> QED BY <1>1, SerialAlways, PTL

----------------------------------------------------------------------------
(* Users' requests that overlap in any way: RaceInv, about the requests    *)
(* that are not overtaken and the rows that no overtaken request wrote.    *)

(* What a request that is not overtaken has read is so when it writes.     *)
Current(s) ==
  LET o     == loc[s].offer
      stage == loc[s].stage
  IN
  /\ loc[s].pc \in {"insert", "resend"} => Active = {}
  /\ loc[s].pc = "reject" => offer[o].status = "sent"
  /\ loc[s].pc = "sync" => loc[s].count = Pending(offer)
  /\ loc[s].pc = "stage" =>
       /\ o \in Active
       /\ stage = "cancelled" \/ Rank(stage) \in {Rank(asn[o].stage),
                                                  Rank(asn[o].stage) + 1}

RaceInv ==
  /\ OneAtWork /\ StagesFit
  /\ \A s \in Slots \ overtaken : Current(s)
  /\ NoOpenOffersOnAssigned
  /\ CountAtRest

Act(a) == Request(a) \/ Statement(a) \/ RequestDies(a)

LEMMA RaceBegins == RaceInit => RaceInv
  <1> SUFFICES ASSUME RaceInit PROVE RaceInv
    OBVIOUS
  <1>1. \A s \in Slots : loc[s].pc = Free
    BY DEF RaceInit, Init, IdleLoc
  <1>2. Active = {} /\ \A o \in Offers : asn[o].status = "none"
    BY DEF RaceInit, Init, Active, Working
  <1>3. task.responses = 0
    BY DEF RaceInit, Init
  <1>4. Pending(offer) = 0
    <2>1. {o \in Offers : offer[o].status \in {"sent", "accepted"}} = {}
      BY DEF RaceInit, Init
    <2> QED BY <2>1, FS_EmptySet DEF Pending
  <1> QED
    BY <1>1, <1>2, <1>3, <1>4
       DEF RaceInv, OneAtWork, StagesFit, Current, NoOpenOffersOnAssigned,
           CountAtRest, Free

(* Only the request that acts moves on.                                    *)
LEMMA OthersWait ==
  ASSUME TypeOK, NEW a \in Slots, Act(a)
  PROVE  \A s \in Slots \ {a} : loc'[s] = loc[s]
  <1>1. ASSUME NEW request, loc' = [loc EXCEPT ![a] = request] \/ UNCHANGED loc
        PROVE  \A s \in Slots \ {a} : loc'[s] = loc[s]
    BY <1>1 DEF TypeOK
  <1> DEFINE Goal == \A s \in Slots \ {a} : loc'[s] = loc[s]
  <1> HIDE DEF Goal
  <1>2. ASSUME NEW request, Begin(a, request) PROVE Goal
    BY <1>1, <1>2 DEF Begin, Goal
  <1>3. ASSUME Request(a) PROVE Goal
    BY <1>1, <1>2, <1>3
       DEF Request, ReadOffer, ReadReject, AcceptOffer, ReadStage,
           Archive, Appeal, CancelWork, ReadMedia, ReadDecision, Goal
  <1>4. ASSUME Statement(a) \/ RequestDies(a) PROVE Goal
    BY <1>1, <1>4
       DEF Statement, InsertOffer, ResendOffer, WriteReject, CountOffers,
           SyncTask, WriteStage, WriteTaskStatus, EraseTask, FetchTask,
           WriteContent, WriteDecision, RequestDies, Goto, Refresh, Finish, Goal
  <1> QED BY <1>3, <1>4 DEF Act, Goal

(* A request that acts has read what is there, or has no read to rely on.  *)
LEMMA ActsCurrent ==
  ASSUME TypeOK, NEW a \in Slots, Act(a)
  PROVE  loc'[a] = loc[a] \/ Current(a)'
  <1> DEFINE Goal == loc'[a] = loc[a] \/ Current(a)'
             Reading == {"insert", "resend", "reject", "sync", "stage"}
  <1>1. ASSUME loc'[a].pc \notin Reading PROVE Goal
    BY <1>1 DEF Current
  <1>2. ASSUME NEW request, Begin(a, request) PROVE loc'[a] = request
    BY <1>2, BeginAt
  <1>3. ASSUME ReadOffer(a) PROVE Goal
    <2>1. Active = {} /\ UNCHANGED asn
      BY <1>3 DEF ReadOffer
    <2>2. Active' = {}
      BY <2>1 DEF Active
    <2>3. ASSUME Begin(a, [IdleLoc EXCEPT !.pc = "insert"])
          PROVE  loc'[a].pc = "insert"
      BY <1>2, <2>3 DEF IdleLoc
    <2>4. ASSUME NEW o \in Offers,
                 Begin(a, [IdleLoc EXCEPT !.pc = "resend", !.offer = o])
          PROVE  loc'[a].pc = "resend"
      BY <1>2, <2>4 DEF IdleLoc
    <2>5. loc'[a].pc \in {"insert", "resend"}
      BY <1>3, <2>3, <2>4 DEF ReadOffer
    <2> QED BY <2>2, <2>5 DEF Current
  <1>4. ASSUME NEW o \in Offers, ReadReject(a, o) PROVE Goal
    <2>1. loc'[a] = [IdleLoc EXCEPT !.pc = "reject", !.offer = o]
      BY <1>2, <1>4 DEF ReadReject
    <2>2. loc'[a].pc = "reject" /\ loc'[a].offer = o
      BY <2>1 DEF IdleLoc
    <2>3. offer'[o].status = "sent"
      BY <1>4 DEF ReadReject
    <2> QED BY <2>2, <2>3 DEF Current
  <1>5. ASSUME NEW o \in Offers, NEW stage \in Stage, ReadStage(a, o, stage)
        PROVE  Goal
    <2>1. loc'[a] = [IdleLoc EXCEPT !.pc = "stage", !.offer = o, !.stage = stage]
      BY <1>2, <1>5 DEF ReadStage
    <2>2. loc'[a].pc = "stage" /\ loc'[a].offer = o /\ loc'[a].stage = stage
      BY <2>1 DEF IdleLoc
    <2>3. /\ o \in Active'
          /\ stage = "cancelled" \/ Rank(stage) \in {Rank(asn'[o].stage),
                                                     Rank(asn'[o].stage) + 1}
      BY <1>5 DEF ReadStage, Active
    <2> QED BY <2>2, <2>3 DEF Current
  <1>6. ASSUME CancelWork(a) PROVE Goal
    <2>1. loc'[a].pc = "erase"
      BY <1>2, <1>6 DEF CancelWork, IdleLoc
    <2> QED BY <1>1, <2>1
  <1>7. ASSUME NEW photos \in Photos, ReadMedia(a, photos) PROVE Goal
    <2>1. \E verdict : loc'[a] = [IdleLoc EXCEPT !.pc = "fetch",
                                                !.verdict = verdict]
      BY <1>2, <1>7 DEF ReadMedia
    <2>2. loc'[a].pc = "fetch"
      BY <2>1 DEF IdleLoc
    <2> QED BY <1>1, <2>2
  <1>8. ASSUME NEW decision \in Decisions, ReadDecision(a, decision) PROVE Goal
    <2>1. loc'[a].pc = "decide"
      BY <1>2, <1>8 DEF ReadDecision, IdleLoc
    <2> QED BY <1>1, <2>1
  <1>9. ASSUME UNCHANGED loc PROVE Goal
    BY <1>9
  <1>10. ASSUME CountOffers(a) PROVE Goal
    <2>1. loc'[a].pc = "sync" /\ loc'[a].count = Pending(offer)
      BY <1>10 DEF CountOffers, TypeOK, Loc
    <2>2. offer' = offer
      BY <1>10 DEF CountOffers
    <2> QED BY <2>1, <2>2 DEF Current
  <1>11. ASSUME FetchTask(a) PROVE Goal
    <2>1. loc'[a].pc = "content"
      BY <1>11 DEF FetchTask, TypeOK, Loc
    <2> QED BY <1>1, <2>1
  <1>12. ASSUME Goto(a, "follow") \/ Refresh(a) \/ Finish(a) PROVE Goal
    <2>1. loc'[a].pc \in {"follow", "count", Free}
      BY <1>12 DEF Goto, Refresh, Finish, TypeOK, Loc, IdleLoc
    <2> QED BY <1>1, <2>1 DEF Free
  <1> HIDE DEF Goal
  <1>13. ASSUME Request(a) PROVE Goal
    BY <1>3, <1>4, <1>5, <1>6, <1>7, <1>8, <1>9, <1>13
       DEF Request, AcceptOffer, Archive, Appeal
  <1>14. ASSUME Statement(a) \/ RequestDies(a) PROVE Goal
    BY <1>10, <1>11, <1>12, <1>14
       DEF Statement, InsertOffer, ResendOffer, WriteReject, SyncTask,
           WriteStage, WriteTaskStatus, EraseTask, WriteContent, WriteDecision,
           RequestDies
  <1> QED BY <1>13, <1>14 DEF Act, Goal

(* A request that waits and whose view has not changed is still current.   *)
LEMMA WaitingCurrent ==
  ASSUME NEW s \in Slots, Current(s), loc'[s] = loc[s], View(s)' = View(s)
  PROVE  Current(s)'
  <1>1. CASE loc[s].pc = "insert"
    BY <1>1 DEF Current, View
  <1>2. CASE loc[s].pc = "resend"
    BY <1>2 DEF Current, View
  <1>3. CASE loc[s].pc = "reject"
    BY <1>3 DEF Current, View
  <1>4. CASE loc[s].pc = "sync"
    BY <1>4 DEF Current, View
  <1>5. CASE loc[s].pc = "stage"
    BY <1>5 DEF Current, View, Active
  <1>6. CASE loc[s].pc \notin {"insert", "resend", "reject", "sync", "stage"}
    BY <1>6 DEF Current
  <1> QED BY <1>1, <1>2, <1>3, <1>4, <1>5, <1>6

LEMMA CurrentStep ==
  ASSUME TypeOK, RaceInv, NEW a \in Slots, Act(a), Record
  PROVE  \A s \in Slots \ overtaken' : Current(s)'
  <1> SUFFICES ASSUME NEW s \in Slots, s \notin overtaken' PROVE Current(s)'
    OBVIOUS
  <1>1. CASE Waits(s)
    <2>1. s \notin overtaken /\ View(s)' = View(s)
      BY <1>1 DEF Record
    <2> QED BY <1>1, <2>1, WaitingCurrent DEF RaceInv, Waits
  <1>2. CASE ~Waits(s)
    <2>1. loc'[s] = loc[s] => loc'[s].pc = Free
      BY <1>2 DEF Waits
    <2>2. loc'[s] = loc[s] => Current(s)'
      BY <2>1 DEF Current, Free
    <2> QED BY <2>2, OthersWait, ActsCurrent
  <1> QED BY <1>1, <1>2

(* Assignments fit their stages however stage updates overlap.             *)
LEMMA StagesFitStep == TypeOK /\ StagesFit /\ [Next]_vars => StagesFit'
  <1> SUFFICES ASSUME TypeOK, StagesFit, [Next]_vars PROVE StagesFit'
    OBVIOUS
  <1>1. ASSUME UNCHANGED asn PROVE StagesFit'
    BY <1>1 DEF StagesFit
  <1>2. ASSUME NEW o \in Offers, NewAssignment(o) PROVE StagesFit'
    BY <1>2 DEF NewAssignment, StagesFit, TypeOK, AssignmentStatus, OnTheWay
  <1>3. ASSUME NEW s \in Slots, CancelWork(s) PROVE StagesFit'
    BY <1>3 DEF CancelWork, StagesFit, AssignmentStatus, OnTheWay
  <1>4. ASSUME NEW s \in Slots, WriteStage(s) PROVE StagesFit'
    BY <1>4 DEF WriteStage, StagesFit, TypeOK
  <1>5. ASSUME NEW s \in Slots, Request(s) PROVE StagesFit'
    BY <1>1, <1>2, <1>3, <1>5
       DEF Request, ReadOffer, ReadReject, AcceptOffer, SameAssignment, ReadStage, Archive,
           Appeal, ReadMedia, ReadDecision
  <1>6. ASSUME NEW s \in Slots, Statement(s) PROVE StagesFit'
    BY <1>1, <1>4, <1>6
       DEF Statement, InsertOffer, ResendOffer, WriteReject, CountOffers,
           SyncTask, WriteTaskStatus, EraseTask, FetchTask, WriteContent,
           WriteDecision
  <1>7. ASSUME NEW s \in Slots, RequestDies(s) PROVE StagesFit'
    BY <1>1, <1>7 DEF RequestDies
  <1> QED BY <1>1, <1>5, <1>6, <1>7 DEF Next, vars

(* An acceptance leaves one performer at work, with the accepted offer,    *)
(* and a counter of the offers it leaves.                                  *)
LEMMA AcceptanceHeals ==
  ASSUME TypeOK, OneAtWork, Acceptance
  PROVE  /\ \A q \in Offers : offer'[q].status # "sent"
         /\ \A o \in Active' : offer'[o].status = "accepted"
         /\ task'.responses = Pending(offer')
  <1>1. PICK s \in Slots, o \in Offers : AcceptOffer(s, o)
    BY DEF Acceptance
  <1>2. offer' = Chosen(o)
    BY <1>1 DEF AcceptOffer
  <1>3. /\ \A q \in Offers : offer'[q].status # "sent"
        /\ offer'[o].status = "accepted"
    BY <1>2 DEF Chosen, Accepted, Rejected
  <1>4. Active' = {o}
    <2>1. CASE NewAssignment(o)
      BY <2>1 DEF NewAssignment, TypeOK, Active, Working
    <2>2. CASE SameAssignment(o)
      BY <2>2 DEF SameAssignment, OneAtWork, Active
    <2> QED BY <1>1, <2>1, <2>2 DEF AcceptOffer
  <1>5. task'.responses = Pending(Chosen(o))
    <2> DEFINE synced == Synced(Pending(Chosen(o)))
    <2>1. synced \in TaskRow /\ synced.responses = Pending(Chosen(o))
      BY PendingType, SyncedType, SyncedKeeps DEF TypeOK
    <2> HIDE DEF synced
    <2>2. \/ task' = [synced EXCEPT !.status = "agreed", !.accepted = {o}]
          \/ task' = synced
      BY <1>1 DEF AcceptOffer, NewAssignment, SameAssignment, synced
    <2> QED BY <2>1, <2>2 DEF TaskRow
  <1> QED BY <1>2, <1>3, <1>4, <1>5

(* Who else writes offers, and that every such request refreshes the count. *)
LEMMA OfferWriters ==
  ASSUME TypeOK, NEW a \in Slots, Act(a), ~Acceptance
  PROVE  \/ UNCHANGED offer
         \/ /\ InsertOffer(a) \/ ResendOffer(a) \/ WriteReject(a)
            /\ loc[a].pc \in {"insert", "resend", "reject"}
            /\ loc'[a].pc = "count"
  <1>1. \A o \in Offers : ~AcceptOffer(a, o)
    BY DEF Acceptance
  <1>2. Refresh(a) => loc'[a].pc = "count"
    BY DEF Refresh, TypeOK, IdleLoc
  <1>3. ASSUME Request(a) PROVE UNCHANGED offer
    BY <1>1, <1>3
       DEF Request, ReadOffer, ReadReject, ReadStage, Archive, Appeal,
           CancelWork, ReadMedia, ReadDecision
  <1>4. InsertOffer(a) \/ ResendOffer(a) \/ WriteReject(a) =>
          loc[a].pc \in {"insert", "resend", "reject"} /\ Refresh(a)
    BY DEF InsertOffer, ResendOffer, WriteReject
  <1>5. ASSUME Statement(a) \/ RequestDies(a)
        PROVE  \/ UNCHANGED offer
               \/ InsertOffer(a) \/ ResendOffer(a) \/ WriteReject(a)
    BY <1>5
       DEF Statement, CountOffers, SyncTask, WriteStage, WriteTaskStatus,
           EraseTask, FetchTask, WriteContent, WriteDecision, RequestDies
  <1> QED BY <1>2, <1>3, <1>4, <1>5 DEF Act

(* What a request that is not overtaken writes keeps the order of a task   *)
(* in work; what an overtaken one writes is a stray.                       *)
LEMMA OpenOffersStep ==
  ASSUME TypeOK, RaceInv, NEW a \in Slots, Act(a), Record
  PROVE  NoOpenOffersOnAssigned'
  <1>1. CASE Acceptance
    BY <1>1, AcceptanceHeals DEF RaceInv, NoOpenOffersOnAssigned
  <1>2. CASE ~Acceptance
    <2> SUFFICES ASSUME NEW o \in Active', o \notin revived'
                 PROVE  /\ offer'[o].status = "accepted" \/ o \in strayOffers'
                        /\ \A q \in Offers :
                             offer'[q].status = "sent" => q \in strayOffers'
      BY DEF NoOpenOffersOnAssigned
    <2>1. o \in Active \ revived /\ o \in Offers
      BY <1>2 DEF Record, Active
    <2>2. /\ offer[o].status = "accepted" \/ o \in strayOffers
          /\ \A q \in Offers : offer[q].status = "sent" => q \in strayOffers
      BY <2>1 DEF RaceInv, NoOpenOffersOnAssigned
    <2>3. strayOffers' = IF LateStep
                           THEN strayOffers \cup {q \in Offers : offer'[q] # offer[q]}
                           ELSE strayOffers
      BY <1>2 DEF Record
    <2>4. CASE UNCHANGED offer
      BY <2>2, <2>3, <2>4
    <2>5. CASE LateStep
      BY <2>1, <2>2, <2>3, <2>5
    <2>6. CASE ~LateStep /\ ~UNCHANGED offer
      <3>1. /\ InsertOffer(a) \/ ResendOffer(a) \/ WriteReject(a)
            /\ loc[a].pc \in {"insert", "resend", "reject"}
            /\ loc'[a].pc = "count"
        BY <1>2, <2>6, OfferWriters
      <3>2. a \notin overtaken
        BY <2>6, <3>1 DEF LateStep, Waits
      <3>3. Current(a)
        BY <3>2 DEF RaceInv
      <3>4. WriteReject(a)
        BY <2>1, <3>1, <3>3 DEF Current, InsertOffer, ResendOffer
      <3>5. /\ loc[a].offer \in Offers /\ offer[loc[a].offer].status = "sent"
            /\ offer' = [offer EXCEPT ![loc[a].offer] = Rejected]
        BY <3>3, <3>4 DEF WriteReject, Current, TypeOK, Loc
      <3>6. \A q \in Offers : \/ offer'[q] = offer[q]
                              \/ /\ offer[q].status = "sent"
                                 /\ offer'[q].status = "rejected"
        BY <3>5 DEF TypeOK, Rejected
      <3> QED BY <2>1, <2>2, <2>3, <2>6, <3>6
    <2> QED BY <2>4, <2>5, <2>6
  <1> QED BY <1>1, <1>2

Counting(s) == loc[s].pc \in {"count", "sync"}

(* Nothing but a refresh and an acceptance writes the counter, and only a  *)
(* request that ends with its number or dies stops refreshing it.          *)
LEMMA CountWriters ==
  ASSUME TypeOK, NEW a \in Slots, Act(a), ~Acceptance
  PROVE  \/ SyncTask(a)
         \/ RequestDies(a) /\ UNCHANGED <<task, offer>>
         \/ /\ task'.responses = task.responses
            /\ Counting(a) => Counting(a)'
  <1> DEFINE Goal == /\ task'.responses = task.responses
                     /\ Counting(a) => Counting(a)'
  <1>1. \A o \in Offers : ~AcceptOffer(a, o)
    BY DEF Acceptance
  <1>2. \A fields : Content(fields).responses = task.responses
    BY DEF Content, TypeOK, TaskRow
  <1>3. ASSUME Request(a) PROVE Goal
    <2>1. loc[a].pc = Free
      BY <1>1, <1>3
         DEF Request, ReadOffer, ReadReject, ReadStage, Archive, Appeal,
             CancelWork, ReadMedia, ReadDecision, Begin, MayBegin
    <2>2. \/ UNCHANGED task
          \/ \E fields : task' = Content(fields)
      BY <1>1, <1>3
         DEF Request, ReadOffer, ReadReject, ReadStage, Archive, Appeal,
             CancelWork, ReadMedia, ReadDecision
    <2> QED BY <1>2, <2>1, <2>2 DEF Counting, Free
  <1>4. ASSUME CountOffers(a) PROVE Goal
    BY <1>4 DEF CountOffers, TypeOK, Loc, Counting
  <1>5. ASSUME Statement(a), ~SyncTask(a), ~CountOffers(a) PROVE Goal
    <2>1. ~Counting(a)
      BY <1>5
         DEF Statement, InsertOffer, ResendOffer, WriteReject, WriteStage,
             WriteTaskStatus, EraseTask, FetchTask, WriteContent,
             WriteDecision, Counting
    <2>2. ASSUME WriteTaskStatus(a) \/ EraseTask(a)
          PROVE  task'.responses = task.responses
      BY <2>2 DEF WriteTaskStatus, EraseTask, TypeOK, TaskRow
    <2>3. ASSUME WriteContent(a) PROVE task'.responses = task.responses
      BY <1>2, <2>3 DEF WriteContent
    <2>4. ASSUME WriteDecision(a) PROVE task'.responses = task.responses
      BY <1>2, <2>4 DEF WriteDecision, TypeOK, TaskRow
    <2>5. task'.responses = task.responses
      BY <1>5, <2>2, <2>3, <2>4
         DEF Statement, InsertOffer, ResendOffer, WriteReject, WriteStage,
             FetchTask
    <2> QED BY <2>1, <2>5
  <1>6. ASSUME RequestDies(a) PROVE UNCHANGED <<task, offer>>
    BY <1>6 DEF RequestDies
  <1> QED BY <1>3, <1>4, <1>5, <1>6 DEF Act

LEMMA CountStep ==
  ASSUME TypeOK, RaceInv, NEW a \in Slots, Act(a), Record
  PROVE  CountAtRest'
  <1>1. CASE Acceptance
    BY <1>1, AcceptanceHeals DEF RaceInv, CountAtRest
  <1>2. CASE ~Acceptance /\ CountLost
    BY <1>2 DEF Record, CountAtRest
  <1>3. CASE ~Acceptance /\ ~CountLost
    <2> SUFFICES ASSUME \A s \in Slots : ~Counting(s)', ~miscounted'
                 PROVE  task'.responses = Pending(offer')
      BY DEF CountAtRest, Counting
    <2>1. Recounted \/ ~miscounted
      BY <1>3 DEF Record
    <2>2. ASSUME NEW s \in Slots \ overtaken, SyncTask(s)
          PROVE  task'.responses = Pending(offer')
      <3>1. loc[s].count = Pending(offer)
        BY <2>2 DEF RaceInv, Current, SyncTask
      <3>2. task'.responses = loc[s].count /\ offer' = offer
        BY <2>2, SyncedKeeps DEF SyncTask
      <3> QED BY <3>1, <3>2
    <2>3. CASE ~Recounted
      <3>1. ~SyncTask(a)
        BY <1>3, <2>3 DEF Recounted, CountLost
      <3>2. Counting(a) => ~RequestDies(a)
        BY <1>3 DEF CountLost, Counting
      <3>3. task'.responses = task.responses /\ ~Counting(a)
        BY <1>3, <3>1, <3>2, CountWriters
      <3>4. \A s \in Slots : ~Counting(s)
        BY <3>3, OthersWait DEF Counting
      <3>5. UNCHANGED offer
        BY <1>3, OfferWriters DEF Counting
      <3> QED BY <2>1, <2>3, <3>3, <3>4, <3>5 DEF RaceInv, CountAtRest, Counting
    <2> QED BY <2>2, <2>3 DEF Recounted
  <1> QED BY <1>1, <1>2, <1>3

(* Work goes forward, or an overtaken stage update writes it.              *)
Forward ==
  \A o \in Offers :
    asn[o].status # "none" /\ asn'[o] # asn[o] =>
      /\ asn[o].status \in Working
      /\ Rank(asn'[o].stage) > Rank(asn[o].stage)

LEMMA ForwardStep ==
  ASSUME TypeOK, RaceInv, NEW a \in Slots, Act(a)
  PROVE  UNCHANGED asn \/ Forward \/ (a \in overtaken /\ WriteStage(a))
  <1>1. ASSUME NEW o \in Offers, NewAssignment(o) PROVE Forward
    BY <1>1 DEF NewAssignment, TypeOK, Forward
  <1>2. ASSUME NEW o \in Offers, asn[o].status \in Working
        PROVE  Rank("cancelled") > Rank(asn[o].stage)
    <2>1. asn[o].stage \in Stage \ {"cancelled"}
      BY <1>2 DEF RaceInv, StagesFit, Working, AssignmentStatus, OnTheWay,
                  TypeOK, Assignment
    <2> QED BY <2>1 DEF Stage, Rank
  <1>3. ASSUME CancelWork(a) PROVE Forward
    BY <1>2, <1>3 DEF CancelWork, Active, Forward
  <1>4. ASSUME WriteStage(a), a \notin overtaken
        PROVE  asn' = asn \/ Forward
    <2>1. PICK o \in Offers, stage \in Stage :
            o = loc[a].offer /\ stage = loc[a].stage
      BY DEF TypeOK, Loc
    <2> DEFINE old == asn[o].stage
    <2>2. /\ o \in Active /\ asn[o].status = AssignmentStatus(old)
          /\ stage = "cancelled" \/ Rank(stage) \in {Rank(old), Rank(old) + 1}
      BY <1>4, <2>1 DEF WriteStage, RaceInv, Current, StagesFit, Active, Working
    <2>3. asn[o].status \in Working /\ old \in Stage
      BY <2>2 DEF Active, TypeOK, Assignment
    <2>4. \/ asn' = asn
          \/ asn' = [asn EXCEPT ![o] = [status |-> AssignmentStatus(stage),
                                        stage  |-> stage]]
      BY <1>4, <2>1 DEF WriteStage
    <2>5. CASE Rank(stage) = Rank(old)
      <3>1. stage = old
        BY <2>3, <2>5 DEF Stage, Rank
      <3>2. asn[o] = [status |-> AssignmentStatus(stage), stage |-> stage]
        BY <2>2, <3>1 DEF TypeOK, Assignment
      <3> QED BY <2>4, <3>2 DEF TypeOK
    <2>6. CASE Rank(stage) > Rank(old)
      <3>1. asn' # asn => /\ asn'[o].stage = stage
                          /\ \A p \in Offers \ {o} : asn'[p] = asn[p]
        BY <2>4 DEF TypeOK
      <3> QED BY <2>3, <2>6, <3>1 DEF Forward
    <2>7. Rank(stage) = Rank(old) \/ Rank(stage) > Rank(old)
      BY <1>2, <2>2, <2>3, StageTypes
    <2> QED BY <2>5, <2>6, <2>7
  <1>5. ASSUME Request(a) PROVE UNCHANGED asn \/ Forward
    BY <1>1, <1>3, <1>5
       DEF Request, ReadOffer, ReadReject, AcceptOffer, SameAssignment, ReadStage, Archive,
           Appeal, ReadMedia, ReadDecision
  <1>6. ASSUME Statement(a), ~WriteStage(a) PROVE UNCHANGED asn
    BY <1>6
       DEF Statement, InsertOffer, ResendOffer, WriteReject, CountOffers,
           SyncTask, WriteTaskStatus, EraseTask, FetchTask, WriteContent,
           WriteDecision
  <1>7. ASSUME RequestDies(a) PROVE UNCHANGED asn
    BY <1>7 DEF RequestDies
  <1> QED BY <1>4, <1>5, <1>6, <1>7 DEF Act

LEMMA RaceStep ==
  ASSUME TypeOK, RaceInv, [RaceNext]_raceVars
  PROVE  RaceInv'
  <1>1. ASSUME NEW a \in Slots, Act(a), Record PROVE RaceInv'
    <2>1. [Next]_vars
      BY <1>1 DEF Act, Next
    <2>2. OneAtWork' /\ StagesFit'
      BY <2>1, OneAtWorkStep, StagesFitStep DEF RaceInv
    <2> QED
      BY <1>1, <2>2, CurrentStep, OpenOffersStep, CountStep DEF RaceInv
  <1>2. CASE UNCHANGED raceVars
    BY <1>2 DEF raceVars, vars, history, RaceInv, OneAtWork, StagesFit, Current,
                NoOpenOffersOnAssigned, CountAtRest, Active, Pending
  <1> QED BY <1>1, <1>2 DEF RaceNext, Next, Act

LEMMA RaceAlways == RaceSpec => [](TypeOK /\ RaceInv)
  <1>1. RaceInit => TypeOK /\ RaceInv
    BY InitType, RaceBegins DEF RaceInit
  <1>2. [RaceNext]_raceVars => [Next]_vars
    BY DEF RaceNext, raceVars
  <1>3. TypeOK /\ RaceInv /\ [RaceNext]_raceVars => (TypeOK /\ RaceInv)'
    BY <1>2, NextType, RaceStep
  <1> QED BY <1>1, <1>3, PTL DEF RaceSpec

(* However requests overlap and die: on a task in work an open offer, and  *)
(* an offer of the work that is not accepted, were written by a request    *)
(* whose reads were out of date, after the last acceptance.                *)
THEOREM NobodyLeftWaiting == RaceSpec => []NoOpenOffersOnAssigned
  <1>1. RaceInv => NoOpenOffersOnAssigned
    BY DEF RaceInv
  <1> QED BY <1>1, RaceAlways, PTL

(* However requests overlap and die: the counter is the number of offers   *)
(* that wait or are accepted, unless a refresh is under way or the last    *)
(* one died or stored a number that was out of date.                       *)
THEOREM OffersCounted == RaceSpec => []CountAtRest
  <1>1. RaceInv => CountAtRest
    BY DEF RaceInv
  <1> QED BY <1>1, RaceAlways, PTL

(* However requests overlap and die: an assignment only moves forward,     *)
(* unless it changed between the read and the write of a stage update.     *)
THEOREM WorkGoesForward == RaceSpec => StageForward
  <1> DEFINE Step == Forward \/ \E s \in overtaken : WriteStage(s)
  <1>1. ASSUME TypeOK, RaceInv, [RaceNext]_raceVars PROVE [Step]_asn
    <2>1. ASSUME NEW a \in Slots, Act(a) PROVE [Step]_asn
      BY <1>1, <2>1, ForwardStep
    <2>2. UNCHANGED raceVars => UNCHANGED asn
      BY DEF raceVars, vars
    <2> QED BY <1>1, <2>1, <2>2 DEF RaceNext, Next, Act
  <1>2. [Step]_asn <=> [\/ \A o \in Offers :
                             asn[o].status # "none" /\ asn'[o] # asn[o] =>
                               /\ asn[o].status \in Working
                               /\ Rank(asn'[o].stage) > Rank(asn[o].stage)
                        \/ \E s \in overtaken : WriteStage(s)]_asn
    BY DEF Forward
  <1> QED BY <1>1, <1>2, RaceAlways, PTL DEF RaceSpec, StageForward
=============================================================================
