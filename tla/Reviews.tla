------------------------------ MODULE Reviews ------------------------------
(***************************************************************************)
(* Reviews of completed tasks and the rating they add up to                *)
(* (submit_announcement_review, _recalculate_review_stats_for_users and    *)
(* the parts of account deletion that erase reviews, in app/main.py).      *)
(*                                                                         *)
(* A review is inserted by one commit, then the average of all reviews of  *)
(* its subject is read by another and stored in user_stats by a third.     *)
(* Deletion does the same in one transaction, whose reads see what others  *)
(* have committed and whose writes others see at its end.  A stored rating *)
(* is modelled by the set of reviews it was computed from.                 *)
(***************************************************************************)
EXTENDS FiniteSets

CONSTANTS
  Members,      \* users
  Jobs,         \* completed tasks
  Customer,     \* per job: customer_id
  Performer,    \* per job: performer_id of its assignment
  Leaving,      \* the users that delete data or their account
  Writers       \* server threads that execute requests

ASSUME JobsAssumption == Jobs # {}
ASSUME PartiesAssumption ==
  /\ Customer \in [Jobs -> Members]
  /\ Performer \in [Jobs -> Members]
  /\ \A j \in Jobs : Customer[j] # Performer[j]
  /\ Leaving \subseteq Members

VARIABLES
  reviews,      \* reviews: the job and its author
  rating,       \* user_stats: per user, the reviews its rating comes from
  gone,         \* users whose account is deleted
  writing       \* per server thread: its request and what it has read

reviewVars == <<reviews, rating, gone, writing>>

Review ==                            \* ux_reviews_task_from_user
  {v \in Jobs \X Members : v[2] \in {Customer[v[1]], Performer[v[1]]}}

Counterpart(v) ==
  IF v[2] = Customer[v[1]] THEN Performer[v[1]] ELSE Customer[v[1]]

About(u, set) == {v \in set : Counterpart(v) = u}
Of(u, set) == {v \in set : v[2] = u \/ Counterpart(v) = u}

Writing ==
  [pc : {"free", "insert", "summary", "store", "notify", "erase", "erased"},
   review : Review,                  \* the review submitted
   u : Members,                      \* the user whose rating is concerned
   read : SUBSET Review,             \* the reviews it saw
   alone : BOOLEAN]                  \* no other request since it began

AReview == CHOOSE v \in Review : TRUE
NoWriting == [pc |-> "free", review |-> AReview, u |-> AReview[2],
              read |-> {}, alone |-> FALSE]

ReviewsTypeOK ==
  /\ reviews \subseteq Review
  /\ rating \in [Members -> SUBSET Review]
  /\ gone \subseteq Members
  /\ writing \in [Writers -> Writing]

ReviewsInit ==
  /\ reviews = {}
  /\ rating = [u \in Members |-> {}]
  /\ gone = {}
  /\ writing = [w \in Writers |-> NoWriting]

AtWriting(w, pc) == writing[w].pc = pc
EndWriting(w) == writing' = [writing EXCEPT ![w] = NoWriting]

BeginWriting(w, request) ==
  LET others == {x \in Writers : ~AtWriting(x, "free")} IN
  /\ AtWriting(w, "free")
  /\ writing' = [x \in Writers |->
       IF x = w THEN [request EXCEPT !.alone = (others = {})]
       ELSE [writing[x] EXCEPT !.alone = FALSE]]

----------------------------------------------------------------------------
(* submit_announcement_review.                                             *)

ReadContext(w) ==                    \* _review_context_for_user
  /\ \E v \in Review \ reviews :
       /\ v[2] \notin gone
       /\ BeginWriting(w, [NoWriting EXCEPT !.pc = "insert", !.review = v,
                                            !.u = Counterpart(v)])
  /\ UNCHANGED <<reviews, rating, gone>>

InsertReview(w) ==                   \* ON CONFLICT DO NOTHING, then 409
  LET v == writing[w].review IN
  /\ AtWriting(w, "insert")
  /\ IF v \in reviews THEN EndWriting(w)
     ELSE writing' = [writing EXCEPT ![w].pc = "summary"]
  /\ reviews' = reviews \cup {v}
  /\ UNCHANGED <<rating, gone>>

Summary_Others(w) ==                 \* mutant: taken before the INSERT
  About(writing[w].u, reviews) \ {writing[w].review}

Summary(w) == About(writing[w].u, reviews)     \* _review_feed_summary

ReadSummary(w) ==
  /\ AtWriting(w, "summary")
  /\ writing' = [writing EXCEPT ![w].pc = "store", ![w].read = Summary(w),
                                 ![w].review = AReview]
  /\ UNCHANGED <<reviews, rating, gone>>

StoreRating(w) ==
  /\ AtWriting(w, "store")
  /\ rating' = [rating EXCEPT ![writing[w].u] = writing[w].read]
  /\ writing' = [writing EXCEPT ![w].pc = "notify", ![w].read = {}]
  /\ UNCHANGED <<reviews, gone>>

Notify(w) ==                         \* create_notification
  /\ AtWriting(w, "notify")
  /\ EndWriting(w)
  /\ UNCHANGED <<reviews, rating, gone>>

----------------------------------------------------------------------------
(* Deletion of reviews and reports, of the profile, or of the account.     *)

ReadReviews(w) ==
  /\ \E u \in Leaving \ gone :
       BeginWriting(w, [NoWriting EXCEPT !.pc = "erase", !.u = u,
                                         !.read = reviews])
  /\ UNCHANGED <<reviews, rating, gone>>

(* The users whose rating _delete_reviews_reports_and_moderation_data      *)
(* computes anew.                                                          *)
Impacted(u, read) == {Counterpart(v) : v \in Of(u, read)} \ ({u} \cup gone)

Recalculated(u, read) ==
  [x \in Members |->
     IF x \in Impacted(u, read) THEN About(x, read \ Of(u, read)) ELSE rating[x]]

CommitErase(w) ==
  LET u == writing[w].u
      read == writing[w].read
  IN
  /\ AtWriting(w, "erase")
  /\ \/ reviews' = reviews \ Of(u, read)            \* reviews and reports
        /\ rating' = Recalculated(u, read)
        /\ UNCHANGED gone
     \/ reviews' = reviews \ Of(u, read)            \* the account
        /\ rating' = [Recalculated(u, read) EXCEPT ![u] = {}]
        /\ gone' = gone \cup {u}
     \/ rating' = [rating EXCEPT ![u] = {}]         \* the profile alone
        /\ UNCHANGED <<reviews, gone>>
  /\ writing' = [writing EXCEPT ![w].pc = "erased", ![w].read = @ \ reviews']

EndErase(w) ==
  /\ AtWriting(w, "erased")
  /\ EndWriting(w)
  /\ UNCHANGED <<reviews, rating, gone>>

WriterDies(w) ==                     \* or a statement raises
  /\ ~AtWriting(w, "free")
  /\ EndWriting(w)
  /\ UNCHANGED <<reviews, rating, gone>>

ReviewRequest(w) ==
  \/ ReadContext(w) \/ InsertReview(w) \/ ReadSummary(w) \/ StoreRating(w)
  \/ Notify(w) \/ ReadReviews(w) \/ CommitErase(w) \/ EndErase(w)
  \/ WriterDies(w)

ReviewsNext == \E w \in Writers : ReviewRequest(w)

ReviewsSpec == ReviewsInit /\ [][ReviewsNext]_reviewVars

----------------------------------------------------------------------------
(* Properties.                                                             *)

(* Overlapping submissions, deletions and requests that died may leave a   *)
(* rating that misses reviews or counts erased ones.  The next submission  *)
(* about the user that nothing overlaps sets it right, and a deletion that *)
(* nothing overlaps leaves every other user whose reviews it erased with   *)
(* the rating of the reviews that remain.                                  *)
QuietSetsRight ==
  \A w \in Writers :
    LET u == writing[w].u IN
    writing[w].alone =>
      /\ AtWriting(w, "notify") => rating[u] = About(u, reviews)
      /\ AtWriting(w, "erased") =>
           \A v \in writing[w].read :
             LET x == Counterpart(v) IN
             x \notin {u} \cup gone => rating[x] = About(x, reviews)
=============================================================================
