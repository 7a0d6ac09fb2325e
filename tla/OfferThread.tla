---------------------------- MODULE OfferThread ----------------------------
(***************************************************************************)
(* The chat thread of an accepted offer (get_or_create_offer_thread in     *)
(* app/chat.py).  Acceptance creates it with the assignment; for an older  *)
(* assignment the first listing of chats by either party does, statement   *)
(* by statement, with no unique index behind it.                           *)
(***************************************************************************)
EXTENDS Naturals

CONSTANTS
  Listings,          \* server threads that list chats of either party
  MaxOfferThreads    \* bound on the threads, numbered as they are created

ASSUME MaxOfferThreadsAssumption == MaxOfferThreads \in Nat

VARIABLES
  made,        \* chat_threads of the offer are 1..made
  members,     \* chat_participants
  offerLink,   \* task_offers.chat_thread_id, 0 is NULL
  workLink,    \* task_assignments.chat_thread_id
  listing,     \* per server thread: its request and the thread it found
  agreed       \* history: the thread of a listing that nothing overlapped

threadVars == <<made, members, offerLink, workLink, listing, agreed>>

Party == {"owner", "performer"}

Listing ==
  [pc : {"free", "insert", "join owner", "join performer", "update",
         "link offer", "link work", "return"},
   t : 0..MaxOfferThreads,
   new : BOOLEAN,             \* it created the thread
   alone : BOOLEAN]           \* no other request since it began

NoListing == [pc |-> "free", t |-> 0, new |-> FALSE, alone |-> FALSE]

ThreadTypeOK ==
  /\ made \in 0..MaxOfferThreads
  /\ members \in [1..MaxOfferThreads -> SUBSET Party]
  /\ offerLink \in 0..MaxOfferThreads
  /\ workLink \in 0..MaxOfferThreads
  /\ listing \in [Listings -> Listing]
  /\ agreed \in 0..MaxOfferThreads

ThreadInit ==                 \* an assignment without a thread
  /\ made = 0
  /\ members = [t \in 1..MaxOfferThreads |-> {}]
  /\ offerLink = 0
  /\ workLink = 0
  /\ listing = [r \in Listings |-> NoListing]
  /\ agreed = 0

AtListing(r, pc) == listing[r].pc = pc
ListingGoes(r, pc) == listing' = [listing EXCEPT ![r].pc = pc]

Existing_AnyOrder == 1..made  \* mutant: LIMIT 1 without ORDER BY

Existing == {t \in 1..made : t = made}      \* ORDER BY created_at DESC

FindThread(r) ==              \* ensure_user_assignment_threads
  LET others == {q \in Listings : ~AtListing(q, "free")}
      Marked(request) == [q \in Listings |->
        IF q = r THEN [request EXCEPT !.alone = (others = {})]
        ELSE [listing[q] EXCEPT !.alone = FALSE]]
  IN
  /\ AtListing(r, "free")
  /\ \/ /\ Existing = {}
        /\ listing' = Marked([NoListing EXCEPT !.pc = "insert"])
     \/ \E t \in Existing :
          listing' = Marked([NoListing EXCEPT !.pc = "join owner", !.t = t])
  /\ UNCHANGED <<made, members, offerLink, workLink, agreed>>

InsertOfferThread(r) ==
  /\ AtListing(r, "insert")
  /\ made < MaxOfferThreads
  /\ made' = made + 1
  /\ listing' = [listing EXCEPT ![r].pc = "join owner", ![r].t = made + 1,
                                ![r].new = TRUE]
  /\ UNCHANGED <<members, offerLink, workLink, agreed>>

JoinParty(r, party, next) ==  \* ensure_chat_participant
  /\ members' = [members EXCEPT ![listing[r].t] = @ \cup {party}]
  /\ ListingGoes(r, next)
  /\ UNCHANGED <<made, offerLink, workLink, agreed>>

JoinOwner(r) ==
  AtListing(r, "join owner") /\ JoinParty(r, "owner", "join performer")

JoinPerformer(r) ==
  /\ AtListing(r, "join performer")
  /\ JoinParty(r, "performer", IF listing[r].new THEN "link offer" ELSE "update")

UpdateThread(r) ==            \* its kind, task, offer and assignment again
  /\ AtListing(r, "update")
  /\ ListingGoes(r, "link offer")
  /\ UNCHANGED <<made, members, offerLink, workLink, agreed>>

LinkOffer(r) ==
  /\ AtListing(r, "link offer")
  /\ offerLink' = listing[r].t
  /\ ListingGoes(r, "link work")
  /\ UNCHANGED <<made, members, workLink, agreed>>

LinkWork(r) ==
  /\ AtListing(r, "link work")
  /\ workLink' = listing[r].t
  /\ ListingGoes(r, "return")
  /\ UNCHANGED <<made, members, offerLink, agreed>>

EndListing(r) ==              \* the answer, or the request dies
  /\ ~AtListing(r, "free")
  /\ agreed' = IF AtListing(r, "return") /\ listing[r].alone
               THEN listing[r].t ELSE agreed
  /\ listing' = [listing EXCEPT ![r] = NoListing]
  /\ UNCHANGED <<made, members, offerLink, workLink>>

ThreadNext ==
  \E r \in Listings :
    \/ FindThread(r) \/ InsertOfferThread(r) \/ JoinOwner(r)
    \/ JoinPerformer(r) \/ UpdateThread(r) \/ LinkOffer(r) \/ LinkWork(r)
    \/ EndListing(r)

ThreadSpec == ThreadInit /\ [][ThreadNext]_threadVars

----------------------------------------------------------------------------
(* Two first listings may create two threads and link one to the offer and *)
(* the other to the assignment.  One listing that nothing overlaps settles *)
(* it for good: from then on every listing finds the same thread, both     *)
(* parties are in it, and offer and assignment refer to it.                *)
ThreadSettles ==
  agreed # 0 =>
    /\ offerLink = agreed /\ workLink = agreed
    /\ members[agreed] = Party
    /\ \A r \in Listings : ~AtListing(r, "free") => listing[r].t = agreed
=============================================================================
