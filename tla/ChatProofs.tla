----------------------------- MODULE ChatProofs -----------------------------
(***************************************************************************)
(* Proofs about chat threads, for any number of participants, sockets,     *)
(* messages and requests.  ChatReads: receipts tell the truth, and no late *)
(* receipt or overlapping post makes a message unread again.  ChatHub: no  *)
(* message falls between the list of a thread and its sockets.             *)
(* OfferThread: a listing that nothing overlaps settles the thread of an   *)
(* offer for good.  Support: a search for the support thread that nothing  *)
(* overlaps leaves one thread in view, and without overlaps the user keeps *)
(* it.                                                                     *)
(***************************************************************************)
EXTENDS ChatReads, ChatHub, OfferThread, Support, WellFoundedInduction, TLAPS

----------------------------------------------------------------------------
(* Reads.                                                                  *)

(* What is shown, marked, acknowledged or posted is in the thread.         *)
WithinLog ==
  /\ posts \subseteq DOMAIN log
  /\ \A u \in ChatUsers : seen[u] \subseteq DOMAIN log
  /\ \A u \in ChatUsers : acked[u] \in 0..Len(log)

(* A marked message is somebody else's, and it or a later one was shown.   *)
MarkedWasShown ==
  \A u \in ChatUsers :
    \A n \in reads[u] :
      /\ n \in FromOthers(u)
      /\ \E k \in seen[u] : k >= n

(* A receipt leaves a row of message_reads for all it covers: what the     *)
(* cursor forgets when it moves back, they remember.                       *)
AckedIsMarked ==
  \A u \in ChatUsers : \A n \in FromOthers(u) : n <= acked[u] => n \in reads[u]

ReadsInv == ReadsTypeOK /\ WithinLog /\ MarkedWasShown /\ AckedIsMarked

LEMMA ReadsInvInit == ReadsInit => ReadsInv
  <1> SUFFICES ASSUME ReadsInit PROVE ReadsInv
    OBVIOUS
  <1>1. ReadsTypeOK
    BY MaxMessagesAssumption DEF ReadsInit, ReadsTypeOK
  <1>2. WithinLog /\ MarkedWasShown /\ AckedIsMarked
    BY DEF ReadsInit, WithinLog, MarkedWasShown, AckedIsMarked, FromOthers
  <1> QED BY <1>1, <1>2 DEF ReadsInv

(* A message that is added changes nothing of those before it.             *)
LEMMA PostKeeps ==
  ASSUME ReadsInv, NEW sender \in Senders, PostMessage(sender)
  PROVE  ReadsInv'
  <1>1. /\ log \in Seq(Senders) /\ log' = Append(log, sender)
        /\ Len(log) < MaxMessages
    BY DEF ReadsInv, ReadsTypeOK, PostMessage
  <1>2. /\ log' \in Seq(Senders) /\ Len(log') = Len(log) + 1
        /\ Len(log) \in Nat
        /\ DOMAIN log = 1..Len(log) /\ DOMAIN log' = 1..(Len(log) + 1)
        /\ \A n \in DOMAIN log : log'[n] = log[n]
    BY <1>1
  <1>3. \A u \in ChatUsers :
          FromOthers(u)' = FromOthers(u) \cup
            (IF sender \in {u, System} THEN {} ELSE {Len(log) + 1})
    BY <1>1, <1>2 DEF FromOthers
  <1>4. ReadsTypeOK'
    <2>1. Len(log') <= MaxMessages /\ Len(log) + 1 \in 1..MaxMessages
      BY <1>1, <1>2, MaxMessagesAssumption
    <2>2. posts' \subseteq 1..MaxMessages
      BY <2>1 DEF ReadsInv, ReadsTypeOK, PostMessage
    <2> QED BY <1>2, <2>1, <2>2 DEF ReadsInv, ReadsTypeOK, PostMessage
  <1>5. WithinLog'
    BY <1>2 DEF ReadsInv, WithinLog, PostMessage
  <1>6. MarkedWasShown'
    BY <1>3 DEF ReadsInv, MarkedWasShown, PostMessage
  <1>7. AckedIsMarked'
    <2> SUFFICES ASSUME NEW u \in ChatUsers, NEW n \in FromOthers(u)',
                        n <= acked'[u]
                 PROVE  n \in reads'[u]
      BY DEF AckedIsMarked
    <2>1. acked'[u] = acked[u] /\ reads'[u] = reads[u] /\ acked[u] \in 0..Len(log)
      BY DEF ReadsInv, WithinLog, PostMessage
    <2>2. n # Len(log) + 1
      BY <2>1, <1>2
    <2>3. n \in FromOthers(u)
      BY <2>2, <1>3
    <2> QED BY <2>1, <2>3 DEF ReadsInv, AckedIsMarked
  <1> QED BY <1>4, <1>5, <1>6, <1>7 DEF ReadsInv

LEMMA ReceiptKeeps ==
  ASSUME ReadsInv, NEW u \in ChatUsers, NEW m \in 1..MaxMessages,
         HandleReceipt(u, m)
  PROVE  ReadsInv'
  <1>1. /\ m \in DOMAIN log /\ DOMAIN log = 1..Len(log) /\ Len(log) \in Nat
        /\ Len(log) <= MaxMessages
    BY DEF ReadsInv, ReadsTypeOK, WithinLog, HandleReceipt
  <1>2. /\ reads \in [ChatUsers -> SUBSET (1..MaxMessages)]
        /\ acked \in [ChatUsers -> 0..MaxMessages]
        /\ cursor \in [ChatUsers -> 0..MaxMessages]
    BY DEF ReadsInv, ReadsTypeOK
  <1>3. /\ reads'[u] = reads[u] \cup Readable(u, m)
        /\ \A v \in ChatUsers \ {u} : reads'[v] = reads[v]
        /\ acked'[u] = IF m > acked[u] THEN m ELSE acked[u]
        /\ \A v \in ChatUsers \ {u} : acked'[v] = acked[v]
    BY <1>2 DEF HandleReceipt
  <1>4. Readable(u, m) \subseteq 1..MaxMessages
    BY <1>1, MaxMessagesAssumption DEF Readable, FromOthers
  <1>5. ReadsTypeOK'
    BY <1>2, <1>3, <1>4, MaxMessagesAssumption
       DEF ReadsInv, ReadsTypeOK, HandleReceipt
  <1>6. WithinLog'
    BY <1>1, <1>3 DEF ReadsInv, WithinLog, HandleReceipt
  <1>7. \A v \in ChatUsers : FromOthers(v)' = FromOthers(v)
    BY DEF HandleReceipt, FromOthers
  <1>8. MarkedWasShown'
    <2>1. \A n \in Readable(u, m) : /\ n \in FromOthers(u)
                                    /\ \E k \in seen[u] : k >= n
      BY <1>1 DEF Readable, FromOthers, HandleReceipt
    <2> QED BY <2>1, <1>3, <1>7 DEF ReadsInv, MarkedWasShown, HandleReceipt
  <1>9. AckedIsMarked'
    BY <1>3, <1>7 DEF ReadsInv, AckedIsMarked, Readable
  <1> QED BY <1>5, <1>6, <1>8, <1>9 DEF ReadsInv

LEMMA ReadsInvNext == ReadsInv /\ [ReadsNext]_readsVars => ReadsInv'
  <1> SUFFICES ASSUME ReadsInv, [ReadsNext]_readsVars PROVE ReadsInv'
    OBVIOUS
  <1>1. ASSUME NEW sender \in Senders, PostMessage(sender) PROVE ReadsInv'
    BY <1>1, PostKeeps
  <1>2. ASSUME NEW m \in 1..MaxMessages, MoveCursor(m) PROVE ReadsInv'
    <2>1. cursor' \in [ChatUsers -> 0..MaxMessages]
      <3> DEFINE sender == log[m]
      <3>1. cursor \in [ChatUsers -> 0..MaxMessages] /\ m \in 0..MaxMessages
        BY MaxMessagesAssumption DEF ReadsInv, ReadsTypeOK
      <3>2. cursor' = [cursor EXCEPT ![sender] = m] \/ cursor' = cursor
        BY <1>2 DEF MoveCursor
      <3> HIDE DEF sender
      <3> QED BY <3>1, <3>2
    <2> QED
      BY <1>2, <2>1
         DEF ReadsInv, ReadsTypeOK, WithinLog, MarkedWasShown, AckedIsMarked,
             MoveCursor, FromOthers
  <1>3. ASSUME NEW u \in ChatUsers, NEW m \in 1..MaxMessages, ShowMessage(u, m)
        PROVE  ReadsInv'
    <2>1. /\ \A v \in ChatUsers : seen[v] \subseteq seen'[v]
          /\ \A v \in ChatUsers : seen'[v] \subseteq seen[v] \cup {m}
          /\ seen' \in [ChatUsers -> SUBSET (1..MaxMessages)]
          /\ m \in DOMAIN log
      BY <1>3 DEF ReadsInv, ReadsTypeOK, ShowMessage
    <2> QED
      BY <1>3, <2>1
         DEF ReadsInv, ReadsTypeOK, WithinLog, MarkedWasShown, AckedIsMarked,
             ShowMessage, FromOthers
  <1>4. CASE UNCHANGED readsVars
    BY <1>4 DEF ReadsInv, ReadsTypeOK, WithinLog, MarkedWasShown,
                AckedIsMarked, FromOthers, readsVars
  <1> QED BY <1>1, <1>2, <1>3, <1>4, ReceiptKeeps DEF ReadsNext

(* A message is shown as read only when a client of its receiver has shown *)
(* it or a later one (mark_thread_messages_read), for any number of users  *)
(* and messages and any order of receipts.                                 *)
THEOREM ReceiptsTrue == ReadsSpec => []TruthfulReceipts
  <1>1. ReadsInv => TruthfulReceipts
    BY DEF ReadsInv, MarkedWasShown, TruthfulReceipts, FromOthers
  <1> QED BY <1>1, ReadsInvInit, ReadsInvNext, PTL DEF ReadsSpec

(* What a receipt has covered is never counted as unread again (the        *)
(* unread_count of the previews), although the cursor moves back.          *)
THEOREM ReadStaysRead == ReadsSpec => []NothingUnreadAgain
  <1>1. ASSUME ReadsInv PROVE NothingUnreadAgain
    <2> SUFFICES ASSUME NEW u \in ChatUsers, NEW m \in Unread(u)
                 PROVE  m > acked[u]
      BY DEF NothingUnreadAgain
    <2>1. m \in FromOthers(u) /\ m \notin reads[u]
      BY DEF Unread, CountedRead
    <2>2. m \in Nat /\ acked[u] \in Nat
      BY <1>1, <2>1 DEF ReadsInv, ReadsTypeOK, WithinLog, FromOthers
    <2> QED BY <1>1, <2>1, <2>2 DEF ReadsInv, AckedIsMarked
  <1> QED BY <1>1, ReadsInvInit, ReadsInvNext, PTL DEF ReadsSpec

----------------------------------------------------------------------------
(* The thread of an offer.                                                 *)

(* A request has not found a thread, or it has the number of one.          *)
ThreadFits(q, n) ==
  /\ q.pc = "insert" => q.t = 0
  /\ q.pc \notin {"free", "insert"} => q.t \in 1..n

(* How far a request that nothing has overlapped has brought the newest    *)
(* thread n, with members ms and the two references to it.                 *)
Settling(q, n, ms, offer, work) ==
  /\ q.pc = "insert" => n = 0
  /\ q.pc \notin {"free", "insert"} => q.t = n
  /\ q.pc = "join performer" => "owner" \in ms[n]
  /\ q.pc \in {"update", "link offer", "link work", "return"} => ms[n] = Party
  /\ q.pc \in {"link work", "return"} => offer = n
  /\ q.pc = "return" => work = n

AloneSettles ==
  \A r \in Listings :
    listing[r].alone =>
      /\ \A q \in Listings \ {r} : listing[q].pc = "free"
      /\ Settling(listing[r], made, members, offerLink, workLink)

SettledForGood ==
  agreed # 0 =>
    /\ made = agreed /\ offerLink = agreed /\ workLink = agreed
    /\ members[agreed] = Party
    /\ \A r \in Listings : listing[r].pc # "free" => listing[r].t = agreed

ThreadInv ==
  /\ ThreadTypeOK
  /\ \A r \in Listings : ThreadFits(listing[r], made)
  /\ AloneSettles /\ SettledForGood

LEMMA NoListingType ==
  /\ NoListing \in Listing /\ NoListing.pc = "free" /\ ~NoListing.alone
  /\ NoListing.t = 0
  BY MaxOfferThreadsAssumption DEF NoListing, Listing

LEMMA ExistingIsNewest ==
  ASSUME made \in Nat PROVE Existing = {made} \ {0}
  BY DEF Existing

LEMMA ThreadThere ==
  ASSUME NEW n, NEW m \in 0..MaxOfferThreads, n \in 1..m
  PROVE  n \in 1..MaxOfferThreads /\ n \in 0..MaxOfferThreads
  BY MaxOfferThreadsAssumption

LEMMA ThreadInitInv == ThreadInit => ThreadInv
  <1> SUFFICES ASSUME ThreadInit PROVE ThreadInv
    OBVIOUS
  <1>1. ThreadTypeOK
    BY NoListingType, MaxOfferThreadsAssumption DEF ThreadInit, ThreadTypeOK
  <1>2. \A r \in Listings : ThreadFits(listing[r], made)
    BY NoListingType DEF ThreadInit, ThreadFits
  <1>3. AloneSettles /\ SettledForGood
    BY NoListingType DEF ThreadInit, AloneSettles, SettledForGood
  <1> QED BY <1>1, <1>2, <1>3 DEF ThreadInv

(* A request under way goes on, or ends.                                   *)
LEMMA ListingGoesOn ==
  ASSUME ThreadInv, ThreadTypeOK', NEW r \in Listings, listing[r].pc # "free",
         \A q \in Listings \ {r} : listing'[q] = listing[q],
         made' >= made, ThreadFits(listing'[r], made'),
         listing'[r].alone =>
           /\ listing[r].alone
           /\ Settling(listing[r], made, members, offerLink, workLink)
                => Settling(listing'[r], made', members', offerLink', workLink'),
         SettledForGood'
  PROVE  ThreadInv'
  <1>1. made \in Nat /\ made' \in Nat
    BY MaxOfferThreadsAssumption DEF ThreadInv, ThreadTypeOK
  <1>2. ASSUME NEW q \in Listings PROVE ThreadFits(listing'[q], made')
    <2>1. CASE q = r
      BY <2>1
    <2>2. CASE q # r
      <3>1. listing'[q] = listing[q] /\ ThreadFits(listing[q], made)
        BY <2>2 DEF ThreadInv
      <3> QED BY <1>1, <3>1 DEF ThreadFits
    <2> QED BY <2>1, <2>2
  <1>3. ASSUME NEW q \in Listings, listing'[q].alone
        PROVE  /\ \A p \in Listings \ {q} : listing'[p].pc = "free"
               /\ Settling(listing'[q], made', members', offerLink', workLink')
    <2>1. CASE q = r
      BY <1>3, <2>1 DEF ThreadInv, AloneSettles
    <2>2. CASE q # r
      BY <1>3, <2>2 DEF ThreadInv, AloneSettles
    <2> QED BY <2>1, <2>2
  <1>4. AloneSettles'
    BY <1>3 DEF AloneSettles, Settling, Party
  <1>5. \A q \in Listings : ThreadFits(listing[q], made)'
    BY <1>2 DEF ThreadFits
  <1> QED BY <1>4, <1>5 DEF ThreadInv

LEMMA ThreadFound ==
  ASSUME ThreadInv, NEW r \in Listings, FindThread(r)
  PROVE  ThreadInv'
  <1> DEFINE others == {q \in Listings : ~AtListing(q, "free")}
  <1>1. made \in 0..MaxOfferThreads /\ made \in Nat
    BY MaxOfferThreadsAssumption DEF ThreadInv, ThreadTypeOK
  <1>2. PICK request \in Listing :
          /\ \/ request.pc = "insert" /\ request.t = 0 /\ made = 0
             \/ /\ request.pc = "join owner" /\ request.t = made
                /\ made # 0
          /\ listing' = [q \in Listings |->
                IF q = r THEN [request EXCEPT !.alone = (others = {})]
                ELSE [listing[q] EXCEPT !.alone = FALSE]]
    <2>0. Existing = {made} \ {0}
      BY <1>1, ExistingIsNewest
    <2>1. CASE /\ Existing = {}
               /\ listing' = [q \in Listings |->
                    IF q = r THEN [[NoListing EXCEPT !.pc = "insert"]
                                     EXCEPT !.alone = (others = {})]
                    ELSE [listing[q] EXCEPT !.alone = FALSE]]
      <3>1. made = 0
        BY <2>0, <2>1
      <3>2. /\ [NoListing EXCEPT !.pc = "insert"] \in Listing
            /\ [NoListing EXCEPT !.pc = "insert"].pc = "insert"
            /\ [NoListing EXCEPT !.pc = "insert"].t = 0
        BY NoListingType DEF Listing
      <3> QED BY <2>1, <3>1, <3>2
    <2>2. ASSUME NEW t \in Existing,
                 listing' = [q \in Listings |->
                   IF q = r THEN [[NoListing EXCEPT !.pc = "join owner", !.t = t]
                                    EXCEPT !.alone = (others = {})]
                   ELSE [listing[q] EXCEPT !.alone = FALSE]]
          PROVE  \E request \in Listing :
                   /\ \/ request.pc = "insert" /\ request.t = 0 /\ made = 0
                      \/ /\ request.pc = "join owner" /\ request.t = made
                         /\ made # 0
                   /\ listing' = [q \in Listings |->
                         IF q = r THEN [request EXCEPT !.alone = (others = {})]
                         ELSE [listing[q] EXCEPT !.alone = FALSE]]
      <3> DEFINE request == [NoListing EXCEPT !.pc = "join owner", !.t = t]
      <3>1. t = made /\ made # 0
        BY <2>0, <2>2
      <3>2. /\ request \in Listing /\ request.pc = "join owner"
            /\ request.t = made
        BY <1>1, <3>1, NoListingType DEF Listing
      <3>3. listing' = [q \in Listings |->
                IF q = r THEN [request EXCEPT !.alone = (others = {})]
                ELSE [listing[q] EXCEPT !.alone = FALSE]]
        BY <2>2
      <3> HIDE DEF request
      <3> QED BY <3>1, <3>2, <3>3
    <2> QED BY <2>1, <2>2 DEF FindThread
  <1> DEFINE new == [request EXCEPT !.alone = (others = {})]
  <1>3. /\ new \in Listing /\ new.pc = request.pc /\ new.t = request.t
        /\ new.alone = (others = {})
    BY DEF Listing
  <1>4. /\ listing'[r] = new
        /\ \A q \in Listings \ {r} :
             listing'[q] = [listing[q] EXCEPT !.alone = FALSE]
        /\ listing' = [q \in Listings |-> listing'[q]]
    BY <1>2
  <1>5. ASSUME NEW q \in Listings \ {r}
        PROVE  /\ listing'[q] \in Listing /\ ~listing'[q].alone
               /\ listing'[q].pc = listing[q].pc /\ listing'[q].t = listing[q].t
    <2>1. /\ listing'[q] = [listing[q] EXCEPT !.alone = FALSE]
          /\ listing[q] \in Listing
      BY <1>4 DEF ThreadInv, ThreadTypeOK
    <2> QED BY <2>1 DEF Listing
  <1>6. UNCHANGED <<made, members, offerLink, workLink, agreed>>
    BY DEF FindThread
  <1>7. others = {} => \A q \in Listings \ {r} : listing[q].pc = "free"
    BY DEF AtListing
  <1> HIDE DEF new, others
  <1>8. ThreadTypeOK'
    BY <1>3, <1>4, <1>5, <1>6 DEF ThreadInv, ThreadTypeOK
  <1>9. \A q \in Listings : ThreadFits(listing'[q], made')
    <2>1. ThreadFits(new, made)
      <3>1. new.pc = "insert" => new.t = 0
        BY <1>2, <1>3
      <3>2. new.pc # "insert" => new.t = made /\ made # 0
        BY <1>2, <1>3
      <3>3. made # 0 => made \in 1..made
        BY <1>1
      <3> QED BY <3>1, <3>2, <3>3, Zenon DEF ThreadFits
    <2>2. \A q \in Listings : ThreadFits(listing[q], made)
      BY DEF ThreadInv
    <2> QED BY <1>4, <1>5, <1>6, <2>1, <2>2 DEF ThreadFits
  <1>10. Settling(new, made, members, offerLink, workLink)
    BY <1>2, <1>3 DEF Settling
  <1>11. AloneSettles'
    <2> SUFFICES ASSUME NEW q \in Listings, listing'[q].alone
                 PROVE  /\ \A p \in Listings \ {q} : listing'[p].pc = "free"
                        /\ Settling(listing'[q], made', members', offerLink',
                                    workLink')
      BY DEF AloneSettles, Settling, Party
    <2>1. q = r /\ others = {}
      BY <1>3, <1>4, <1>5
    <2> QED BY <1>4, <1>5, <1>6, <1>7, <1>10, <2>1
  <1>12. SettledForGood'
    <2> SUFFICES ASSUME agreed # 0
                 PROVE  \A q \in Listings :
                          listing'[q].pc # "free" => listing'[q].t = agreed
      BY <1>6 DEF ThreadInv, SettledForGood
    <2>1. /\ made = agreed
          /\ \A q \in Listings : listing[q].pc # "free" => listing[q].t = agreed
      BY DEF ThreadInv, SettledForGood
    <2>2. new.t = agreed
      BY <1>2, <1>3, <2>1
    <2> QED BY <1>4, <1>5, <2>1, <2>2
  <1>13. \A q \in Listings : ThreadFits(listing[q], made)'
    BY <1>9 DEF ThreadFits
  <1> QED BY <1>8, <1>11, <1>12, <1>13 DEF ThreadInv

LEMMA ThreadInvNext == ThreadInv /\ [ThreadNext]_threadVars => ThreadInv'
  <1> SUFFICES ASSUME ThreadInv, [ThreadNext]_threadVars PROVE ThreadInv'
    OBVIOUS
  <1>0. /\ ThreadTypeOK /\ SettledForGood
        /\ made \in Nat /\ MaxOfferThreads \in Nat
        /\ \A r \in Listings : /\ listing[r] \in Listing
                               /\ ThreadFits(listing[r], made)
    BY MaxOfferThreadsAssumption DEF ThreadInv, ThreadTypeOK
  (* A statement that goes on to pc.                                       *)
  <1>1. ASSUME NEW r \in Listings, NEW pc,
               pc \in {"join performer", "update", "link offer", "link work",
                       "return"},
               listing' = [listing EXCEPT ![r].pc = pc]
        PROVE  /\ \A q \in Listings \ {r} : listing'[q] = listing[q]
               /\ listing'[r].pc = pc /\ listing'[r].t = listing[r].t
               /\ listing'[r].alone = listing[r].alone
               /\ listing'[r].new = listing[r].new
               /\ listing' \in [Listings -> Listing]
    BY <1>0, <1>1 DEF ThreadTypeOK, Listing
  <1>2. ASSUME NEW r \in Listings, InsertOfferThread(r) PROVE ThreadInv'
    <2> DEFINE new == [listing[r] EXCEPT !.pc = "join owner", !.t = made + 1,
                                         !.new = TRUE]
    <2>1. /\ listing[r].pc = "insert" /\ made < MaxOfferThreads
          /\ made' = made + 1 /\ UNCHANGED <<members, offerLink, workLink, agreed>>
      BY <1>2 DEF InsertOfferThread, AtListing
    <2>2. listing' = [listing EXCEPT ![r] = new]
      BY <1>0, <1>2 DEF InsertOfferThread, ThreadTypeOK
    <2>3. /\ new \in Listing /\ new.pc = "join owner" /\ new.t = made + 1
          /\ new.alone = listing[r].alone
      <3>1. made + 1 \in 0..MaxOfferThreads
        BY <1>0, <2>1
      <3> QED BY <1>0, <3>1 DEF Listing
    <2> HIDE DEF new
    <2>4. /\ listing'[r] = new
          /\ \A q \in Listings \ {r} : listing'[q] = listing[q]
      BY <1>0, <2>2 DEF ThreadTypeOK
    <2>5. ThreadTypeOK'
      <3>1. made' \in 0..MaxOfferThreads
        BY <1>0, <2>1
      <3>2. listing' \in [Listings -> Listing]
        BY <1>0, <2>2, <2>3 DEF ThreadTypeOK
      <3> QED BY <1>0, <2>1, <3>1, <3>2, Zenon DEF ThreadTypeOK
    <2>6. agreed = 0
      BY <1>0, <2>1 DEF ThreadFits, SettledForGood
    <2>7. SettledForGood'
      BY <2>1, <2>6 DEF SettledForGood
    <2>8. ThreadFits(new, made') /\ made' >= made
      <3>1. made + 1 \in 1..made + 1 /\ made + 1 >= made
        BY <1>0
      <3> QED BY <2>1, <2>3, <3>1 DEF ThreadFits
    <2>9. Settling(new, made', members', offerLink', workLink')
      BY <2>1, <2>3 DEF Settling
    <2> QED BY <2>1, <2>3, <2>4, <2>5, <2>7, <2>8, <2>9, ListingGoesOn
  (* A party joins the thread.                                             *)
  <1>3. ASSUME NEW r \in Listings, NEW party \in Party, NEW pc,
               pc \in {"join performer", "update", "link offer"},
               listing[r].pc \notin {"free", "insert"},
               JoinParty(r, party, pc),
               listing'[r].alone => 
                 \/ party = "owner" /\ pc = "join performer"
                 \/ /\ party = "performer" /\ pc # "join performer"
                    /\ listing[r].pc = "join performer"
        PROVE  ThreadInv'
    <2> DEFINE t == listing[r].t
    <2>1. /\ listing' = [listing EXCEPT ![r].pc = pc]
          /\ members' = [members EXCEPT ![t] = @ \cup {party}]
          /\ UNCHANGED <<made, offerLink, workLink, agreed>>
      BY <1>3 DEF JoinParty, ListingGoes
    <2>2. t \in 1..made /\ t \in 1..MaxOfferThreads
      <3>1. made \in 0..MaxOfferThreads /\ t \in 1..made
        BY <1>0, <1>3, Zenon DEF ThreadFits, ThreadTypeOK
      <3> QED BY <3>1, ThreadThere, Zenon
    <2>3. /\ \A q \in Listings \ {r} : listing'[q] = listing[q]
          /\ listing'[r].pc = pc /\ listing'[r].t = t
          /\ listing'[r].alone = listing[r].alone
          /\ listing' \in [Listings -> Listing]
      BY <1>1, <1>3, <2>1
    <2> HIDE DEF t
    <2>4. /\ members'[t] = members[t] \cup {party}
          /\ members[t] \subseteq Party
          /\ members' \in [1..MaxOfferThreads -> SUBSET Party]
      BY <1>0, <1>3, <2>1, <2>2 DEF ThreadTypeOK
    <2>5. ThreadTypeOK'
      BY <1>0, <2>1, <2>3, <2>4 DEF ThreadTypeOK
    <2>6. ThreadFits(listing'[r], made')
      BY <1>3, <2>1, <2>2, <2>3 DEF ThreadFits
    <2>7. SettledForGood'
      <3>1. agreed # 0 => listing[r].t = agreed
        BY <1>0, <1>3 DEF SettledForGood
      <3>2. agreed # 0 => members'[agreed] = Party
        BY <1>0, <1>3, <2>4, <3>1 DEF SettledForGood, t
      <3>3. \A q \in Listings : agreed # 0 /\ listing'[q].pc # "free"
                               => listing'[q].t = agreed
        BY <1>0, <2>3, <3>1 DEF SettledForGood, t
      <3> QED BY <1>0, <2>1, <3>2, <3>3 DEF SettledForGood
    <2>8. ASSUME Settling(listing[r], made, members, offerLink, workLink),
                 listing'[r].alone
          PROVE  Settling(listing'[r], made', members', offerLink', workLink')
      <3>1. t = made /\ made' = made
        BY <1>3, <2>1, <2>8 DEF Settling, t
      <3>2. party = "performer" => "owner" \in members[t] /\ pc # "join performer"
        BY <1>3, <2>8, <3>1 DEF Settling
      <3>3. pc # "join performer" => members'[t] = Party
        BY <1>3, <2>4, <2>8, <3>2 DEF Party
      <3>4. pc = "join performer" => "owner" \in members'[t]
        BY <1>3, <2>4, <2>8, <3>2
      <3> QED BY <1>3, <2>3, <3>1, <3>3, <3>4 DEF Settling
    <2>9. made' >= made
      BY <1>0, <2>1
    <2> QED BY <1>3, <2>3, <2>5, <2>6, <2>7, <2>8, <2>9, ListingGoesOn
  <1>4. ASSUME NEW r \in Listings, JoinOwner(r) PROVE ThreadInv'
    BY <1>3, <1>4 DEF JoinOwner, AtListing, Party
  <1>5. ASSUME NEW r \in Listings, JoinPerformer(r) PROVE ThreadInv'
    <2> DEFINE pc == IF listing[r].new THEN "link offer" ELSE "update"
    <2>1. JoinParty(r, "performer", pc) /\ listing[r].pc = "join performer"
      BY <1>5 DEF JoinPerformer, AtListing
    <2>2. pc \in {"update", "link offer"} /\ "performer" \in Party
      BY DEF Party
    <2> HIDE DEF pc
    <2> QED BY <1>3, <2>1, <2>2
  (* A statement that writes neither threads nor their members.            *)
  <1>6. ASSUME NEW r \in Listings,
               UpdateThread(r) \/ LinkOffer(r) \/ LinkWork(r)
        PROVE  ThreadInv'
    <2> DEFINE t == listing[r].t
    <2>1. PICK pc :
            /\ pc \in {"link offer", "link work", "return"}
            /\ listing' = [listing EXCEPT ![r].pc = pc]
            /\ pc = "link offer" => /\ listing[r].pc = "update"
                                    /\ offerLink' = offerLink
                                    /\ workLink' = workLink
            /\ pc = "link work" => /\ listing[r].pc = "link offer"
                                   /\ offerLink' = t /\ workLink' = workLink
            /\ pc = "return" => /\ listing[r].pc = "link work"
                                /\ offerLink' = offerLink /\ workLink' = t
      BY <1>6 DEF UpdateThread, LinkOffer, LinkWork, ListingGoes, AtListing
    <2>2. UNCHANGED <<made, members, agreed>>
      BY <1>6 DEF UpdateThread, LinkOffer, LinkWork
    <2>3. t \in 1..made /\ t \in 0..MaxOfferThreads /\ listing[r].pc # "free"
      <3>1. listing[r].pc \notin {"free", "insert"}
        BY <2>1
      <3>2. made \in 0..MaxOfferThreads /\ t \in 1..made
        BY <1>0, <3>1, Zenon DEF ThreadFits, ThreadTypeOK
      <3> QED BY <3>1, <3>2, ThreadThere, Zenon
    <2>4. /\ \A q \in Listings \ {r} : listing'[q] = listing[q]
          /\ listing'[r].pc = pc /\ listing'[r].t = t
          /\ listing'[r].alone = listing[r].alone
          /\ listing' \in [Listings -> Listing]
      BY <1>1, <2>1
    <2>5. /\ listing[r].pc \in {"update", "link offer", "link work"}
          /\ offerLink' \in {t, offerLink} /\ workLink' \in {t, workLink}
      BY <2>1
    <2> HIDE DEF t
    <2>6. ThreadTypeOK'
      BY <1>0, <2>2, <2>3, <2>4, <2>5 DEF ThreadTypeOK
    <2>7. ThreadFits(listing'[r], made') /\ made' >= made
      <3>1. t \in 1..made' /\ made' = made
        BY <2>2, <2>3, Zenon
      <3>2. listing'[r].pc # "insert" /\ listing'[r].t = t
        BY <2>1, <2>4
      <3>3. made >= made
        <4>1. made \in Nat
          BY <1>0, Zenon
        <4> QED BY <4>1
      <3> QED BY <3>1, <3>2, <3>3, Zenon DEF ThreadFits
    <2>8. SettledForGood'
      <3>1. agreed # 0 => t = agreed
        BY <1>0, <2>3 DEF SettledForGood, t
      <3>2. agreed # 0 => offerLink' = agreed /\ workLink' = agreed
        <4>1. agreed # 0 => offerLink = agreed /\ workLink = agreed
          BY <1>0, Zenon DEF SettledForGood
        <4>2. /\ offerLink' = t \/ offerLink' = offerLink
              /\ workLink' = t \/ workLink' = workLink
          BY <2>5, Zenon
        <4> QED BY <3>1, <4>1, <4>2
      <3>3. \A q \in Listings : agreed # 0 /\ listing'[q].pc # "free"
                               => listing'[q].t = agreed
        BY <1>0, <2>4, <3>1 DEF SettledForGood
      <3> QED BY <1>0, <2>2, <3>2, <3>3 DEF SettledForGood
    <2>9. ASSUME Settling(listing[r], made, members, offerLink, workLink)
          PROVE  Settling(listing'[r], made', members', offerLink', workLink')
      <3>1. t = made /\ members[made] = Party
        BY <2>5, <2>9 DEF Settling, t
      <3>2. pc = "return" => offerLink = made
        BY <2>1, <2>9 DEF Settling
      <3> QED BY <2>1, <2>2, <2>4, <3>1, <3>2 DEF Settling
    <2> QED BY <2>3, <2>4, <2>6, <2>7, <2>8, <2>9, ListingGoesOn
  <1>7. ASSUME NEW r \in Listings, EndListing(r) PROVE ThreadInv'
    <2>1. /\ listing[r].pc # "free" /\ listing' = [listing EXCEPT ![r] = NoListing]
          /\ UNCHANGED <<made, members, offerLink, workLink>>
      BY <1>7 DEF EndListing, AtListing
    <2>2. \/ agreed' = agreed
          \/ /\ agreed' = listing[r].t /\ listing[r].alone
             /\ listing[r].pc = "return"
      BY <1>7 DEF EndListing, AtListing
    <2>3. /\ \A q \in Listings \ {r} : listing'[q] = listing[q]
          /\ listing'[r] = NoListing
      BY <1>0, <2>1 DEF ThreadTypeOK
    <2>4. ThreadTypeOK'
      BY <1>0, <2>1, <2>2, NoListingType DEF ThreadTypeOK, Listing
    <2>5. SettledForGood'
      <3>1. CASE agreed' = agreed
        BY <1>0, <2>1, <2>3, <3>1, NoListingType DEF SettledForGood
      <3>2. CASE /\ agreed' = listing[r].t /\ listing[r].alone
                 /\ listing[r].pc = "return"
        <4>1. /\ agreed' = made /\ members[made] = Party
              /\ offerLink = made /\ workLink = made
              /\ \A q \in Listings \ {r} : listing[q].pc = "free"
          BY <3>2 DEF ThreadInv, AloneSettles, Settling
        <4> QED BY <2>1, <2>3, <4>1, NoListingType DEF SettledForGood
      <3> QED BY <2>2, <3>1, <3>2
    <2>6. ThreadFits(listing'[r], made') /\ made' >= made
      BY <1>0, <2>1, <2>3, NoListingType DEF ThreadFits
    <2> QED BY <2>1, <2>3, <2>4, <2>5, <2>6, NoListingType, ListingGoesOn
  <1>8. ASSUME UNCHANGED threadVars PROVE ThreadInv'
    BY <1>8 DEF threadVars, ThreadInv, ThreadTypeOK, ThreadFits, AloneSettles,
                Settling, SettledForGood
  <1> QED BY <1>2, <1>4, <1>5, <1>6, <1>7, <1>8, ThreadFound DEF ThreadNext

(* Once a listing of chats that nothing overlapped has answered with the   *)
(* thread of an offer, no request finds another one or makes one, both     *)
(* parties stay in it, and offer and assignment refer to it, however the   *)
(* listings before it overlapped or died and those after it do.            *)
THEOREM SettledStays == ThreadSpec => []ThreadSettles
  <1>1. ThreadInv => ThreadSettles
    BY DEF ThreadInv, SettledForGood, ThreadSettles, AtListing
  <1> QED BY <1>1, ThreadInitInv, ThreadInvNext, PTL DEF ThreadSpec

----------------------------------------------------------------------------
(* The hub.                                                                *)

(* Open sockets are in the list; whoever was listed has connected; only    *)
(* broken sockets are stale; only a broadcast has sockets to send to, and  *)
(* a request under way has a message.                                      *)
HubFollows ==
  /\ \A w \in Sockets : socket[w] = "open" => w \in hub
  /\ \A w \in hub \cup fetched : socket[w] # "new"
  /\ \A p \in Posts : \A w \in post[p].todo : socket[w] # "new"
  /\ \A p \in Posts : \A w \in post[p].stale : socket[w] \in {"gone", "left"}
  /\ \A p \in Posts : post[p].pc # "send" => post[p].todo = {}
  /\ \A p \in Posts : post[p].pc # "free" => post[p].m \in Posted

HubInv == HubTypeOK /\ HubFollows /\ NothingMissed

LEMMA HubInitInv == HubInit => HubInv
  <1> SUFFICES ASSUME HubInit PROVE HubInv
    OBVIOUS
  <1>1. HubTypeOK
    BY MaxPostedAssumption DEF HubInit, HubTypeOK, NoPost, Post
  <1>2. HubFollows /\ NothingMissed
    BY DEF HubInit, HubFollows, NothingMissed, NoPost
  <1> QED BY <1>1, <1>2 DEF HubInv

Carries(request, m, w) ==
  request.m = m /\ (request.pc = "inserted" \/ w \in request.todo)

(* A request goes from one statement to the next.                          *)
LEMMA PostGoesOn ==
  ASSUME HubInv, NEW p \in Posts, NEW new \in Post,
         post' = [post EXCEPT ![p] = new],
         UNCHANGED <<socket, fetched>>,
         \A w \in Sockets : socket[w] = "open" => w \in hub',
         hub' \subseteq hub,
         \A w \in new.todo : socket[w] # "new",
         \A w \in new.stale : socket[w] \in {"gone", "left"},
         new.pc # "send" => new.todo = {},
         new.pc # "free" => new.m \in Posted,
         posted' \in 0..MaxPosted, dropped' \subseteq Posted,
         shown' \in [Sockets -> SUBSET Posted],
         \A w \in Sockets : shown[w] \subseteq shown'[w],
         dropped \subseteq dropped',
         \A w \in Sockets, m \in 1..posted' :
           socket[w] = "open" =>
             \/ m \in shown'[w] \cup dropped'
             \/ m \in 1..posted /\ ~Carries(post[p], m, w)
             \/ Carries(new, m, w)
  PROVE  HubInv'
  <1>0. HubTypeOK /\ HubFollows /\ NothingMissed
    BY DEF HubInv
  <1>1. /\ post'[p] = new
        /\ \A q \in Posts \ {p} : post'[q] = post[q]
        /\ post' \in [Posts -> Post]
    BY <1>0 DEF HubTypeOK
  <1>2. HubTypeOK'
    BY <1>0, <1>1 DEF HubTypeOK
  <1>3. HubFollows'
    BY <1>0, <1>1 DEF HubFollows
  <1>4. NothingMissed'
    <2> SUFFICES ASSUME NEW w \in fetched, socket[w] = "open",
                        NEW m \in 1..posted', m \notin shown'[w] \cup dropped'
                 PROVE  OnItsWay(m, w)'
      BY DEF NothingMissed
    <2>1. w \in Sockets
      BY <1>0 DEF HubTypeOK
    <2>2. CASE m \in 1..posted /\ ~Carries(post[p], m, w)
      <3>1. OnItsWay(m, w)
        BY <1>0, <2>1, <2>2 DEF NothingMissed
      <3>2. PICK q \in Posts : Carries(post[q], m, w)
        BY <3>1 DEF OnItsWay, AtPost, Carries
      <3>3. q # p
        BY <2>2, <3>2
      <3> QED BY <1>1, <3>2, <3>3 DEF OnItsWay, AtPost, Carries
    <2>3. CASE Carries(new, m, w)
      BY <1>1, <2>3 DEF OnItsWay, AtPost, Carries
    <2> QED BY <2>1, <2>2, <2>3
  <1> QED BY <1>2, <1>3, <1>4 DEF HubInv

LEMMA HubInvNext == HubInv /\ [HubNext]_hubVars => HubInv'
  <1> SUFFICES ASSUME HubInv, [HubNext]_hubVars PROVE HubInv'
    OBVIOUS
  <1>0. HubTypeOK /\ HubFollows /\ NothingMissed
    BY DEF HubInv
  <1>1. posted \in Nat /\ MaxPosted \in Nat
    BY <1>0, MaxPostedAssumption DEF HubTypeOK
  <1>2. /\ NoPost \in Post /\ NoPost.pc = "free" /\ NoPost.todo = {}
        /\ NoPost.stale = {}
    BY <1>1 DEF NoPost, Post
  <1>3. ASSUME NEW p \in Posts, InsertMessage(p) PROVE HubInv'
    <2> DEFINE new == [NoPost EXCEPT !.pc = "inserted", !.m = posted + 1]
    <2>1. /\ post[p].pc = "free" /\ posted < MaxPosted /\ posted' = posted + 1
          /\ post' = [post EXCEPT ![p] = new]
          /\ UNCHANGED <<hub, socket, fetched, shown, dropped>>
      BY <1>3 DEF InsertMessage, AtPost
    <2>2. posted + 1 \in 0..MaxPosted /\ posted + 1 \in Posted
      BY <1>1, <2>1 DEF Posted
    <2>3. /\ new \in Post /\ new.pc = "inserted" /\ new.m = posted + 1
          /\ new.todo = {} /\ new.stale = {}
      BY <2>2 DEF NoPost, Post
    <2> HIDE DEF new
    <2>4. ASSUME NEW m \in 1..posted', NEW w \in Sockets
          PROVE  \/ m \in 1..posted /\ ~Carries(post[p], m, w)
                 \/ Carries(new, m, w)
      BY <1>0, <1>1, <2>1, <2>3 DEF Carries, HubFollows
    <2>5. /\ posted' \in 0..MaxPosted
          /\ dropped' \subseteq Posted /\ dropped \subseteq dropped'
          /\ shown' \in [Sockets -> SUBSET Posted]
          /\ \A w \in Sockets : shown[w] \subseteq shown'[w]
          /\ \A w \in Sockets : socket[w] = "open" => w \in hub'
          /\ hub' \subseteq hub
      BY <1>0, <2>1, <2>2 DEF HubTypeOK, HubFollows
    <2>6. /\ \A w \in new.todo : socket[w] # "new"
          /\ \A w \in new.stale : socket[w] \in {"gone", "left"}
          /\ new.m \in Posted
      BY <2>2, <2>3
    <2>7. \A w \in Sockets, m \in 1..posted' :
            socket[w] = "open" =>
              \/ m \in 1..posted /\ ~Carries(post[p], m, w)
              \/ Carries(new, m, w)
      BY <2>4
    <2>8. new \in Post /\ new.todo = {}
      BY <2>3
    <2>9. post' = [post EXCEPT ![p] = new] /\ UNCHANGED <<socket, fetched>>
      BY <2>1
    <2> QED BY <2>5, <2>6, <2>7, <2>8, <2>9, PostGoesOn
  (* A request that ends.                                                  *)
  <1>4. ASSUME NEW p \in Posts, EndPost(p), post[p].todo = {},
               UNCHANGED <<posted, socket, fetched, shown>>,
               \A w \in Sockets : socket[w] = "open" => w \in hub',
               hub' \subseteq hub, dropped \subseteq dropped',
               \/ post[p].pc # "inserted" /\ dropped' = dropped
               \/ hub = {} /\ dropped' = dropped
               \/ post[p].pc # "free" /\ dropped' = dropped \cup {post[p].m}
        PROVE  HubInv'
    <2>1. dropped' \subseteq Posted
      BY <1>0, <1>4 DEF HubTypeOK, HubFollows
    <2>2. ASSUME NEW m \in 1..posted', NEW w \in Sockets, socket[w] = "open"
          PROVE  \/ m \in shown'[w] \cup dropped'
                 \/ m \in 1..posted /\ ~Carries(post[p], m, w)
      <3>1. m \in 1..posted /\ m \in Posted /\ w \in hub
        BY <1>0, <1>1, <1>4, <2>2 DEF HubTypeOK, HubFollows, Posted
      <3> QED BY <1>4, <3>1 DEF Carries
    <2> QED BY <1>0, <1>2, <1>4, <2>1, <2>2, PostGoesOn DEF HubTypeOK, EndPost
  <1>5. ASSUME NEW p \in Posts, PostRaises(p) PROVE HubInv'
    <2>1. post[p].pc = "inserted" /\ post[p].todo = {} /\ post[p] \in Post
      BY <1>0, <1>5 DEF PostRaises, AtPost, HubFollows, HubTypeOK
    <2> QED BY <1>0, <1>4, <1>5, <2>1 DEF PostRaises, HubFollows
  <1>6. ASSUME NEW p \in Posts, Snapshot(p) PROVE HubInv'
    <2>1. post[p].pc = "inserted" /\ post[p].todo = {}
      BY <1>0, <1>6 DEF Snapshot, AtPost, HubFollows
    <2>2. CASE hub = {}
      BY <1>0, <1>4, <1>6, <2>1, <2>2 DEF Snapshot, HubFollows
    <2>3. CASE hub # {}
      <3> DEFINE new == [post[p] EXCEPT !.pc = "send", !.todo = hub]
      <3>1. /\ post' = [post EXCEPT ![p] = new]
            /\ UNCHANGED <<posted, hub, socket, fetched, shown, dropped>>
        BY <1>0, <1>6, <2>3 DEF Snapshot, HubTypeOK
      <3>2. /\ new \in Post /\ new.pc = "send" /\ new.m = post[p].m
            /\ new.todo = hub /\ new.stale = post[p].stale
        BY <1>0 DEF HubTypeOK, Post
      <3> HIDE DEF new
      <3>3. ASSUME NEW m, NEW w \in Sockets, socket[w] = "open",
                   Carries(post[p], m, w)
            PROVE  Carries(new, m, w)
        BY <1>0, <3>2, <3>3 DEF Carries, HubFollows
      <3>4. /\ \A w \in new.todo : socket[w] # "new"
            /\ \A w \in new.stale : socket[w] \in {"gone", "left"}
            /\ new.m \in Posted
            /\ \A w \in Sockets : socket[w] = "open" => w \in hub'
        BY <1>0, <2>1, <3>1, <3>2 DEF HubFollows
      <3>5. /\ posted' \in 0..MaxPosted
            /\ dropped' \subseteq Posted /\ dropped \subseteq dropped'
            /\ shown' \in [Sockets -> SUBSET Posted]
            /\ \A w \in Sockets : shown[w] \subseteq shown'[w]
            /\ hub' \subseteq hub
        BY <1>0, <3>1 DEF HubTypeOK
      <3>6. \A w \in Sockets, m \in 1..posted' :
              socket[w] = "open" =>
                \/ m \in 1..posted /\ ~Carries(post[p], m, w)
                \/ Carries(new, m, w)
        BY <3>1, <3>3
      <3> QED BY <3>1, <3>2, <3>4, <3>5, <3>6, PostGoesOn
    <2> QED BY <2>2, <2>3
  <1>7. ASSUME NEW p \in Posts, SendNext(p) PROVE HubInv'
    <2>1. PICK w \in post[p].todo :
            /\ \/ post' = [post EXCEPT ![p].todo = @ \ {w}]
               \/ /\ socket[w] # "open"
                  /\ post' = [[post EXCEPT ![p].todo = @ \ {w}]
                                EXCEPT ![p].stale = @ \cup {w}]
            /\ \/ /\ socket[w] = "open"
                  /\ shown' = [shown EXCEPT ![w] = @ \cup {post[p].m}]
               \/ socket[w] # "open" /\ UNCHANGED shown
      BY <1>7 DEF SendNext
    <2>2. /\ post[p].pc = "send" /\ post[p].m \in Posted /\ post[p] \in Post
          /\ w \in Sockets /\ socket[w] \in {"open", "gone", "left"}
          /\ UNCHANGED <<posted, hub, socket, fetched, dropped>>
      BY <1>0, <1>7, <2>1 DEF SendNext, AtPost, HubTypeOK, HubFollows, Post
    <2>3. PICK new \in Post :
            /\ post' = [post EXCEPT ![p] = new]
            /\ new.pc = "send" /\ new.m = post[p].m /\ new.todo = post[p].todo \ {w}
            /\ \/ new.stale = post[p].stale
               \/ socket[w] # "open" /\ new.stale = post[p].stale \cup {w}
      <3>1. CASE post' = [post EXCEPT ![p].todo = @ \ {w}]
        <4> DEFINE new == [post[p] EXCEPT !.todo = @ \ {w}]
        <4>1. post' = [post EXCEPT ![p] = new]
          BY <1>0, <3>1 DEF HubTypeOK
        <4>2. /\ new \in Post /\ new.pc = "send" /\ new.m = post[p].m
              /\ new.todo = post[p].todo \ {w} /\ new.stale = post[p].stale
          BY <2>2 DEF Post
        <4> QED BY <4>1, <4>2
      <3>2. CASE /\ socket[w] # "open"
                 /\ post' = [[post EXCEPT ![p].todo = @ \ {w}]
                               EXCEPT ![p].stale = @ \cup {w}]
        <4> DEFINE new == [post[p] EXCEPT !.todo = @ \ {w}, !.stale = @ \cup {w}]
        <4>1. post' = [post EXCEPT ![p] = new]
          BY <1>0, <2>2, <3>2 DEF HubTypeOK, Post
        <4>2. /\ new \in Post /\ new.pc = "send" /\ new.m = post[p].m
              /\ new.todo = post[p].todo \ {w}
              /\ new.stale = post[p].stale \cup {w}
          BY <2>2 DEF Post
        <4> HIDE DEF new
        <4> QED BY <3>2, <4>1, <4>2
      <3> QED BY <2>1, <3>1, <3>2
    <2>4. /\ shown' \in [Sockets -> SUBSET Posted]
          /\ \A v \in Sockets : shown[v] \subseteq shown'[v]
          /\ socket[w] = "open" => post[p].m \in shown'[w]
      BY <1>0, <2>1, <2>2 DEF HubTypeOK
    <2>5. ASSUME NEW m \in 1..posted', NEW v \in Sockets, socket[v] = "open",
                 Carries(post[p], m, v), ~Carries(new, m, v)
          PROVE  m \in shown'[v]
      BY <2>2, <2>3, <2>4, <2>5 DEF Carries
    <2>6. /\ \A v \in new.todo : socket[v] # "new"
          /\ \A v \in new.stale : socket[v] \in {"gone", "left"}
          /\ \A v \in Sockets : socket[v] = "open" => v \in hub'
      BY <1>0, <2>2, <2>3 DEF HubFollows
    <2>7. /\ posted' \in 0..MaxPosted /\ posted' = posted
          /\ dropped' \subseteq Posted /\ dropped \subseteq dropped'
          /\ UNCHANGED <<socket, fetched>> /\ hub' \subseteq hub
      BY <1>0, <2>2 DEF HubTypeOK
    <2> QED BY <2>2, <2>3, <2>4, <2>5, <2>6, <2>7, PostGoesOn
  <1>8. ASSUME NEW p \in Posts, EndSending(p) PROVE HubInv'
    <2>1. post[p].pc = "send" /\ post[p].todo = {}
          /\ UNCHANGED <<posted, hub, socket, fetched, shown, dropped>>
      BY <1>8 DEF EndSending, AtPost
    <2>2. CASE EndPost(p)
      BY <1>0, <1>4, <2>1, <2>2 DEF HubFollows
    <2>3. CASE post' = [post EXCEPT ![p].pc = "clean"]
      <3> DEFINE new == [post[p] EXCEPT !.pc = "clean"]
      <3>1. /\ post' = [post EXCEPT ![p] = new]
            /\ new \in Post /\ new.pc = "clean" /\ new.m = post[p].m
            /\ new.todo = {} /\ new.stale = post[p].stale
        BY <1>0, <2>1, <2>3 DEF HubTypeOK, Post
      <3> HIDE DEF new
      <3>2. \A m \in 1..posted, w \in Sockets : ~Carries(post[p], m, w)
        BY <2>1 DEF Carries
      <3> QED BY <1>0, <2>1, <3>1, <3>2, PostGoesOn DEF HubTypeOK, HubFollows
    <2> QED BY <1>8, <2>2, <2>3 DEF EndSending
  <1>9. ASSUME NEW p \in Posts, CleanStale(p) PROVE HubInv'
    <2>1. /\ post[p].pc = "clean" /\ post[p].todo = {}
          /\ hub' = hub \ post[p].stale /\ EndPost(p)
          /\ UNCHANGED <<posted, socket, fetched, shown, dropped>>
      BY <1>0, <1>9 DEF CleanStale, AtPost, HubFollows, Cleaned
    <2>2. \A w \in Sockets : socket[w] = "open" => w \in hub'
      BY <1>0, <2>1 DEF HubFollows
    <2> QED BY <1>4, <2>1, <2>2
  (* Connections: who is on a message's way stays on it.                   *)
  <1>10. ASSUME UNCHANGED <<posted, post, dropped>>,
                HubTypeOK', HubFollows',
                \A w \in Sockets : shown[w] \subseteq shown'[w],
                \A w \in fetched' : socket'[w] = "open" =>
                  \/ w \in fetched /\ socket[w] = "open"
                  \/ 1..posted \subseteq shown'[w]
         PROVE  HubInv'
    <2>1. NothingMissed'
      <3> SUFFICES ASSUME NEW w \in fetched', socket'[w] = "open",
                          NEW m \in 1..posted, m \notin shown'[w] \cup dropped
                   PROVE  OnItsWay(m, w)'
        BY <1>10 DEF NothingMissed
      <3>1. w \in fetched /\ socket[w] = "open" /\ m \notin shown[w]
        BY <1>10 DEF HubTypeOK
      <3> QED BY <1>0, <1>10, <3>1 DEF NothingMissed, OnItsWay, AtPost
    <2> QED BY <1>10, <2>1 DEF HubInv
  <1>11. ASSUME NEW w \in Sockets, Connect(w) PROVE HubInv'
    <2>1. /\ socket[w] = "new" /\ socket' = [socket EXCEPT ![w] = "open"]
          /\ hub' = hub \cup {w}
          /\ UNCHANGED <<posted, post, fetched, shown, dropped>>
      BY <1>11 DEF Connect
    <2>2. w \notin fetched
      BY <1>0, <2>1 DEF HubFollows
    <2>3. HubTypeOK'
      BY <1>0, <2>1 DEF HubTypeOK
    <2>4. HubFollows'
      BY <1>0, <2>1 DEF HubTypeOK, HubFollows
    <2> QED BY <1>0, <1>10, <2>1, <2>2, <2>3, <2>4 DEF HubTypeOK
  <1>12. ASSUME NEW w \in Sockets, FetchMessages(w) PROVE HubInv'
    <2>1. 1..posted \subseteq Posted
      BY <1>0, <1>1 DEF HubTypeOK, Posted
    <2>2. HubTypeOK'
      BY <1>0, <1>12, <2>1 DEF FetchMessages, HubTypeOK
    <2>3. HubFollows'
      BY <1>0, <1>12 DEF FetchMessages, HubFollows
    <2> QED BY <1>0, <1>10, <1>12, <2>2, <2>3 DEF FetchMessages, HubTypeOK
  <1>13. ASSUME NEW w \in Sockets, ClientGoes(w) PROVE HubInv'
    BY <1>0, <1>10, <1>13 DEF ClientGoes, HubTypeOK, HubFollows
  <1>14. ASSUME NEW w \in Sockets, Disconnect(w) PROVE HubInv'
    BY <1>0, <1>10, <1>14 DEF Disconnect, Left, HubTypeOK, HubFollows
  <1>15. ASSUME Restart PROVE HubInv'
    <2>1. /\ hub' = {} /\ post' = [p \in Posts |-> NoPost]
          /\ socket' = [w \in Sockets |->
               IF socket[w] = "new" THEN "new" ELSE "left"]
          /\ dropped' = dropped \cup {post[p].m : p \in {q \in Posts : ~AtPost(q, "free")}}
          /\ UNCHANGED <<posted, fetched, shown>>
      BY <1>15 DEF Restart
    <2>2. dropped' \subseteq Posted
      BY <1>0, <2>1 DEF HubTypeOK, HubFollows, AtPost
    <2>3. HubTypeOK'
      BY <1>0, <1>2, <2>1, <2>2 DEF HubTypeOK
    <2> QED BY <1>2, <2>1, <2>3 DEF HubInv, HubFollows, NothingMissed, HubTypeOK
  <1>16. CASE UNCHANGED hubVars
    BY <1>0, <1>16
       DEF hubVars, HubInv, HubTypeOK, HubFollows, NothingMissed, OnItsWay, AtPost
  <1> QED BY <1>3, <1>5, <1>6, <1>7, <1>8, <1>9, <1>11, <1>12, <1>13, <1>14,
             <1>15, <1>16 DEF HubNext, PostStep

(* A client whose socket is open and which has loaded the thread shows     *)
(* every message, except those whose request raised and those still on     *)
(* their way to it, however broadcasts and connections mix.                *)
THEOREM NoMessageMissed == HubSpec => []NothingMissed
  <1>1. HubInv => NothingMissed
    BY DEF HubInv
  <1> QED BY <1>1, HubInitInv, HubInvNext, PTL DEF HubSpec

----------------------------------------------------------------------------
(* Support threads.                                                        *)

LEMMA FirstNumber ==
  ASSUME NEW T, T \subseteq Nat, T # {}
  PROVE  \E n \in T : \A m \in T : n <= m
  <1>1. PICK n \in T : \A m \in T : ~(<<m, n>> \in OpToRel(<, Nat))
    BY WFMin, NatLessThanWellFounded
  <1>2. \A m \in Nat : m < n => <<m, n>> \in OpToRel(<, Nat)
    BY DEF OpToRel
  <1>3. \A m \in T : ~(m < n) /\ m \in Nat /\ n \in Nat
    BY <1>1, <1>2, Zenon
  <1>4. \A m \in T : n <= m
    BY <1>3
  <1> QED BY <1>4

(* Threads the user sees.                                                  *)
SeenIn(table) == {x \in Threads : table[x].joined /\ ~table[x].archived}

(* Threads are numbered as they are created, and recent lists them all.    *)
ThreadsListed ==
  /\ Range(recent) = 1..Len(recent) /\ Len(recent) <= MaxThreads
  /\ \A x \in Threads :
       thread[x].joined \/ thread[x].archived \/ thread[x].ticket # "none"
         => x \in 1..Len(recent)
  /\ given \subseteq 1..Len(recent)
  /\ \A r \in SupportCalls :
       /\ serve[r].pc \notin {"free", "insert thread"}
            => serve[r].t \in 1..Len(recent)
       /\ serve[r].pc \in {"close", "archive"} =>
            serve[r].todo # {} /\ serve[r].todo \subseteq 1..Len(recent)

(* How far a request that nothing has overlapped has come.                 *)
Healing(request, table) ==
  LET t    == request.t
      view == SeenIn(table)
      open == table[t].ticket = "open"
  IN
  /\ request.pc # "free"
  /\ request.pc = "adopt" =>
       t \in view /\ (request.own <=> table[t].ticket # "none")
  /\ request.pc \in {"join", "duplicates"} => t \in view /\ open
  /\ request.pc \in {"close", "archive"} =>
       /\ t \in view /\ t \notin request.todo /\ open
       /\ view \subseteq {t} \cup request.todo
  /\ request.pc \in {"insert thread", "insert ticket", "join new"} => view = {}
  /\ request.pc \in {"insert ticket", "join new"} => ~table[t].archived
  /\ request.pc = "join new" => open
  /\ request.pc = "return" => view = {t} /\ open

AloneHeals ==
  \A r \in SupportCalls :
    serve[r].alone =>
      /\ \A q \in SupportCalls \ {r} : serve[q].pc = "free"
      /\ Healing(serve[r], thread)

(* A request that is about to return the thread given before.              *)
Finds(request, t) ==
  request.pc # "free" =>
    request.pc \in {"adopt", "join", "duplicates", "return"} /\ request.t = t

(* Without overlaps every request is alone, and once a thread has been     *)
(* returned it is the one that is found again.                             *)
OneThread ==
  ~overlapped =>
    /\ \A r \in SupportCalls : serve[r].pc # "free" => serve[r].alone
    /\ \A t \in given :
         /\ SeenIn(thread) = {t} /\ thread[t].ticket = "open"
         /\ \A r \in SupportCalls : Finds(serve[r], t)

SupportInv == SupportTypeOK /\ ThreadsListed /\ AloneHeals /\ OneThread

LEMMA SupportBounds == MaxThreads \in Nat /\ MaxThreads > 0 /\ 1 \in Threads
  BY MaxThreadsAssumption DEF Threads

LEMMA NoServeType ==
  /\ NoServe \in Serve /\ NoServe.pc = "free" /\ ~NoServe.alone
  /\ NoServe.todo = {}
  BY SupportBounds DEF NoServe, Serve, ServePC

LEMMA SupportInitInv == SupportInit => SupportInv
  <1> SUFFICES ASSUME SupportInit PROVE SupportInv
    OBVIOUS
  <1>1. PICK legacy \in 0..MaxThreads :
          /\ thread = [t \in Threads |->
               IF t <= legacy THEN [Fresh EXCEPT !.joined = TRUE, !.touched = TRUE]
               ELSE Fresh]
          /\ recent = Reverse([i \in 1..legacy |-> i])
    BY DEF SupportInit
  <1>2. /\ recent \in Seq(Threads) /\ Len(recent) = legacy
        /\ Range(recent) = 1..legacy
    <2>1. legacy \in Nat /\ legacy <= MaxThreads /\ MaxThreads \in Nat
      BY <1>1, SupportBounds
    <2>2. recent = [i \in 1..legacy |-> legacy - i + 1]
      BY <1>1, <2>1 DEF Reverse
    <2>3. recent \in Seq(Threads) /\ Len(recent) = legacy
      BY <2>1, <2>2 DEF Threads
    <2>4. \A x \in 1..legacy : legacy - x + 1 \in 1..legacy /\ recent[legacy - x + 1] = x
      BY <2>1, <2>2
    <2>5. \A i \in 1..legacy : recent[i] \in 1..legacy
      BY <2>1, <2>2
    <2>6. DOMAIN recent = 1..legacy
      BY <2>2
    <2> QED BY <2>3, <2>4, <2>5, <2>6 DEF Range
  <1>3. ASSUME NEW x \in Threads
        PROVE  /\ thread[x] \in SupportThread
               /\ ~thread[x].archived /\ thread[x].ticket = "none"
               /\ thread[x].joined => x <= legacy
    BY <1>1 DEF Fresh, SupportThread
  <1>4. SupportTypeOK
    BY <1>1, <1>2, <1>3, NoServeType DEF SupportInit, SupportTypeOK
  <1>5. ThreadsListed
    <2>1. \A x \in Threads : thread[x].joined => x \in 1..legacy
      BY <1>1, <1>3, SupportBounds DEF Threads
    <2>2. Range(recent) = 1..Len(recent) /\ Len(recent) <= MaxThreads
      BY <1>1, <1>2, SupportBounds
    <2>3. \A x \in Threads :
            thread[x].joined \/ thread[x].archived \/ thread[x].ticket # "none"
              => x \in 1..Len(recent)
      BY <1>2, <1>3, <2>1
    <2>4. given = {} /\ \A r \in SupportCalls : serve[r].pc = "free"
      BY NoServeType DEF SupportInit
    <2> QED BY <2>2, <2>3, <2>4 DEF ThreadsListed
  <1>6. AloneHeals /\ OneThread
    BY NoServeType DEF SupportInit, AloneHeals, OneThread
  <1> QED BY <1>4, <1>5, <1>6 DEF SupportInv

LEMMA ListedThreads ==
  ASSUME SupportTypeOK, ThreadsListed
  PROVE  /\ recent \in Seq(Threads) /\ Len(recent) \in Nat
         /\ DOMAIN recent = 1..Len(recent) /\ Len(recent) <= MaxThreads
         /\ \A x \in 1..Len(recent) : x \in Threads
  <1>1. recent \in Seq(Threads) /\ Len(recent) <= MaxThreads
    BY DEF SupportTypeOK, ThreadsListed
  <1>2. Len(recent) \in Nat /\ DOMAIN recent = 1..Len(recent)
    BY <1>1
  <1> DEFINE n == Len(recent)
  <1>3. n \in Nat /\ n <= MaxThreads
    BY <1>1, <1>2
  <1> HIDE DEF n
  <1>4. \A x \in 1..n : x \in Threads
    BY <1>3, SupportBounds DEF Threads
  <1> QED BY <1>1, <1>2, <1>4 DEF n

LEMMA CandidatesSeen ==
  ASSUME SupportTypeOK, ThreadsListed
  PROVE  Candidates = SeenIn(thread)
  <1>1. \A x \in 1..Len(recent) : x \in Threads
    BY ListedThreads
  <1>2. /\ Range(recent) = 1..Len(recent)
        /\ \A x \in Threads : thread[x].joined => x \in 1..Len(recent)
    BY DEF ThreadsListed
  <1> QED BY <1>1, <1>2 DEF Candidates, SeenIn, InView

(* Activity changes the order of the threads, nothing else.                *)
LEMMA FirstStaysListed ==
  ASSUME SupportTypeOK, ThreadsListed, NEW t \in 1..Len(recent)
  PROVE  /\ First(t) \in Seq(Threads) /\ Len(First(t)) = Len(recent)
         /\ Range(First(t)) = 1..Len(recent)
  <1> DEFINE n == Len(recent)
             p == Place(t)
             new == First(t)
  <1>1. /\ n \in Nat /\ recent \in Seq(Threads) /\ DOMAIN recent = 1..n
        /\ \A x \in 1..n : x \in Threads
    BY ListedThreads
  <1>2. /\ \A i \in 1..n : recent[i] \in 1..n
        /\ \A x \in 1..n : \E i \in 1..n : recent[i] = x
    BY <1>1 DEF ThreadsListed, Range
  <1>3. p \in 1..n /\ recent[p] = t
    BY <1>1, <1>2 DEF Place
  <1>4. new = [i \in 1..n |->
          IF i = 1 THEN t ELSE IF i <= p THEN recent[i - 1] ELSE recent[i]]
    BY <1>1 DEF First
  <1> HIDE DEF n, p, new
  <1>5. ASSUME NEW i \in 1..n PROVE new[i] \in 1..n
    <2>1. CASE i = 1
      BY <1>1, <1>3, <1>4, <2>1, t \in 1..n DEF n
    <2>2. CASE i # 1 /\ i <= p
      <3>1. i - 1 \in 1..n
        BY <1>1, <1>3, <2>2
      <3> QED BY <1>2, <1>4, <2>2, <3>1
    <2>3. CASE i # 1 /\ ~(i <= p)
      BY <1>2, <1>4, <2>3
    <2> QED BY <2>1, <2>2, <2>3
  <1>6. ASSUME NEW x \in 1..n PROVE \E i \in 1..n : new[i] = x
    <2>1. PICK j \in 1..n : recent[j] = x
      BY <1>2
    <2>2. CASE x = t
      <3>1. 1 \in 1..n
        BY <1>1, <1>3
      <3>2. new[1] = t
        BY <1>4, <3>1
      <3> QED BY <2>2, <3>1, <3>2
    <2>3. CASE x # t /\ j < p
      <3>1. j + 1 \in 1..n /\ j + 1 # 1 /\ j + 1 <= p /\ (j + 1) - 1 = j
        BY <1>1, <1>3, <2>1, <2>3
      <3>2. new[j + 1] = recent[j]
        BY <1>4, <3>1
      <3> QED BY <2>1, <3>1, <3>2
    <2>4. CASE x # t /\ ~(j < p)
      <3>1. j # p /\ ~(j <= p) /\ j # 1
        BY <1>1, <1>3, <2>1, <2>4
      <3>2. new[j] = recent[j]
        BY <1>4, <3>1
      <3> QED BY <2>1, <3>2
    <2> QED BY <2>2, <2>3, <2>4
  <1>7. new \in Seq(Threads) /\ Len(new) = n /\ DOMAIN new = 1..n
    BY <1>1, <1>4, <1>5
  <1>8. Range(new) = 1..n
    BY <1>5, <1>6, <1>7 DEF Range
  <1> QED BY <1>7, <1>8 DEF n, new

LEMMA UpdatedStaysListed ==
  ASSUME SupportTypeOK, ThreadsListed, NEW t \in 1..Len(recent)
  PROVE  /\ Updated(t) \in Seq(Threads) /\ Len(Updated(t)) = Len(recent)
         /\ Range(Updated(t)) = 1..Len(recent)
  BY FirstStaysListed DEF Updated, SupportTypeOK, ThreadsListed

(* The search finds one of the threads it looks through.                   *)
LEMMA CanonicalIsCandidate ==
  ASSUME SupportTypeOK, ThreadsListed, Candidates # {}
  PROVE  Canonical \in Candidates
  <1> DEFINE Better(t, x) == \/ Rank(t) < Rank(x)
                             \/ Rank(t) = Rank(x) /\ Place(t) < Place(x)
  <1>1. \A x \in Candidates : x \in Threads /\ x \in Range(recent)
    BY CandidatesSeen DEF SeenIn, Candidates
  <1>2. ASSUME NEW x \in Candidates
        PROVE  /\ Rank(x) \in Nat
               /\ Place(x) \in Nat /\ recent[Place(x)] = x
    <2>1. thread[x].ticket \in {"none", "open", "closed"}
      BY <1>1 DEF SupportTypeOK, SupportThread
    <2>2. Rank(x) \in Nat
      BY <2>1 DEF Rank
    <2>3. \E i \in DOMAIN recent : recent[i] = x
      BY <1>1 DEF Range
    <2>4. Place(x) \in DOMAIN recent /\ recent[Place(x)] = x
      BY <2>3 DEF Place
    <2>5. \A i \in DOMAIN recent : i \in Nat
      BY ListedThreads
    <2> QED BY <2>2, <2>4, <2>5
  <1>3. PICK rank \in {Rank(x) : x \in Candidates} :
          \A x \in Candidates : rank <= Rank(x)
    <2> DEFINE T == {Rank(x) : x \in Candidates}
    <2>1. T \subseteq Nat /\ T # {}
      BY <1>2
    <2> HIDE DEF T
    <2>2. \E n \in T : \A m \in T : n <= m
      BY <2>1, FirstNumber
    <2> QED BY <2>2 DEF T
  <1> DEFINE best == {x \in Candidates : Rank(x) = rank}
             P    == {Place(x) : x \in best}
  <1>4. P \subseteq Nat /\ P # {}
    BY <1>2, <1>3
  <1>5. \E n \in P : \A m \in P : n <= m
    <2> HIDE DEF P
    <2> QED BY <1>4, FirstNumber
  <1>6. PICK t \in best : \A x \in best : Place(t) <= Place(x)
    BY <1>5
  <1>7. ASSUME NEW x \in Candidates \ {t} PROVE Better(t, x)
    <2>1. t \in Candidates /\ Rank(t) = rank /\ x \in Candidates /\ x # t
      BY <1>6
    <2>2. Rank(t) <= Rank(x) /\ Rank(t) \in Nat /\ Rank(x) \in Nat
      BY <1>2, <1>3, <2>1
    <2>3. CASE Rank(t) = Rank(x)
      <3>1. Place(t) <= Place(x)
        BY <1>6, <2>1, <2>3
      <3>2. Place(t) # Place(x) /\ Place(t) \in Nat /\ Place(x) \in Nat
        BY <1>2, <2>1
      <3>3. Place(t) < Place(x)
        BY <3>1, <3>2
      <3> QED BY <2>3, <3>3
    <2>4. CASE Rank(t) # Rank(x)
      BY <2>2, <2>4
    <2> QED BY <2>3, <2>4
  <1>8. \E y \in Candidates : \A x \in Candidates \ {y} : Better(y, x)
    BY <1>6, <1>7
  <1> HIDE DEF Better
  <1>9. Canonical = CHOOSE y \in Candidates :
                      \A x \in Candidates \ {y} : Better(y, x)
    BY DEF Canonical, Better
  <1> QED BY <1>8, <1>9

----------------------------------------------------------------------------
(* What a step of a request has to show: where it leaves the request, what *)
(* it leaves in the tables, and, if nothing overlaps it, that it heals.    *)

TablesListed(table, number) ==
  \A x \in Threads :
    table[x].joined \/ table[x].archived \/ table[x].ticket # "none"
      => x \in 1..number

RequestListed(request, number) ==
  /\ request.pc \notin {"free", "insert thread"} => request.t \in 1..number
  /\ request.pc \in {"close", "archive"} =>
       request.todo # {} /\ request.todo \subseteq 1..number

KeepsGiven(request, table) ==
  \A t \in given :
    /\ SeenIn(table) = {t} /\ table[t].ticket = "open"
    /\ Finds(request, t)

LEMMA CallGoesOn ==
  ASSUME SupportInv, NEW r \in SupportCalls, serve[r].pc # "free",
         NEW new \in Serve, serve' = [serve EXCEPT ![r] = new],
         thread' \in [Threads -> SupportThread],
         recent' \in Seq(Threads), Range(recent') = 1..Len(recent'),
         Len(recent') \in Len(recent)..MaxThreads,
         UNCHANGED <<given, spoken, overlapped>>,
         TablesListed(thread', Len(recent')),
         RequestListed(new, Len(recent')),
         new.alone => serve[r].alone /\ Healing(new, thread'),
         serve[r].alone /\ new.pc # "free" => new.alone,
         serve[r].alone /\ KeepsGiven(serve[r], thread)
           => KeepsGiven(new, thread')
  PROVE  SupportInv'
  <1>1. SupportTypeOK /\ ThreadsListed /\ AloneHeals /\ OneThread
    BY DEF SupportInv
  <1>2. /\ Len(recent) \in Nat /\ Len(recent') \in Nat /\ MaxThreads \in Nat
        /\ Len(recent) <= Len(recent') /\ Len(recent') <= MaxThreads
    BY <1>1, SupportBounds, ListedThreads
  <1>3. serve' \in [SupportCalls -> Serve] /\ serve'[r] = new
    BY <1>1 DEF SupportTypeOK
  <1>4. \A q \in SupportCalls \ {r} : serve'[q] = serve[q]
    BY <1>1 DEF SupportTypeOK
  <1>5. SupportTypeOK'
    BY <1>1, <1>3 DEF SupportTypeOK
  <1>6. \A x \in 1..Len(recent) : x \in 1..Len(recent')
    BY <1>2
  <1>7. ThreadsListed'
    <2>1. given' \subseteq 1..Len(recent')
      BY <1>1, <1>6 DEF ThreadsListed
    <2>2. ASSUME NEW q \in SupportCalls
          PROVE  RequestListed(serve'[q], Len(recent'))
      <3>1. CASE q = r
        BY <1>3, <3>1
      <3>2. CASE q # r
        BY <1>1, <1>4, <1>6, <3>2 DEF ThreadsListed, RequestListed
      <3> QED BY <3>1, <3>2
    <2> QED BY <1>2, <2>1, <2>2 DEF ThreadsListed, TablesListed, RequestListed
  <1>8. AloneHeals'
    <2>1. \A q \in SupportCalls \ {r} : ~serve'[q].alone
      BY <1>1, <1>4 DEF AloneHeals
    <2>2. serve'[r].alone =>
            /\ \A q \in SupportCalls \ {r} : serve'[q].pc = "free"
            /\ Healing(serve'[r], thread')
      BY <1>1, <1>3, <1>4 DEF AloneHeals
    <2> QED BY <2>1, <2>2 DEF AloneHeals
  <1>9. OneThread'
    <2>1. SUFFICES ASSUME ~overlapped PROVE OneThread'
      BY DEF OneThread
    <2>2. /\ serve[r].alone
          /\ \A q \in SupportCalls \ {r} : serve'[q].pc = "free"
      BY <1>1, <1>4, <2>1 DEF OneThread, AloneHeals
    <2>3. KeepsGiven(serve[r], thread)
      BY <1>1, <2>1 DEF OneThread, KeepsGiven
    <2>4. KeepsGiven(new, thread')
      BY <2>2, <2>3
    <2>5. \A q \in SupportCalls : serve'[q].pc # "free" => serve'[q].alone
      BY <1>3, <2>2
    <2>6. \A t \in given, q \in SupportCalls : Finds(serve'[q], t)
      BY <1>3, <2>2, <2>4 DEF KeepsGiven, Finds
    <2> QED BY <2>4, <2>5, <2>6 DEF OneThread, KeepsGiven
  <1> QED BY <1>5, <1>7, <1>8, <1>9 DEF SupportInv

(* A request and its thread, before a step.                                *)
LEMMA CallHolds ==
  ASSUME SupportInv, NEW r \in SupportCalls
  PROVE  /\ serve[r] \in Serve /\ serve[r].t \in Threads
         /\ thread \in [Threads -> SupportThread]
         /\ recent \in Seq(Threads) /\ Range(recent) = 1..Len(recent)
         /\ Len(recent) \in Len(recent)..MaxThreads
         /\ TablesListed(thread, Len(recent))
         /\ RequestListed(serve[r], Len(recent))
         /\ serve[r].alone => Healing(serve[r], thread)
  <1>1. SupportTypeOK /\ ThreadsListed /\ AloneHeals
    BY DEF SupportInv
  <1>2. Len(recent) \in Nat /\ Len(recent) <= MaxThreads /\ MaxThreads \in Nat
    BY <1>1, ListedThreads, SupportBounds
  <1>3. serve[r] \in Serve /\ serve[r].t \in Threads
    BY <1>1 DEF SupportTypeOK, Serve
  <1>4. TablesListed(thread, Len(recent)) /\ RequestListed(serve[r], Len(recent))
    BY <1>1 DEF ThreadsListed, TablesListed, RequestListed
  <1>5. Len(recent) \in Len(recent)..MaxThreads
    BY <1>2
  <1> QED BY <1>1, <1>3, <1>4, <1>5 DEF SupportTypeOK, ThreadsListed, AloneHeals

(* What a statement of a request sets in the row of a thread.              *)
LEMMA RowSet ==
  ASSUME SupportInv, NEW t \in Threads, NEW row \in SupportThread,
         thread' = [thread EXCEPT ![t] = row]
  PROVE  /\ thread' \in [Threads -> SupportThread] /\ thread'[t] = row
         /\ \A x \in Threads \ {t} : thread'[x] = thread[x]
  BY DEF SupportInv, SupportTypeOK

LEMMA RowJoined ==
  ASSUME SupportInv, NEW t \in Threads,
         thread' = [thread EXCEPT ![t].joined = TRUE]
  PROVE  /\ thread' \in [Threads -> SupportThread]
         /\ \A x \in Threads : /\ thread'[x].archived = thread[x].archived
                               /\ thread'[x].ticket = thread[x].ticket
                               /\ thread'[x].joined = (thread[x].joined \/ x = t)
  <1> DEFINE row == [thread[t] EXCEPT !.joined = TRUE]
  <1>1. thread[t] \in SupportThread
    BY DEF SupportInv, SupportTypeOK
  <1>2. /\ row \in SupportThread /\ row.joined
        /\ row.archived = thread[t].archived /\ row.ticket = thread[t].ticket
    BY <1>1 DEF SupportThread
  <1>3. thread' = [thread EXCEPT ![t] = row]
    OBVIOUS
  <1>4. \A x \in Threads : thread[x].joined \in BOOLEAN
    BY DEF SupportInv, SupportTypeOK, SupportThread
  <1> HIDE DEF row
  <1>5. /\ thread' \in [Threads -> SupportThread] /\ thread'[t] = row
        /\ \A x \in Threads \ {t} : thread'[x] = thread[x]
    BY <1>2, <1>3, RowSet
  <1>6. row.joined = TRUE
    BY <1>2 DEF SupportThread
  <1>7. ASSUME NEW x \in Threads
        PROVE  /\ thread'[x].archived = thread[x].archived
               /\ thread'[x].ticket = thread[x].ticket
               /\ thread'[x].joined = (thread[x].joined \/ x = t)
    <2>1. CASE x = t
      BY <1>2, <1>5, <1>6, <2>1
    <2>2. CASE x # t
      BY <1>4, <1>5, <2>2
    <2> QED BY <2>1, <2>2
  <1> QED BY <1>5, <1>7

LEMMA RowArchived ==
  ASSUME SupportInv, NEW t \in Threads,
         thread' = [thread EXCEPT ![t].archived = TRUE]
  PROVE  /\ thread' \in [Threads -> SupportThread]
         /\ \A x \in Threads :
              /\ thread'[x].archived = (thread[x].archived \/ x = t)
              /\ thread'[x].joined = thread[x].joined
              /\ thread'[x].ticket = thread[x].ticket
  <1> DEFINE row == [thread[t] EXCEPT !.archived = TRUE]
  <1>1. thread[t] \in SupportThread
    BY DEF SupportInv, SupportTypeOK
  <1>2. /\ row \in SupportThread /\ row.archived
        /\ row.joined = thread[t].joined /\ row.ticket = thread[t].ticket
    BY <1>1 DEF SupportThread
  <1>3. thread' = [thread EXCEPT ![t] = row]
    OBVIOUS
  <1>4. \A x \in Threads : thread[x].archived \in BOOLEAN
    BY DEF SupportInv, SupportTypeOK, SupportThread
  <1> HIDE DEF row
  <1>5. /\ thread' \in [Threads -> SupportThread] /\ thread'[t] = row
        /\ \A x \in Threads \ {t} : thread'[x] = thread[x]
    BY <1>2, <1>3, RowSet
  <1>6. row.archived = TRUE
    BY <1>2 DEF SupportThread
  <1>7. ASSUME NEW x \in Threads
        PROVE  /\ thread'[x].archived = (thread[x].archived \/ x = t)
               /\ thread'[x].joined = thread[x].joined
               /\ thread'[x].ticket = thread[x].ticket
    <2>1. CASE x = t
      BY <1>2, <1>5, <1>6, <2>1
    <2>2. CASE x # t
      BY <1>4, <1>5, <2>2
    <2> QED BY <2>1, <2>2
  <1> QED BY <1>5, <1>7

LEMMA JoinInv ==
  ASSUME SupportInv, NEW r \in SupportCalls, Join(r)
  PROVE  SupportInv'
  <1> DEFINE t   == serve[r].t
             new == [serve[r] EXCEPT !.pc = "duplicates"]
  <1>1. /\ serve[r].pc = "join" /\ serve' = [serve EXCEPT ![r] = new]
        /\ thread' = [thread EXCEPT ![t].joined = TRUE]
        /\ UNCHANGED <<recent, given, spoken, overlapped>>
    BY DEF Join, AtServe, ServeGoes
  <1>2. /\ new \in Serve /\ new.pc = "duplicates" /\ new.t = t
        /\ new.alone = serve[r].alone
    BY CallHolds DEF Serve, ServePC
  <1>3. t \in 1..Len(recent) /\ t \in Threads
    BY <1>1, CallHolds DEF RequestListed
  <1>4. /\ thread' \in [Threads -> SupportThread]
        /\ \A x \in Threads : /\ thread'[x].archived = thread[x].archived
                              /\ thread'[x].ticket = thread[x].ticket
                              /\ thread'[x].joined = (thread[x].joined \/ x = t)
    BY <1>1, <1>3, RowJoined
  <1>5. TablesListed(thread', Len(recent))
    BY <1>3, <1>4, CallHolds DEF TablesListed
  <1>6. RequestListed(new, Len(recent))
    BY <1>2, <1>3 DEF RequestListed
  <1>7. ASSUME serve[r].alone
        PROVE  SeenIn(thread') = SeenIn(thread) /\ Healing(new, thread')
    <2>1. t \in SeenIn(thread) /\ thread[t].ticket = "open"
      BY <1>1, <1>7, CallHolds DEF Healing
    <2>2. SeenIn(thread') = SeenIn(thread)
      BY <1>4, <2>1 DEF SeenIn
    <2> QED BY <1>2, <1>3, <1>4, <2>1, <2>2 DEF Healing
  <1>8. ASSUME serve[r].alone, KeepsGiven(serve[r], thread)
        PROVE  KeepsGiven(new, thread')
    <2>1. \A x \in given : x \in Threads
      BY <1>8 DEF KeepsGiven, SeenIn
    <2> QED BY <1>1, <1>2, <1>4, <1>7, <1>8, <2>1 DEF KeepsGiven, Finds
  <1> HIDE DEF new, t
  <1>9. recent' = recent
    BY <1>1
  <1> QED BY <1>1, <1>2, <1>4, <1>5, <1>6, <1>7, <1>8, <1>9, CallHolds,
             CallGoesOn

LEMMA AdoptInv ==
  ASSUME SupportInv, NEW r \in SupportCalls, Adopt(r)
  PROVE  SupportInv'
  <1> DEFINE t   == serve[r].t
             new == [serve[r] EXCEPT !.pc = "join"]
  <1>1. /\ serve[r].pc = "adopt" /\ serve' = [serve EXCEPT ![r] = new]
        /\ UNCHANGED <<given, spoken, overlapped>>
    BY DEF Adopt, AtServe, ServeGoes
  <1>2. /\ new \in Serve /\ new.pc = "join" /\ new.t = t
        /\ new.alone = serve[r].alone
    BY CallHolds DEF Serve, ServePC
  <1>3. t \in 1..Len(recent) /\ t \in Threads
    BY <1>1, CallHolds DEF RequestListed
  <1>4. recent' = Updated(t) \/ recent' = recent
    BY DEF Adopt
  <1>5. /\ recent' \in Seq(Threads) /\ Range(recent') = 1..Len(recent')
        /\ Len(recent') = Len(recent)
    BY <1>3, <1>4, CallHolds, UpdatedStaysListed DEF SupportInv
  <1>6. \E ticket \in {"none", "open", "closed"} :
          /\ thread' = [thread EXCEPT ![t].ticket = ticket]
          /\ serve[r].own \/ thread[t].ticket = "none" => ticket = "open"
    <2>1. CASE serve[r].own
      BY <2>1 DEF Adopt
    <2>2. CASE ~serve[r].own
      <3>1. thread' = [thread EXCEPT ![t].ticket =
                         IF thread[t].ticket = "none" THEN "open"
                         ELSE thread[t].ticket]
        BY <2>2 DEF Adopt
      <3>2. thread[t].ticket \in {"none", "open", "closed"}
        BY <1>3, CallHolds DEF SupportThread
      <3> QED BY <2>2, <3>1, <3>2
    <2> QED BY <2>1, <2>2
  <1>7. /\ thread' \in [Threads -> SupportThread]
        /\ \A x \in Threads : /\ thread'[x].archived = thread[x].archived
                              /\ thread'[x].joined = thread[x].joined
        /\ \A x \in Threads \ {t} : thread'[x].ticket = thread[x].ticket
        /\ serve[r].own \/ thread[t].ticket = "none" => thread'[t].ticket = "open"
    BY <1>3, <1>6, CallHolds DEF SupportThread
  <1>8. TablesListed(thread', Len(recent))
    BY <1>3, <1>7, CallHolds DEF TablesListed
  <1>9. RequestListed(new, Len(recent))
    BY <1>2, <1>3 DEF RequestListed
  <1>10. SeenIn(thread') = SeenIn(thread)
    BY <1>7 DEF SeenIn
  <1>11. ASSUME serve[r].alone
         PROVE  thread'[t].ticket = "open" /\ Healing(new, thread')
    <2>1. t \in SeenIn(thread) /\ (serve[r].own <=> thread[t].ticket # "none")
      BY <1>1, <1>11, CallHolds DEF Healing
    <2> QED BY <1>2, <1>7, <1>10, <2>1 DEF Healing
  <1>12. ASSUME serve[r].alone, KeepsGiven(serve[r], thread)
         PROVE  KeepsGiven(new, thread')
    BY <1>1, <1>2, <1>10, <1>11, <1>12 DEF KeepsGiven, Finds
  <1> HIDE DEF new, t
  <1> QED BY <1>1, <1>2, <1>5, <1>7, <1>8, <1>9, <1>11, <1>12, CallHolds,
             CallGoesOn

LEMMA ReadDuplicatesInv ==
  ASSUME SupportInv, NEW r \in SupportCalls, ReadDuplicates(r)
  PROVE  SupportInv'
  <1> DEFINE t    == serve[r].t
             todo == Duplicates(t)
             new  == [serve[r] EXCEPT !.todo = todo, !.pc = NextDuplicate(todo)]
  <1>1. /\ serve[r].pc = "duplicates" /\ serve' = [serve EXCEPT ![r] = new]
        /\ thread' = thread /\ recent' = recent
        /\ UNCHANGED <<given, spoken, overlapped>>
    BY DEF ReadDuplicates, AtServe
  <1>2. todo = SeenIn(thread) \ {t}
    BY CandidatesSeen DEF SupportInv, Duplicates
  <1>3. \A x \in SeenIn(thread) : x \in Threads /\ x \in 1..Len(recent)
    BY CallHolds DEF TablesListed, SeenIn
  <1>4. /\ new \in Serve /\ new.t = t /\ new.todo = todo
        /\ new.alone = serve[r].alone
        /\ new.pc = IF todo = {} THEN "return" ELSE "close"
    BY <1>2, <1>3, CallHolds DEF Serve, ServePC, NextDuplicate
  <1>5. t \in 1..Len(recent)
    BY <1>1, CallHolds DEF RequestListed
  <1> HIDE DEF new, todo
  <1>6. RequestListed(new, Len(recent))
    BY <1>2, <1>3, <1>4, <1>5 DEF RequestListed
  <1>7. ASSUME serve[r].alone PROVE Healing(new, thread)
    <2>1. t \in SeenIn(thread) /\ thread[t].ticket = "open"
      BY <1>1, <1>7, CallHolds DEF Healing
    <2>2. CASE todo = {}
      BY <1>2, <1>4, <2>1, <2>2 DEF Healing
    <2>3. CASE todo # {}
      BY <1>2, <1>4, <2>1, <2>3 DEF Healing
    <2> QED BY <2>2, <2>3
  <1>8. ASSUME KeepsGiven(serve[r], thread) PROVE KeepsGiven(new, thread)
    BY <1>1, <1>2, <1>4, <1>8 DEF KeepsGiven, Finds
  <1> QED BY <1>1, <1>4, <1>6, <1>7, <1>8, CallHolds, CallGoesOn

LEMMA CloseDuplicateInv ==
  ASSUME SupportInv, NEW r \in SupportCalls, CloseDuplicate(r)
  PROVE  SupportInv'
  <1> DEFINE t   == serve[r].t
             d   == Duplicate(r)
             new == [serve[r] EXCEPT !.pc = "archive"]
  <1>1. /\ serve[r].pc = "close" /\ serve' = [serve EXCEPT ![r] = new]
        /\ UNCHANGED <<given, spoken, overlapped>>
    BY DEF CloseDuplicate, AtServe, ServeGoes
  <1>2. /\ new \in Serve /\ new.pc = "archive" /\ new.t = t
        /\ new.todo = serve[r].todo /\ new.alone = serve[r].alone
    BY CallHolds DEF Serve, ServePC
  <1>3. /\ t \in 1..Len(recent) /\ serve[r].todo # {}
        /\ serve[r].todo \subseteq 1..Len(recent)
    BY <1>1, CallHolds DEF RequestListed
  <1>4. d \in serve[r].todo /\ d \in 1..Len(recent)
    BY <1>3 DEF Duplicate
  <1>5. d \in Threads
    BY <1>4, ListedThreads DEF SupportInv
  <1>6. recent' = Updated(d) \/ recent' = recent
    BY DEF CloseDuplicate
  <1>7. /\ recent' \in Seq(Threads) /\ Range(recent') = 1..Len(recent')
        /\ Len(recent') = Len(recent)
    BY <1>4, <1>6, CallHolds, UpdatedStaysListed DEF SupportInv
  <1>8. thread' = [thread EXCEPT ![d].ticket = "closed"] \/ thread' = thread
    BY DEF CloseDuplicate
  <1>9. /\ thread' \in [Threads -> SupportThread]
        /\ \A x \in Threads : /\ thread'[x].archived = thread[x].archived
                              /\ thread'[x].joined = thread[x].joined
        /\ \A x \in Threads \ {d} : thread'[x].ticket = thread[x].ticket
    BY <1>5, <1>8, CallHolds DEF SupportThread
  <1>10. TablesListed(thread', Len(recent))
    BY <1>4, <1>9, CallHolds DEF TablesListed
  <1>11. RequestListed(new, Len(recent))
    BY <1>2, <1>3 DEF RequestListed
  <1>12. SeenIn(thread') = SeenIn(thread)
    BY <1>9 DEF SeenIn
  <1>13. ASSUME serve[r].alone PROVE Healing(new, thread')
    <2>1. /\ t \in SeenIn(thread) /\ t \notin serve[r].todo
          /\ thread[t].ticket = "open"
          /\ SeenIn(thread) \subseteq {t} \cup serve[r].todo
      BY <1>1, <1>13, CallHolds DEF Healing
    <2>2. thread'[t].ticket = "open"
      BY <1>4, <1>9, <2>1, CallHolds
    <2> QED BY <1>2, <1>12, <2>1, <2>2 DEF Healing
  <1>14. ASSUME KeepsGiven(serve[r], thread) PROVE KeepsGiven(new, thread')
    BY <1>1, <1>14 DEF KeepsGiven, Finds
  <1> HIDE DEF new, t, d
  <1> QED BY <1>1, <1>2, <1>7, <1>9, <1>10, <1>11, <1>13, <1>14, CallHolds,
             CallGoesOn

LEMMA ArchiveDuplicateInv ==
  ASSUME SupportInv, NEW r \in SupportCalls, ArchiveDuplicate(r)
  PROVE  SupportInv'
  <1> DEFINE t    == serve[r].t
             d    == Duplicate(r)
             rest == serve[r].todo \ {d}
             new  == [serve[r] EXCEPT !.todo = rest, !.pc = NextDuplicate(rest)]
  <1>1. /\ serve[r].pc = "archive" /\ serve' = [serve EXCEPT ![r] = new]
        /\ thread' = [thread EXCEPT ![d].archived = TRUE] /\ recent' = recent
        /\ UNCHANGED <<given, spoken, overlapped>>
    BY DEF ArchiveDuplicate, AtServe
  <1>2. /\ t \in 1..Len(recent) /\ serve[r].todo # {}
        /\ serve[r].todo \subseteq 1..Len(recent)
    BY <1>1, CallHolds DEF RequestListed
  <1>3. d \in serve[r].todo /\ d \in 1..Len(recent)
    BY <1>2 DEF Duplicate
  <1>4. d \in Threads
    BY <1>3, ListedThreads DEF SupportInv
  <1>5. /\ new \in Serve /\ new.t = t /\ new.todo = rest
        /\ new.alone = serve[r].alone
        /\ new.pc = IF rest = {} THEN "return" ELSE "close"
    BY CallHolds DEF Serve, ServePC, NextDuplicate
  <1>6. /\ thread' \in [Threads -> SupportThread]
        /\ \A x \in Threads :
             /\ thread'[x].archived = (thread[x].archived \/ x = d)
             /\ thread'[x].joined = thread[x].joined
             /\ thread'[x].ticket = thread[x].ticket
    BY <1>1, <1>4, RowArchived
  <1>7. TablesListed(thread', Len(recent))
    BY <1>3, <1>6, CallHolds DEF TablesListed
  <1>8. SeenIn(thread') = SeenIn(thread) \ {d}
    BY <1>6 DEF SeenIn
  <1> HIDE DEF new
  <1>9. RequestListed(new, Len(recent))
    BY <1>2, <1>5 DEF RequestListed
  <1>10. ASSUME serve[r].alone PROVE Healing(new, thread')
    <2>1. /\ t \in SeenIn(thread) /\ t \notin serve[r].todo
          /\ thread[t].ticket = "open"
          /\ SeenIn(thread) \subseteq {t} \cup serve[r].todo
      BY <1>1, <1>10, CallHolds DEF Healing
    <2>2. t \in SeenIn(thread') /\ thread'[t].ticket = "open"
      BY <1>3, <1>6, <1>8, <2>1, CallHolds
    <2>3. SeenIn(thread') \subseteq {t} \cup rest
      BY <1>8, <2>1
    <2>4. CASE rest = {}
      BY <1>5, <2>2, <2>3, <2>4 DEF Healing
    <2>5. CASE rest # {}
      BY <1>5, <2>1, <2>2, <2>3, <2>5 DEF Healing
    <2> QED BY <2>4, <2>5
  <1>11. ASSUME KeepsGiven(serve[r], thread) PROVE KeepsGiven(new, thread')
    BY <1>1, <1>11 DEF KeepsGiven, Finds
  <1> HIDE DEF t, d, rest
  <1> QED BY <1>1, <1>5, <1>6, <1>7, <1>9, <1>10, <1>11, CallHolds, CallGoesOn

LEMMA InsertThreadInv ==
  ASSUME SupportInv, NEW r \in SupportCalls, InsertThread(r)
  PROVE  SupportInv'
  <1> DEFINE n   == Len(recent)
             t   == n + 1
             new == [serve[r] EXCEPT !.t = t, !.pc = "insert ticket"]
  <1>1. /\ serve[r].pc = "insert thread" /\ serve' = [serve EXCEPT ![r] = new]
        /\ thread' = thread /\ recent' = <<t>> \o recent
        /\ UNCHANGED <<given, spoken, overlapped>>
    BY DEF InsertThread, AtServe
  <1>0. n < MaxThreads
    BY DEF InsertThread
  <1>2. /\ n \in Nat /\ MaxThreads \in Nat /\ DOMAIN recent = 1..n
        /\ recent \in Seq(Threads)
    BY ListedThreads, SupportBounds DEF SupportInv
  <1>3. /\ t \in Threads /\ t \in 1..t /\ 1 \in 1..t
        /\ \A x \in 1..n : x \in 1..t /\ x + 1 \in 1..t
        /\ \A x \in 1..t : x # t => x \in 1..n
        /\ \A x \in 1..t : x # 1 => x - 1 \in 1..n /\ (x - 1) + 1 = x
    <2>1. n \in Nat
      BY <1>2
    <2> HIDE DEF n
    <2>2. t \in 1..MaxThreads /\ t \in 1..t /\ 1 \in 1..t
      BY <1>0, <1>2
    <2>3. \A x \in 1..n : x \in 1..t /\ x + 1 \in 1..t
      BY <2>1
    <2>4. \A x \in 1..t : x # t => x \in 1..n
      BY <2>1
    <2>5. \A x \in 1..t : x # 1 => x - 1 \in 1..n /\ (x - 1) + 1 = x
      BY <2>1
    <2> QED BY <2>2, <2>3, <2>4, <2>5 DEF Threads
  <1>4. /\ new \in Serve /\ new.pc = "insert ticket" /\ new.t = t
        /\ new.alone = serve[r].alone
    BY <1>3, CallHolds DEF Serve, ServePC
  <1>5. /\ recent' \in Seq(Threads) /\ Len(recent') = t
        /\ DOMAIN recent' = 1..t /\ recent'[1] = t
        /\ \A i \in 1..n : recent'[i + 1] = recent[i]
    <2>1. recent' = <<t>> \o recent
      BY <1>1
    <2>2. recent' \in Seq(Threads) /\ Len(recent') = 1 + n
      BY <1>2, <1>3, <2>1
    <2>3. DOMAIN recent' = 1..t
      BY <1>2, <2>2
    <2>4. recent'[1] = t
      BY <1>2, <2>1
    <2>5. ASSUME NEW i \in 1..n PROVE recent'[i + 1] = recent[i]
      BY <1>2, <2>1
    <2> QED BY <1>2, <2>2, <2>3, <2>4, <2>5
  <1>6. Range(recent') = 1..t
    <2>1. Range(recent) = 1..n
      BY CallHolds
    <2>2. ASSUME NEW i \in 1..t PROVE recent'[i] \in 1..t
      <3>1. CASE i = 1
        BY <1>3, <1>5, <3>1
      <3>2. CASE i # 1
        <4>1. i - 1 \in 1..n /\ (i - 1) + 1 = i
          BY <1>3, <3>2
        <4>2. recent'[i] = recent[i - 1]
          BY <1>5, <4>1
        <4>3. recent[i - 1] \in 1..n
          BY <1>2, <2>1, <4>1 DEF Range
        <4> QED BY <1>3, <4>2, <4>3
      <3> QED BY <3>1, <3>2
    <2>3. ASSUME NEW x \in 1..t PROVE \E i \in 1..t : recent'[i] = x
      <3>1. CASE x = t
        BY <1>3, <1>5, <3>1
      <3>2. CASE x # t
        <4>1. x \in 1..n
          BY <1>3, <3>2
        <4>2. PICK i \in 1..n : recent[i] = x
          BY <1>2, <2>1, <4>1 DEF Range
        <4> QED BY <1>3, <1>5, <4>2
      <3> QED BY <3>1, <3>2
    <2>4. Range(recent') = {recent'[i] : i \in 1..t}
      BY <1>5 DEF Range
    <2> HIDE DEF t
    <2> QED BY <2>2, <2>3, <2>4
  <1>7. Len(recent') \in Len(recent)..MaxThreads
    <2> HIDE DEF n
    <2>1. t \in n..MaxThreads
      BY <1>0, <1>2
    <2> QED BY <1>5, <2>1 DEF n
  <1>8. TablesListed(thread', Len(recent'))
    BY <1>1, <1>3, <1>5, CallHolds DEF TablesListed
  <1>9. RequestListed(new, Len(recent'))
    BY <1>3, <1>4, <1>5 DEF RequestListed
  <1>10. t \notin 1..n
    BY <1>2
  <1> HIDE DEF new, t
  <1>11. ASSUME serve[r].alone PROVE Healing(new, thread')
    <2>1. SeenIn(thread) = {}
      BY <1>1, <1>11, CallHolds DEF Healing
    <2>2. ~thread[t].archived
      BY <1>3, <1>10, CallHolds DEF TablesListed
    <2> QED BY <1>1, <1>4, <2>1, <2>2 DEF Healing
  <1>12. ASSUME KeepsGiven(serve[r], thread) PROVE KeepsGiven(new, thread')
    BY <1>1, <1>12 DEF KeepsGiven, Finds
  <1>13. /\ Range(recent') = 1..Len(recent')
         /\ thread' \in [Threads -> SupportThread]
    BY <1>1, <1>5, <1>6, CallHolds
  <1> QED BY <1>1, <1>4, <1>5, <1>7, <1>8, <1>9, <1>11, <1>12, <1>13,
             CallGoesOn

LEMMA InsertTicketInv ==
  ASSUME SupportInv, NEW r \in SupportCalls, InsertTicket(r)
  PROVE  SupportInv'
  <1> DEFINE t   == serve[r].t
             new == [serve[r] EXCEPT !.pc = "join new"]
  <1>1. /\ serve[r].pc = "insert ticket" /\ serve' = [serve EXCEPT ![r] = new]
        /\ thread' = [thread EXCEPT ![t].ticket = "open"]
        /\ recent' = Updated(t)
        /\ UNCHANGED <<given, spoken, overlapped>>
    BY DEF InsertTicket, AtServe, ServeGoes
  <1>2. /\ new \in Serve /\ new.pc = "join new" /\ new.t = t
        /\ new.alone = serve[r].alone
    BY CallHolds DEF Serve, ServePC
  <1>3. t \in 1..Len(recent) /\ t \in Threads
    BY <1>1, CallHolds DEF RequestListed
  <1>4. /\ recent' \in Seq(Threads) /\ Range(recent') = 1..Len(recent')
        /\ Len(recent') = Len(recent)
    BY <1>1, <1>3, UpdatedStaysListed DEF SupportInv
  <1>5. /\ thread' \in [Threads -> SupportThread]
        /\ \A x \in Threads : /\ thread'[x].archived = thread[x].archived
                              /\ thread'[x].joined = thread[x].joined
        /\ \A x \in Threads \ {t} : thread'[x].ticket = thread[x].ticket
        /\ thread'[t].ticket = "open"
    <2> HIDE DEF t
    <2>1. thread \in [Threads -> SupportThread]
      BY CallHolds
    <2>2. thread' = [thread EXCEPT ![t] = [thread[t] EXCEPT !.ticket = "open"]]
      BY <1>1
    <2>3. /\ [thread[t] EXCEPT !.ticket = "open"] \in SupportThread
          /\ [thread[t] EXCEPT !.ticket = "open"].joined = thread[t].joined
          /\ [thread[t] EXCEPT !.ticket = "open"].archived = thread[t].archived
          /\ [thread[t] EXCEPT !.ticket = "open"].ticket = "open"
      BY <1>3, <2>1 DEF SupportThread
    <2> QED BY <1>3, <2>1, <2>2, <2>3
  <1>6. TablesListed(thread', Len(recent))
    BY <1>3, <1>5, CallHolds DEF TablesListed
  <1>7. RequestListed(new, Len(recent))
    BY <1>2, <1>3 DEF RequestListed
  <1>8. SeenIn(thread') = SeenIn(thread)
    BY <1>5 DEF SeenIn
  <1>9. ASSUME serve[r].alone PROVE Healing(new, thread')
    <2>1. SeenIn(thread) = {} /\ ~thread[t].archived
      BY <1>1, <1>9, CallHolds DEF Healing
    <2> QED BY <1>2, <1>3, <1>5, <1>8, <2>1 DEF Healing
  <1>10. ASSUME KeepsGiven(serve[r], thread) PROVE KeepsGiven(new, thread')
    BY <1>1, <1>10 DEF KeepsGiven, Finds
  <1> HIDE DEF new, t
  <1> QED BY <1>1, <1>2, <1>4, <1>5, <1>6, <1>7, <1>9, <1>10, CallHolds,
             CallGoesOn

LEMMA JoinNewInv ==
  ASSUME SupportInv, NEW r \in SupportCalls, JoinNew(r)
  PROVE  SupportInv'
  <1> DEFINE t   == serve[r].t
             new == [serve[r] EXCEPT !.pc = "return"]
  <1>1. /\ serve[r].pc = "join new" /\ serve' = [serve EXCEPT ![r] = new]
        /\ thread' = [thread EXCEPT ![t].joined = TRUE] /\ recent' = recent
        /\ UNCHANGED <<given, spoken, overlapped>>
    BY DEF JoinNew, AtServe, ServeGoes
  <1>2. /\ new \in Serve /\ new.pc = "return" /\ new.t = t
        /\ new.alone = serve[r].alone
    BY CallHolds DEF Serve, ServePC
  <1>3. t \in 1..Len(recent) /\ t \in Threads
    BY <1>1, CallHolds DEF RequestListed
  <1>4. /\ thread' \in [Threads -> SupportThread]
        /\ \A x \in Threads : /\ thread'[x].archived = thread[x].archived
                              /\ thread'[x].ticket = thread[x].ticket
                              /\ thread'[x].joined = (thread[x].joined \/ x = t)
    BY <1>1, <1>3, RowJoined
  <1>5. TablesListed(thread', Len(recent))
    BY <1>3, <1>4, CallHolds DEF TablesListed
  <1>6. RequestListed(new, Len(recent))
    BY <1>2, <1>3 DEF RequestListed
  <1>7. ASSUME serve[r].alone PROVE Healing(new, thread')
    <2>1. /\ SeenIn(thread) = {} /\ ~thread[t].archived
          /\ thread[t].ticket = "open"
      BY <1>1, <1>7, CallHolds DEF Healing
    <2>2. \A x \in Threads :
            thread'[x].joined /\ ~thread'[x].archived <=> x = t
      BY <1>4, <2>1 DEF SeenIn
    <2>3. SeenIn(thread') = {t}
      BY <1>3, <2>2 DEF SeenIn
    <2> QED BY <1>2, <1>3, <1>4, <2>1, <2>3 DEF Healing
  <1>8. ASSUME KeepsGiven(serve[r], thread) PROVE KeepsGiven(new, thread')
    BY <1>1, <1>8 DEF KeepsGiven, Finds
  <1> HIDE DEF new, t
  <1> QED BY <1>1, <1>2, <1>4, <1>5, <1>6, <1>7, <1>8, CallHolds, CallGoesOn

LEMMA ServeDiesInv ==
  ASSUME SupportInv, NEW r \in SupportCalls, ServeDies(r)
  PROVE  SupportInv'
  <1>1. /\ serve[r].pc # "free" /\ serve' = [serve EXCEPT ![r] = NoServe]
        /\ thread' = thread /\ recent' = recent
        /\ UNCHANGED <<given, spoken, overlapped>>
    BY DEF ServeDies, AtServe, EndServe
  <1>2. RequestListed(NoServe, Len(recent))
    BY NoServeType DEF RequestListed
  <1>3. ASSUME KeepsGiven(serve[r], thread) PROVE KeepsGiven(NoServe, thread)
    BY <1>3, NoServeType DEF KeepsGiven, Finds
  <1> QED BY <1>1, <1>2, <1>3, NoServeType, CallHolds, CallGoesOn

(* A quiet request returns the one thread in view, which was the one       *)
(* returned before.                                                        *)
LEMMA ReturnThreadInv ==
  ASSUME SupportInv, NEW r \in SupportCalls, ReturnThread(r)
  PROVE  SupportInv'
  <1> DEFINE t == serve[r].t
  <1>1. /\ serve[r].pc = "return" /\ serve' = [serve EXCEPT ![r] = NoServe]
        /\ given' = given \cup {t} /\ thread' = thread /\ recent' = recent
        /\ UNCHANGED <<spoken, overlapped>>
    BY DEF ReturnThread, AtServe, EndServe
  <1>2. SupportTypeOK /\ ThreadsListed /\ AloneHeals /\ OneThread
    BY DEF SupportInv
  <1>3. t \in 1..Len(recent) /\ t \in Threads
    BY <1>1, CallHolds DEF RequestListed
  <1>4. /\ serve' \in [SupportCalls -> Serve] /\ serve'[r] = NoServe
        /\ \A q \in SupportCalls \ {r} : serve'[q] = serve[q]
    BY <1>1, <1>2, NoServeType DEF SupportTypeOK
  <1>5. SupportTypeOK'
    <2>1. given' \subseteq Threads /\ spoken' \subseteq given'
      BY <1>1, <1>2, <1>3 DEF SupportTypeOK
    <2> QED BY <1>1, <1>2, <1>4, <2>1 DEF SupportTypeOK
  <1>6. ThreadsListed'
    <2>1. given' \subseteq 1..Len(recent)
      BY <1>1, <1>2, <1>3 DEF ThreadsListed
    <2>2. \A q \in SupportCalls : RequestListed(serve'[q], Len(recent))
      BY <1>4, NoServeType, CallHolds DEF RequestListed
    <2> QED BY <1>1, <1>2, <2>1, <2>2 DEF ThreadsListed, RequestListed
  <1>7. \A q \in SupportCalls : ~serve'[q].alone
    BY <1>1, <1>2, <1>4, NoServeType DEF AloneHeals
  <1>8. AloneHeals'
    BY <1>7 DEF AloneHeals
  <1>9. OneThread'
    <2>1. SUFFICES ASSUME ~overlapped PROVE OneThread'
      BY <1>1 DEF OneThread
    <2>2. serve[r].alone
      BY <1>1, <1>2, <2>1 DEF OneThread
    <2>3. SeenIn(thread) = {t} /\ thread[t].ticket = "open"
      BY <1>1, <2>2, CallHolds DEF Healing
    <2>4. \A x \in given' : x = t
      BY <1>1, <1>2, <2>1, <2>3 DEF OneThread
    <2>5. \A q \in SupportCalls : serve'[q].pc = "free"
      BY <1>2, <1>4, <2>2, NoServeType DEF AloneHeals
    <2> QED BY <1>1, <2>3, <2>4, <2>5 DEF OneThread, Finds
  <1> QED BY <1>5, <1>6, <1>8, <1>9 DEF SupportInv

LEMMA ReadCandidatesInv ==
  ASSUME SupportInv, NEW r \in SupportCalls, ReadCandidates(r)
  PROVE  SupportInv'
  <1> DEFINE others == {q \in SupportCalls : serve[q].pc # "free"}
             found  == Candidates # {}
             new    == [NoServe EXCEPT
                          !.pc = IF Candidates = {} THEN "insert thread"
                                 ELSE "adopt",
                          !.t = IF Candidates = {} THEN 1 ELSE Canonical,
                          !.own = found /\ thread[Canonical].ticket # "none",
                          !.alone = (others = {})]
  <1>1. SupportTypeOK /\ ThreadsListed /\ AloneHeals /\ OneThread
    BY DEF SupportInv
  <1>2. /\ serve[r].pc = "free" /\ thread' = thread /\ recent' = recent
        /\ overlapped' = (overlapped \/ others # {})
        /\ given' = given /\ spoken' = spoken
    BY DEF ReadCandidates, AtServe
  <1>3. serve' = [q \in SupportCalls |->
           IF q \in others THEN [[serve EXCEPT ![r] = new][q] EXCEPT !.alone = FALSE]
           ELSE [serve EXCEPT ![r] = new][q]]
    BY DEF ReadCandidates, AtServe
  <1>4. Candidates = SeenIn(thread) /\ Candidates \subseteq 1..Len(recent)
    BY <1>1, CandidatesSeen DEF Candidates, ThreadsListed
  <1>5. found => Canonical \in Candidates /\ Canonical \in Threads
    BY <1>1, <1>4, CanonicalIsCandidate DEF SeenIn
  <1>6. /\ new \in Serve /\ new.alone = (others = {})
        /\ new.pc = IF found THEN "adopt" ELSE "insert thread"
        /\ found => /\ new.t = Canonical
                    /\ new.own = (thread[Canonical].ticket # "none")
    BY <1>5, SupportBounds DEF NoServe, Serve, ServePC
  <1> HIDE DEF new
  <1>7. serve'[r] = new
    BY <1>1, <1>2, <1>3 DEF SupportTypeOK
  <1>8. ASSUME NEW q \in SupportCalls \ {r}
        PROVE  /\ serve'[q] \in Serve /\ serve'[q].pc = serve[q].pc
               /\ serve'[q].t = serve[q].t /\ serve'[q].todo = serve[q].todo
               /\ ~serve'[q].alone
    <2>1. serve[q] \in Serve /\ [serve EXCEPT ![r] = new][q] = serve[q]
      BY <1>1 DEF SupportTypeOK
    <2>2. CASE q \in others
      <3>1. serve'[q] = [serve[q] EXCEPT !.alone = FALSE]
        BY <1>3, <2>1, <2>2
      <3> QED BY <2>1, <3>1 DEF Serve
    <2>3. CASE q \notin others
      <3>1. serve'[q] = serve[q]
        BY <1>3, <2>1, <2>3
      <3>2. ~serve[q].alone
        BY <1>1, <2>3 DEF AloneHeals, Healing
      <3> QED BY <2>1, <3>1, <3>2
    <2> QED BY <2>2, <2>3
  <1>9. SupportTypeOK'
    <2>1. \A q \in SupportCalls : serve'[q] \in Serve
      BY <1>6, <1>7, <1>8
    <2>2. serve' \in [SupportCalls -> Serve]
      BY <1>3, <2>1
    <2> QED BY <1>1, <1>2, <2>2 DEF SupportTypeOK
  <1>10. ThreadsListed'
    <2>1. RequestListed(new, Len(recent))
      BY <1>4, <1>5, <1>6 DEF RequestListed
    <2>2. ASSUME NEW q \in SupportCalls
          PROVE  RequestListed(serve'[q], Len(recent))
      BY <1>7, <1>8, <2>1, CallHolds DEF RequestListed
    <2> QED BY <1>1, <1>2, <2>2 DEF ThreadsListed, RequestListed
  <1>11. ASSUME others = {} PROVE Healing(new, thread)
    <2>1. CASE found
      BY <1>4, <1>5, <1>6, <2>1 DEF Healing
    <2>2. CASE ~found
      BY <1>4, <1>6, <2>2 DEF Healing
    <2> QED BY <2>1, <2>2
  <1>12. AloneHeals'
    <2>1. ASSUME others = {} PROVE \A q \in SupportCalls \ {r} : serve'[q].pc = "free"
      BY <1>8, <2>1
    <2> QED BY <1>2, <1>6, <1>7, <1>8, <1>11, <2>1 DEF AloneHeals
  <1>13. OneThread'
    <2>1. SUFFICES ASSUME ~overlapped, others = {} PROVE OneThread'
      BY <1>2 DEF OneThread
    <2>2. \A q \in SupportCalls \ {r} : serve'[q].pc = "free"
      BY <1>8, <2>1
    <2>3. ASSUME NEW x \in given
          PROVE  /\ SeenIn(thread) = {x} /\ thread[x].ticket = "open"
                 /\ Finds(new, x)
      <3>1. SeenIn(thread) = {x} /\ thread[x].ticket = "open"
        BY <1>1, <2>1 DEF OneThread
      <3>2. found /\ Canonical = x
        BY <1>4, <1>5, <3>1
      <3> QED BY <1>6, <3>1, <3>2 DEF Finds
    <2>4. \A q \in SupportCalls : serve'[q].pc # "free" => serve'[q].alone
      BY <1>6, <1>7, <2>1, <2>2
    <2>5. \A x \in given, q \in SupportCalls : Finds(serve'[q], x)
      BY <1>7, <2>2, <2>3 DEF Finds
    <2> QED BY <1>2, <2>3, <2>4, <2>5 DEF OneThread
  <1> QED BY <1>9, <1>10, <1>12, <1>13 DEF SupportInv

(* Messages only stir the order of the threads.                            *)
LEMMA TouchedInv ==
  ASSUME SupportInv, NEW t \in 1..Len(recent), Touched(t),
         serve' = serve, given' = given, overlapped' = overlapped,
         spoken' \subseteq given
  PROVE  SupportInv'
  <1>1. SupportTypeOK /\ ThreadsListed /\ AloneHeals /\ OneThread
    BY DEF SupportInv
  <1>2. t \in Threads
    BY <1>1, ListedThreads
  <1>3. /\ recent' \in Seq(Threads) /\ Len(recent') = Len(recent)
        /\ Range(recent') = 1..Len(recent)
    BY <1>1, FirstStaysListed DEF Touched
  <1>4. /\ thread' \in [Threads -> SupportThread]
        /\ \A x \in Threads : /\ thread'[x].archived = thread[x].archived
                              /\ thread'[x].joined = thread[x].joined
                              /\ thread'[x].ticket = thread[x].ticket
    BY <1>1, <1>2 DEF Touched, SupportTypeOK, SupportThread
  <1>5. SeenIn(thread') = SeenIn(thread)
    BY <1>4 DEF SeenIn
  <1>6. SupportTypeOK' /\ ThreadsListed'
    BY <1>1, <1>3, <1>4 DEF SupportTypeOK, ThreadsListed
  <1>7. AloneHeals'
    <2>1. ASSUME NEW r \in SupportCalls, Healing(serve[r], thread)
          PROVE  Healing(serve[r], thread')
      <3>1. thread'[serve[r].t].ticket = thread[serve[r].t].ticket
        BY <1>4, CallHolds
      <3>2. thread'[serve[r].t].archived = thread[serve[r].t].archived
        BY <1>4, CallHolds
      <3> QED BY <1>5, <2>1, <3>1, <3>2 DEF Healing
    <2> QED BY <1>1, <2>1 DEF AloneHeals
  <1>8. OneThread'
    <2>1. given \subseteq Threads
      BY <1>1 DEF SupportTypeOK
    <2> QED BY <1>1, <1>4, <1>5, <2>1 DEF OneThread
  <1> QED BY <1>6, <1>7, <1>8 DEF SupportInv

LEMMA PostsInv ==
  ASSUME SupportInv, PostByUser \/ PostByAdmin
  PROVE  SupportInv'
  <1>1. SupportTypeOK /\ ThreadsListed
    BY DEF SupportInv
  <1>2. CASE PostByUser
    <2>1. PICK t \in given : Touched(t) /\ spoken' = spoken \cup {t}
      BY <1>2 DEF PostByUser
    <2>2. t \in 1..Len(recent) /\ spoken' \subseteq given
      BY <1>1, <2>1 DEF ThreadsListed, SupportTypeOK
    <2> QED BY <1>2, <2>1, <2>2, TouchedInv DEF PostByUser
  <1>3. CASE PostByAdmin
    <2>1. PICK t \in Threads : thread[t].ticket # "none" /\ Touched(t)
      BY <1>3 DEF PostByAdmin
    <2>2. t \in 1..Len(recent) /\ spoken' \subseteq given
      BY <1>1, <1>3, <2>1 DEF ThreadsListed, SupportTypeOK, PostByAdmin
    <2> QED BY <1>3, <2>1, <2>2, TouchedInv DEF PostByAdmin
  <1> QED BY <1>2, <1>3

LEMMA SupportInvNext == SupportInv /\ [SupportNext]_supportVars => SupportInv'
  <1> SUFFICES ASSUME SupportInv, [SupportNext]_supportVars PROVE SupportInv'
    OBVIOUS
  <1>1. ASSUME NEW r \in SupportCalls, SupportCall(r) PROVE SupportInv'
    BY <1>1, ReadCandidatesInv, AdoptInv, JoinInv, ReadDuplicatesInv,
       CloseDuplicateInv, ArchiveDuplicateInv, InsertThreadInv,
       InsertTicketInv, JoinNewInv, ReturnThreadInv, ServeDiesInv, Zenon
       DEF SupportCall
  <1>2. CASE UNCHANGED supportVars
    BY <1>2 DEF supportVars, SupportInv, SupportTypeOK, ThreadsListed,
                AloneHeals, OneThread
  <1> QED BY <1>1, <1>2, PostsInv, Zenon DEF SupportNext

LEMMA SupportInvAlways == SupportSpec => []SupportInv
  BY SupportInitInv, SupportInvNext, PTL DEF SupportSpec

(* Support.QuietCallHeals: a search for the thread of a user that nothing  *)
(* overlaps (_canonicalize_support_thread_for_user) leaves the thread it   *)
(* returns as the only one in view, with an open ticket, whatever earlier  *)
(* searches that overlapped or died have left.                             *)
THEOREM QuietCallsHeal == SupportSpec => []QuietCallHeals
  <1>1. SupportInv => QuietCallHeals
    <2> SUFFICES ASSUME SupportInv, NEW r \in SupportCalls,
                        serve[r].pc = "return", serve[r].alone
                 PROVE  /\ Candidates = {serve[r].t}
                        /\ thread[serve[r].t].ticket = "open"
      BY DEF QuietCallHeals, AtServe
    <2>1. SeenIn(thread) = {serve[r].t} /\ thread[serve[r].t].ticket = "open"
      BY CallHolds DEF Healing
    <2> QED BY <2>1, CandidatesSeen DEF SupportInv
  <1> QED BY <1>1, SupportInvAlways, PTL

(* Support.UserStaysHeard: unless two searches of the user have overlapped *)
(* what the user has posted stays in an open ticket in view of both sides. *)
THEOREM UsersStayHeard == SupportSpec => []UserStaysHeard
  <1>1. SupportInv => UserStaysHeard
    <2> SUFFICES ASSUME SupportInv, ~overlapped, NEW t \in spoken
                 PROVE  InView(t) /\ thread[t].ticket = "open"
      BY DEF UserStaysHeard
    <2>1. t \in given
      BY DEF SupportInv, SupportTypeOK
    <2>2. t \in SeenIn(thread) /\ thread[t].ticket = "open"
      BY <2>1 DEF SupportInv, OneThread
    <2> QED BY <2>2 DEF SeenIn, InView
  <1> QED BY <1>1, SupportInvAlways, PTL
=============================================================================
