---------------------------- MODULE AccountData ----------------------------
(***************************************************************************)
(* What the deletion of an account, or of some categories of its data,     *)
(* does to one user (delete_my_account_data in app/main.py), while other   *)
(* requests of the user and of the other side are under way.               *)
(*                                                                         *)
(* The user has an announcement, messages with photos and an offer on a    *)
(* task of somebody else.  Deletion collects the keys of the photos, then  *)
(* erases the rows in one transaction, then removes the photos from the    *)
(* storage one by one.  Sessions and reviews are Sessions' and Reviews'.   *)
(***************************************************************************)
EXTENDS FiniteSets

CONSTANTS
  ChatPhotos,        \* keys of photos sent in messages
  TaskPhotos,        \* keys of photos of the announcement
  Devices,           \* server threads that execute requests of the user
  Categories         \* the sets of categories the user may choose

ASSUME CategoriesAssumption ==
  Categories \subseteq SUBSET {"announcements", "offers", "messages"}
ASSUME PhotosAssumption == ChatPhotos \cap TaskPhotos = {}

VARIABLES
  owner,      \* users: whether the account is live
  ad,         \* the announcement and its media (tasks.extra)
  sentPhotos, \* the photos in messages of the user
  bid,        \* task_offers: the offer of the user
  work,       \* task_assignments: the assignment of that offer
  stored,     \* the objects in the storage
  errand,     \* per server thread: its request and what it has read
  late        \* history: a deletion committed while another request ran

accountVars == <<owner, ad, sentPhotos, bid, work, stored, errand, late>>
rowVars == <<ad, sentPhotos, bid, work>>

AllPhotos == ChatPhotos \cup TaskPhotos
AllCategories == {"announcements", "offers", "messages"}

Ad == [live : BOOLEAN, media : SUBSET TaskPhotos]

Errand ==
  [pc : {"free", "chat photo", "content", "bid", "work", "collected",
         "remove"},
   keys : SUBSET AllPhotos,          \* what is to be written or removed
   cats : SUBSET AllCategories,
   whole : BOOLEAN]                  \* delete_account

NoErrand == [pc |-> "free", keys |-> {}, cats |-> {}, whole |-> FALSE]

AccountTypeOK ==
  /\ owner \in {"live", "deleted"}
  /\ ad \in Ad
  /\ sentPhotos \subseteq ChatPhotos
  /\ bid \in {"none", "sent", "accepted", "rejected", "withdrawn"}
  /\ work \in {"none", "active", "completed", "cancelled"}
  /\ stored \subseteq AllPhotos
  /\ errand \in [Devices -> Errand]
  /\ late \in BOOLEAN

AccountInit ==
  /\ owner = "live"
  /\ ad = [live |-> TRUE, media |-> {}]
  /\ sentPhotos = {}
  /\ bid = "none"
  /\ work = "none"
  /\ stored = {}
  /\ errand = [d \in Devices |-> NoErrand]
  /\ late = FALSE

AtErrand(d, pc) == errand[d].pc = pc
BeginErrand(d, request) ==           \* get_current_user admits it
  /\ AtErrand(d, "free")
  /\ owner = "live"
  /\ errand' = [errand EXCEPT ![d] = request]
EndErrand(d) == errand' = [errand EXCEPT ![d] = NoErrand]

----------------------------------------------------------------------------
(* Photos.  A key is new at every upload; the object is stored before a    *)
(* row refers to it.                                                       *)

NewKey(f) == f \notin stored /\ \A d \in Devices : f \notin errand[d].keys

StoreChatPhoto(d) ==                 \* send_chat_media_message
  /\ \E f \in ChatPhotos :
       /\ NewKey(f)
       /\ BeginErrand(d, [NoErrand EXCEPT !.pc = "chat photo", !.keys = {f}])
       /\ stored' = stored \cup {f}
  /\ UNCHANGED <<owner, rowVars, late>>

InsertChatPhoto(d) ==
  /\ AtErrand(d, "chat photo")
  /\ sentPhotos' = sentPhotos \cup errand[d].keys
  /\ EndErrand(d)
  /\ UNCHANGED <<owner, ad, bid, work, stored, late>>

StoreTaskPhoto(d) ==                 \* upload_announcement_media
  /\ \E f \in TaskPhotos :
       /\ NewKey(f)
       /\ BeginErrand(d, [NoErrand EXCEPT !.pc = "content", !.keys = {f}])
       /\ stored' = stored \cup {f}
  /\ UNCHANGED <<owner, rowVars, late>>

ReadAppeal(d) ==                     \* appeal_announcement keeps the media
  /\ BeginErrand(d, [NoErrand EXCEPT !.pc = "content", !.keys = ad.media])
  /\ UNCHANGED <<owner, rowVars, stored, late>>

WriteAd(d) ==                        \* _update_task_content, deleted_at NULL
  /\ AtErrand(d, "content")
  /\ ad' = [live |-> TRUE, media |-> errand[d].keys]
  /\ EndErrand(d)
  /\ UNCHANGED <<owner, sentPhotos, bid, work, stored, late>>

----------------------------------------------------------------------------
(* The offer and the work on it, as far as deletion concerns them.         *)

ReadBid(d) ==                        \* create_offer
  /\ bid \notin {"accepted", "rejected"}
  /\ work = "none"
  /\ BeginErrand(d, [NoErrand EXCEPT !.pc = "bid"])
  /\ UNCHANGED <<owner, rowVars, stored, late>>

WriteBid(d) ==
  /\ AtErrand(d, "bid")
  /\ bid' = "sent"
  /\ EndErrand(d)
  /\ UNCHANGED <<owner, ad, sentPhotos, work, stored, late>>

ReadWork(d) ==                       \* update_announcement_execution_stage
  /\ work = "active"
  /\ BeginErrand(d, [NoErrand EXCEPT !.pc = "work"])
  /\ UNCHANGED <<owner, rowVars, stored, late>>

WriteWork(d) ==
  /\ AtErrand(d, "work")
  /\ work' \in {"active", "completed", "cancelled"}
  /\ EndErrand(d)
  /\ UNCHANGED <<owner, ad, sentPhotos, bid, stored, late>>

(* The customer's answer in one step.  An acceptance locks the rows; a     *)
(* rejection does not: what it overtakes so is looked at in Task.          *)
AnswerBid ==
  /\ bid = "sent" /\ work = "none"
  /\ \/ bid' = "accepted" /\ work' = "active"
     \/ bid' = "rejected" /\ UNCHANGED work
  /\ UNCHANGED <<owner, ad, sentPhotos, stored, errand, late>>

----------------------------------------------------------------------------
(* Deletion.                                                               *)

Collectable(cats) ==
  (IF "announcements" \in cats THEN ad.media ELSE {})
    \cup (IF "messages" \in cats THEN sentPhotos ELSE {})

Collect(d) ==
  /\ \E cats \in Categories, whole \in BOOLEAN :
       LET all == IF whole THEN AllCategories ELSE cats IN
       BeginErrand(d, [pc |-> "collected", keys |-> Collectable(all),
                       cats |-> all, whole |-> whole])
  /\ UNCHANGED <<owner, rowVars, stored, late>>

Withdrawal_Open(status) ==            \* mutant: accepted offers are left
  IF status = "sent" THEN "withdrawn" ELSE status

Withdrawal(status) ==
  IF status \in {"sent", "accepted"} THEN "withdrawn" ELSE status

Erased_KeepsData(cats) == ad         \* mutant: extra is not emptied

Erased(cats) ==                      \* _scrub_announcement_data
  IF "announcements" \in cats THEN [live |-> FALSE, media |-> {}] ELSE ad

Commit(d) ==                         \* _apply_account_data_deletion
  LET cats == errand[d].cats IN
  /\ AtErrand(d, "collected")
  /\ ad' = Erased(cats)
  /\ sentPhotos' = IF "messages" \in cats THEN {} ELSE sentPhotos
  /\ bid' = IF "offers" \in cats THEN Withdrawal(bid) ELSE bid
  /\ work' = IF "offers" \in cats /\ work = "active" THEN "cancelled" ELSE work
  /\ owner' = IF errand[d].whole THEN "deleted" ELSE owner
  /\ late' = (late \/ \E e \in Devices \ {d} : ~AtErrand(e, "free"))
  /\ errand' = [errand EXCEPT ![d].pc = "remove"]
  /\ UNCHANGED stored

RemovePhoto(d) ==                    \* or the storage refuses: a warning
  /\ AtErrand(d, "remove")
  /\ \E f \in errand[d].keys :
       /\ errand' = [errand EXCEPT ![d].keys = @ \ {f}]
       /\ stored' \in {stored, stored \ {f}}
  /\ UNCHANGED <<owner, rowVars, late>>

EndDeletion(d) ==
  /\ AtErrand(d, "remove")
  /\ errand[d].keys = {}
  /\ EndErrand(d)
  /\ UNCHANGED <<owner, rowVars, stored, late>>

ErrandDies(d) ==                     \* a rollback, or the process is replaced
  /\ ~AtErrand(d, "free")
  /\ EndErrand(d)
  /\ UNCHANGED <<owner, rowVars, stored, late>>

AccountRequest(d) ==
  \/ StoreChatPhoto(d) \/ InsertChatPhoto(d)
  \/ StoreTaskPhoto(d) \/ ReadAppeal(d) \/ WriteAd(d)
  \/ ReadBid(d) \/ WriteBid(d) \/ ReadWork(d) \/ WriteWork(d)
  \/ Collect(d) \/ Commit(d) \/ RemovePhoto(d) \/ EndDeletion(d)
  \/ ErrandDies(d)

AccountNext == (\E d \in Devices : AccountRequest(d)) \/ AnswerBid

AccountSpec == AccountInit /\ [][AccountNext]_accountVars

----------------------------------------------------------------------------
(* Properties.                                                             *)

(* A photo a row refers to is in the storage, through deletions that fail  *)
(* or die at any point, unless another request of the user ran when a      *)
(* deletion committed: it may write back media whose objects are removed.  *)
ReferencedIsStored == late \/ ad.media \cup sentPhotos \subseteq stored

(* Nothing of a deleted account is live: no announcement, no photo in a    *)
(* message, no offer that waits or is accepted, no work; unless a request  *)
(* admitted before the deletion ended after it.                            *)
NothingLiveOfDeleted ==
  owner = "deleted" /\ ~late =>
    /\ ~ad.live
    /\ sentPhotos = {}
    /\ bid \notin {"sent", "accepted"}
    /\ work # "active"
=============================================================================
