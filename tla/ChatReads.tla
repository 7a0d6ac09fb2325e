----------------------------- MODULE ChatReads -----------------------------
(***************************************************************************)
(* What the users of a chat thread have read (app/chat.py): the cursor of  *)
(* a participant, the receipts in message_reads and the unread count of a  *)
(* thread's preview, under posts and receipts that overlap and arrive in   *)
(* any order.                                                              *)
(*                                                                         *)
(* A message is its position in the thread (created_at, id), a post an     *)
(* INSERT and the sender's cursor, each a commit of its own.  Which        *)
(* messages a client has come to show is a matter of ChatHub.              *)
(***************************************************************************)
EXTENDS Naturals, Sequences

CONSTANTS
  ChatUsers,     \* the participants
  MaxMessages    \* bound on the messages of the thread

ASSUME MaxMessagesAssumption == MaxMessages \in Nat

VARIABLES
  log,       \* chat_messages of the thread, in order: who sent each
  cursor,    \* chat_participants.last_read_message_id
  reads,     \* message_reads, with which delivery_status 'read' is written
  seen,      \* per user: the messages its clients have shown
  posts,     \* messages whose sender's cursor is still to be moved
  acked      \* history: the latest message of a handled receipt

readsVars == <<log, cursor, reads, seen, posts, acked>>

System == "system"
Senders == ChatUsers \cup {System}

ReadsTypeOK ==
  /\ log \in Seq(Senders) /\ Len(log) <= MaxMessages
  /\ cursor \in [ChatUsers -> 0..MaxMessages]
  /\ reads \in [ChatUsers -> SUBSET (1..MaxMessages)]
  /\ seen \in [ChatUsers -> SUBSET (1..MaxMessages)]
  /\ posts \subseteq 1..MaxMessages
  /\ acked \in [ChatUsers -> 0..MaxMessages]

ReadsInit ==
  /\ log = <<>>
  /\ cursor = [u \in ChatUsers |-> 0]
  /\ reads = [u \in ChatUsers |-> {}]
  /\ seen = [u \in ChatUsers |-> {}]
  /\ posts = {}
  /\ acked = [u \in ChatUsers |-> 0]

----------------------------------------------------------------------------
(* post_thread_message, post_thread_image_message: two commits, and the    *)
(* request may die between them; post_system_thread_message: one.          *)

PostMessage(sender) ==
  /\ Len(log) < MaxMessages
  /\ log' = Append(log, sender)
  /\ posts' = IF sender = System THEN posts ELSE posts \cup {Len(log) + 1}
  /\ UNCHANGED <<cursor, reads, seen, acked>>

MoveCursor(m) ==                    \* the sender has read what it sends
  /\ m \in posts
  /\ posts' = posts \ {m}
  /\ \/ cursor' = [cursor EXCEPT ![log[m]] = m]
     \/ UNCHANGED cursor
  /\ UNCHANGED <<log, reads, seen, acked>>

ShowMessage(u, m) ==                \* from the list or from a socket
  /\ m \in DOMAIN log \ seen[u]
  /\ seen' = [seen EXCEPT ![u] = @ \cup {m}]
  /\ UNCHANGED <<log, cursor, reads, posts, acked>>

----------------------------------------------------------------------------
(* Receipts: mark_thread_messages_read, one transaction.  The request may  *)
(* arrive at any time after its client has shown the messages it names, of *)
(* which m is the latest: late, twice, or after a receipt of later ones.   *)

FromOthers(u) == {n \in DOMAIN log : log[n] \notin {u, System}}

Readable_All(u, m) == FromOthers(u) \* mutant: no bound on created_at

Readable(u, m) == {n \in FromOthers(u) : n <= m}

HandleReceipt(u, m) ==
  /\ m \in seen[u]
  /\ cursor' = [cursor EXCEPT ![u] = m]
  /\ reads' = [reads EXCEPT ![u] = @ \cup Readable(u, m)]
  /\ acked' = [acked EXCEPT ![u] = IF m > @ THEN m ELSE @]
  /\ UNCHANGED <<log, seen, posts>>

CountedRead_Cursor(u, m) == m <= cursor[u]   \* mutant: the cursor alone

CountedRead(u, m) == m \in reads[u] \/ m <= cursor[u]

Unread(u) == {m \in FromOthers(u) : ~CountedRead(u, m)}   \* unread_count

ReadsNext ==
  \/ \E sender \in Senders : PostMessage(sender)
  \/ \E m \in 1..MaxMessages : MoveCursor(m)
  \/ \E u \in ChatUsers, m \in 1..MaxMessages :
       ShowMessage(u, m) \/ HandleReceipt(u, m)

ReadsSpec == ReadsInit /\ [][ReadsNext]_readsVars

----------------------------------------------------------------------------
(* Properties.                                                             *)

(* A message is shown as read only when a client of somebody else than its *)
(* sender has shown it or a later one, although a receipt marks messages   *)
(* it does not name.                                                       *)
TruthfulReceipts ==
  \A u \in ChatUsers :
    \A n \in reads[u] :
      /\ log[n] \notin {u, System}
      /\ \E k \in seen[u] : k >= n

(* Receipts that arrive late move the cursor back, and so do posts that    *)
(* overlap with them; what an earlier receipt covered is not counted as    *)
(* unread again.                                                           *)
NothingUnreadAgain ==
  \A u \in ChatUsers : \A m \in Unread(u) : m > acked[u]
=============================================================================
