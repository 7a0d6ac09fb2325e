----------------------------- MODULE Moderators -----------------------------
(***************************************************************************)
(* Administrators in the chat of a dispute (join_dispute and               *)
(* post_dispute_message in services/admin_panel/app/crud.py): who joined   *)
(* is kept in moderator_hook, which the handlers of the two sides write    *)
(* back from the row they read, in another process.                        *)
(*                                                                         *)
(* A request of an administrator is one transaction that reads the row     *)
(* without a lock.  Requests of one administrator overlap as well as those *)
(* of several, so nothing but the hook says who is known in the chat.      *)
(***************************************************************************)
EXTENDS Naturals

CONSTANTS
  Speakers,      \* administrators
  Chairs,        \* threads of the panel
  Sides          \* threads of the backend, for the two sides

ASSUME NobodyAssumption == "nobody" \notin Speakers

VARIABLES
  awaited,   \* disputes.status is awaiting_moderator
  joined,    \* moderator_hook ->> joined_admin_account_id
  talk,      \* what administrators left in the chat, committed
  chair,     \* per thread of the panel: its transaction
  side       \* per thread of the backend: the hook its handler has read

moderatorVars == <<awaited, joined, talk, chair, side>>

Joined == Speakers \cup {"nobody"}

Chair ==
  [pc   : {"free", "begun", "read"},
   op   : {"join", "post"},
   by   : Joined,                  \* the administrator
   hook : Joined]                  \* current_joined_admin_id

FreeChair == [pc |-> "free", op |-> "join", by |-> "nobody", hook |-> "nobody"]

Side == [pc : {"free", "read"}, hook : Joined]
FreeSide == [pc |-> "free", hook |-> "nobody"]

ModeratorsTypeOK ==
  /\ awaited \in BOOLEAN
  /\ joined \in Joined
  /\ talk \subseteq [kind : {"joined", "message"}, by : Speakers]
  /\ chair \in [Chairs -> Chair]
  /\ side \in [Sides -> Side]

ModeratorsInit ==                  \* the sides are still in the procedure
  /\ awaited = FALSE
  /\ joined = "nobody"
  /\ talk = {}
  /\ chair = [c \in Chairs |-> FreeChair]
  /\ side = [h \in Sides |-> FreeSide]

----------------------------------------------------------------------------
(* Administrators.                                                         *)

AtChair(c, pc) == chair[c].pc = pc
LeaveChair(c) == chair' = [chair EXCEPT ![c] = FreeChair]

BeginTalk(c) ==                    \* _require_active_admin_account
  /\ AtChair(c, "free")
  /\ \E op \in {"join", "post"}, a \in Speakers :
       chair' = [chair EXCEPT ![c] = [FreeChair EXCEPT
                   !.pc = "begun", !.op = op, !.by = a]]
  /\ UNCHANGED <<awaited, joined, talk, side>>

ReadHook(c) ==                     \* no longer awaiting a moderator: 400
  /\ AtChair(c, "begun")
  /\ IF awaited
     THEN chair' = [chair EXCEPT ![c].pc = "read", ![c].hook = joined]
     ELSE LeaveChair(c)
  /\ UNCHANGED <<awaited, joined, talk, side>>

Introduces_First(c) ==             \* mutant: only who joins first
  chair[c].hook = "nobody"

Introduces(c) == chair[c].hook # chair[c].by

Words(c, kind) == [kind |-> kind, by |-> chair[c].by]

Introduction(c) == IF Introduces(c) THEN {Words(c, "joined")} ELSE {}

CommitJoin(c) ==                   \* the hook is written in any case
  /\ AtChair(c, "read") /\ chair[c].op = "join"
  /\ joined' = chair[c].by
  /\ talk' = talk \cup Introduction(c)
  /\ LeaveChair(c)
  /\ UNCHANGED <<awaited, side>>

CommitPost(c) ==
  /\ AtChair(c, "read") /\ chair[c].op = "post"
  /\ joined' = IF Introduces(c) THEN chair[c].by ELSE joined
  /\ talk' = talk \cup Introduction(c) \cup {Words(c, "message")}
  /\ LeaveChair(c)
  /\ UNCHANGED <<awaited, side>>

TalkDies(c) ==                     \* rolled back
  /\ ~AtChair(c, "free")
  /\ LeaveChair(c)
  /\ UNCHANGED <<awaited, joined, talk, side>>

----------------------------------------------------------------------------
(* The two sides, as far as the hook is concerned; Dispute has the rest.   *)

ReadSide(h) ==                     \* submit_final_acceptance
  /\ side[h].pc = "free"
  /\ ~awaited
  /\ side' = [side EXCEPT ![h] = [pc |-> "read", hook |-> joined]]
  /\ UNCHANGED <<awaited, joined, talk, chair>>

WriteSide(h) ==                    \* rejected, accepted by both, or by one
  /\ side[h].pc = "read"
  /\ joined' = side[h].hook
  /\ awaited' \in BOOLEAN
  /\ side' = [side EXCEPT ![h] = FreeSide]
  /\ UNCHANGED <<talk, chair>>

AgreeOption ==                     \* both chose it; the votes start empty
  /\ awaited' = FALSE
  /\ joined' = "nobody"
  /\ UNCHANGED <<talk, chair, side>>

Escalate ==                        \* time-out or no agreement, a new hook
  /\ awaited' = TRUE
  /\ joined' = "nobody"
  /\ UNCHANGED <<talk, chair, side>>

TurnFailed ==                      \* the failed turn leaves the hook alone
  /\ ~awaited
  /\ awaited' = TRUE
  /\ UNCHANGED <<joined, talk, chair, side>>

ModeratorsNext ==
  \/ \E c \in Chairs :
       BeginTalk(c) \/ ReadHook(c) \/ CommitJoin(c) \/ CommitPost(c)
         \/ TalkDies(c)
  \/ \E h \in Sides : ReadSide(h) \/ WriteSide(h)
  \/ AgreeOption
  \/ Escalate
  \/ TurnFailed

ModeratorsSpec == ModeratorsInit /\ [][ModeratorsNext]_moderatorVars

----------------------------------------------------------------------------
(* An administrator is never heard before the sides were told who joined,  *)
(* and the hook never names one they were not told of, although the hook   *)
(* that remembers it is overwritten by other administrators and, with what *)
(* they had read, by handlers of the sides.                                *)
IntroducedFirst ==
  LET Told == {m.by : m \in {m \in talk : m.kind = "joined"}} IN
  /\ \A m \in talk : m.by \in Told
  /\ joined \in Told \cup {"nobody"}
=============================================================================
