------------------------------ MODULE Support ------------------------------
(***************************************************************************)
(* The support threads of one user (app/support.py): finding or creating   *)
(* the thread, merging duplicates into it, posting by both sides.          *)
(*                                                                         *)
(* get_or_create_support_thread is a dozen statements, each a commit of    *)
(* its own, with no unique index behind them; requests of two devices may  *)
(* overlap at every statement and the process may be replaced between two. *)
(* Messages count as the activity they leave on the thread.                *)
(***************************************************************************)
EXTENDS Naturals, Sequences, SequencesExt

CONSTANTS
  MaxThreads,      \* bound on the threads, numbered as they are created
  SupportCalls     \* server threads that execute requests of the user

ASSUME MaxThreadsAssumption == MaxThreads \in Nat \ {0}

VARIABLES
  thread,     \* chat_threads, chat_participants and support_threads
  recent,     \* the threads there are, the one active last first
  serve,      \* per server thread: its request and what it has read
  given,      \* the threads returned to a client of the user
  spoken,     \* the threads the user has posted to
  overlapped  \* history: two searches for the thread have overlapped

supportVars == <<thread, recent, serve, given, spoken, overlapped>>

Threads == 1..MaxThreads

(* ticket: the row of support_threads; touched: last_message_at is set.    *)
SupportThread ==
  [joined : BOOLEAN, archived : BOOLEAN, touched : BOOLEAN,
   ticket : {"none", "open", "closed"}]

Fresh == [joined |-> FALSE, archived |-> FALSE, touched |-> FALSE,
          ticket |-> "none"]

ServePC == {"free", "adopt", "join", "duplicates", "close", "archive",
            "insert thread", "insert ticket", "join new", "return"}

Serve ==
  [pc : ServePC,
   t : Threads,                \* canonical_id, or the thread it creates
   own : BOOLEAN,              \* the ticket that was read exists
   todo : SUBSET Threads,      \* the rest of duplicate_rows
   alone : BOOLEAN]            \* no other request since it began

NoServe == [pc |-> "free", t |-> 1, own |-> FALSE, todo |-> {},
            alone |-> FALSE]

SupportTypeOK ==
  /\ thread \in [Threads -> SupportThread]
  /\ recent \in Seq(Threads)
  /\ serve \in [SupportCalls -> Serve]
  /\ given \subseteq Threads
  /\ spoken \subseteq given
  /\ overlapped \in BOOLEAN

(* Threads of the time before support_threads have no ticket.              *)
SupportInit ==
  /\ \E legacy \in 0..MaxThreads :
       /\ thread = [t \in Threads |->
            IF t <= legacy THEN [Fresh EXCEPT !.joined = TRUE, !.touched = TRUE]
            ELSE Fresh]
       /\ recent = Reverse([i \in 1..legacy |-> i])
  /\ serve = [r \in SupportCalls |-> NoServe]
  /\ given = {}
  /\ spoken = {}
  /\ overlapped = FALSE

AtServe(r, pc) == serve[r].pc = pc
EndServe(r) == serve' = [serve EXCEPT ![r] = NoServe]
ServeGoes(r, pc) == serve' = [serve EXCEPT ![r].pc = pc]

----------------------------------------------------------------------------
(* Activity: COALESCE(last_message_at, updated_at, created_at).            *)

Place(t) == CHOOSE i \in DOMAIN recent : recent[i] = t

First(t) ==                    \* those before it move back by one
  [i \in DOMAIN recent |->
     IF i = 1 THEN t ELSE IF i <= Place(t) THEN recent[i - 1] ELSE recent[i]]

Updated(t) == IF thread[t].touched THEN recent ELSE First(t)

----------------------------------------------------------------------------
(* get_or_create_support_thread.                                           *)

InView(t) == thread[t].joined /\ ~thread[t].archived

Rank(t) ==
  CASE thread[t].ticket = "open" -> 0
    [] thread[t].ticket = "none" -> 1
    [] thread[t].ticket = "closed" -> 2

Candidates == {t \in Range(recent) : InView(t)}

Canonical ==
  CHOOSE t \in Candidates :
    \A x \in Candidates \ {t} :
      \/ Rank(t) < Rank(x)
      \/ Rank(t) = Rank(x) /\ Place(t) < Place(x)

ReadCandidates(r) ==
  LET others == {q \in SupportCalls : ~AtServe(q, "free")}
      begun  == [serve EXCEPT ![r] = [NoServe EXCEPT
                   !.pc = IF Candidates = {} THEN "insert thread" ELSE "adopt",
                   !.t = IF Candidates = {} THEN 1 ELSE Canonical,
                   !.own = Candidates # {} /\ thread[Canonical].ticket # "none",
                   !.alone = (others = {})]]
  IN
  /\ AtServe(r, "free")
  /\ serve' = [q \in SupportCalls |->
       IF q \in others THEN [begun[q] EXCEPT !.alone = FALSE] ELSE begun[q]]
  /\ overlapped' = (overlapped \/ others # {})
  /\ UNCHANGED <<thread, recent, given, spoken>>

Adopt(r) ==
  LET t == serve[r].t IN
  /\ AtServe(r, "adopt")
  /\ IF serve[r].own
     THEN /\ thread' = [thread EXCEPT ![t].ticket = "open"]
          /\ recent' = Updated(t)
     ELSE /\ thread' = [thread EXCEPT ![t].ticket =      \* DO NOTHING
                          IF @ = "none" THEN "open" ELSE @]
          /\ recent' = IF thread[t].ticket = "none" THEN Updated(t) ELSE recent
  /\ ServeGoes(r, "join")
  /\ UNCHANGED <<given, spoken, overlapped>>

Join(r) ==
  /\ AtServe(r, "join")
  /\ thread' = [thread EXCEPT ![serve[r].t].joined = TRUE]
  /\ ServeGoes(r, "duplicates")
  /\ UNCHANGED <<recent, given, spoken, overlapped>>

NextDuplicate(todo) == IF todo = {} THEN "return" ELSE "close"

Duplicates_WithSelf(t) == Candidates    \* mutant: it too

Duplicates_OfOwn(t) ==         \* mutant: threads without a ticket are spared
  {x \in Candidates \ {t} : thread[x].ticket # "none"}

Duplicates(t) == Candidates \ {t}

(* The duplicate the loop is at; in which order it takes them is of no     *)
(* consequence.                                                            *)
Duplicate(r) == CHOOSE x \in serve[r].todo : TRUE

ReadDuplicates(r) ==
  LET todo == Duplicates(serve[r].t) IN
  /\ AtServe(r, "duplicates")
  /\ serve' = [serve EXCEPT ![r].todo = todo, ![r].pc = NextDuplicate(todo)]
  /\ UNCHANGED <<thread, recent, given, spoken, overlapped>>

CloseDuplicate(r) ==
  LET t == Duplicate(r) IN
  /\ AtServe(r, "close")
  /\ IF thread[t].ticket = "open"
     THEN /\ thread' = [thread EXCEPT ![t].ticket = "closed"]
          /\ recent' = Updated(t)
     ELSE UNCHANGED <<thread, recent>>
  /\ ServeGoes(r, "archive")
  /\ UNCHANGED <<given, spoken, overlapped>>

ArchiveDuplicate(r) ==
  LET rest == serve[r].todo \ {Duplicate(r)} IN
  /\ AtServe(r, "archive")
  /\ thread' = [thread EXCEPT ![Duplicate(r)].archived = TRUE]
  /\ serve' = [serve EXCEPT ![r].todo = rest, ![r].pc = NextDuplicate(rest)]
  /\ UNCHANGED <<recent, given, spoken, overlapped>>

InsertThread(r) ==
  /\ AtServe(r, "insert thread")
  /\ Len(recent) < MaxThreads
  /\ LET t == Len(recent) + 1 IN
       /\ recent' = <<t>> \o recent
       /\ serve' = [serve EXCEPT ![r].t = t, ![r].pc = "insert ticket"]
  /\ UNCHANGED <<thread, given, spoken, overlapped>>

InsertTicket(r) ==
  /\ AtServe(r, "insert ticket")
  /\ thread' = [thread EXCEPT ![serve[r].t].ticket = "open"]
  /\ recent' = Updated(serve[r].t)
  /\ ServeGoes(r, "join new")
  /\ UNCHANGED <<given, spoken, overlapped>>

JoinNew(r) ==
  /\ AtServe(r, "join new")
  /\ thread' = [thread EXCEPT ![serve[r].t].joined = TRUE]
  /\ ServeGoes(r, "return")
  /\ UNCHANGED <<recent, given, spoken, overlapped>>

ReturnThread(r) ==
  /\ AtServe(r, "return")
  /\ given' = given \cup {serve[r].t}
  /\ EndServe(r)
  /\ UNCHANGED <<thread, recent, spoken, overlapped>>

ServeDies(r) ==
  /\ ~AtServe(r, "free")
  /\ EndServe(r)
  /\ UNCHANGED <<thread, recent, given, spoken, overlapped>>

----------------------------------------------------------------------------
(* Messages: of the user, whose client posts to a thread it was given, and *)
(* of an administrator, who posts to any thread with a ticket.             *)

Touched(t) ==
  /\ thread' = [thread EXCEPT ![t].touched = TRUE]
  /\ recent' = First(t)

PostByUser ==
  /\ \E t \in given :
       /\ Touched(t)
       /\ spoken' = spoken \cup {t}
  /\ UNCHANGED <<serve, given, overlapped>>

PostByAdmin ==
  /\ \E t \in Threads : thread[t].ticket # "none" /\ Touched(t)
  /\ UNCHANGED <<serve, given, spoken, overlapped>>

SupportCall(r) ==
  \/ ReadCandidates(r) \/ Adopt(r) \/ Join(r)
  \/ ReadDuplicates(r) \/ CloseDuplicate(r) \/ ArchiveDuplicate(r)
  \/ InsertThread(r) \/ InsertTicket(r) \/ JoinNew(r)
  \/ ReturnThread(r) \/ ServeDies(r)

SupportNext ==
  \/ \E r \in SupportCalls : SupportCall(r)
  \/ PostByUser
  \/ PostByAdmin

SupportSpec == SupportInit /\ [][SupportNext]_supportVars

----------------------------------------------------------------------------
(* Properties.                                                             *)

(* Whatever overlapping requests and processes that died have left behind, *)
(* a call that nothing overlaps repairs it: the thread it returns has an   *)
(* open ticket and is the only one the user still sees.                    *)
QuietCallHeals ==
  \A r \in SupportCalls :
    AtServe(r, "return") /\ serve[r].alone =>
      /\ Candidates = {serve[r].t}
      /\ thread[serve[r].t].ticket = "open"

(* As long as the searches of the user do not overlap, what the user has   *)
(* posted stays in an open ticket in view of both sides, even when some of *)
(* the searches died halfway.                                              *)
UserStaysHeard ==
  ~overlapped => \A t \in spoken : InView(t) /\ thread[t].ticket = "open"
=============================================================================
