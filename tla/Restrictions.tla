---------------------------- MODULE Restrictions ----------------------------
(***************************************************************************)
(* Reports and the restrictions that follow from them (app/main.py,        *)
(* app/ops.py, services/admin_panel/app/crud.py): reporting, resolving,    *)
(* restricting by hand, extending and revoking.                            *)
(*                                                                         *)
(* Every operation of the panel reads the row it is about, without a lock, *)
(* and writes by id in one commit, so the requests of two moderators may   *)
(* overlap between the two.  Writes record who made them in columns that   *)
(* refer to users, although a moderator acts under the id of an            *)
(* admin_accounts row: the database refuses an id users does not have.  It *)
(* also refuses a restriction that ends before it starts, and the panel    *)
(* passes on whatever time it is given.                                    *)
(***************************************************************************)
EXTENDS Naturals

CONSTANTS
  Reports,         \* ids the rows of reports may take
  Measures,        \* ids the rows of user_restrictions may take
  Outcomes,        \* the outcomes that restrict (_ACTIONABLE_REPORT_OUTCOMES)
  Moderators,      \* server threads of the panel, each with its moderator
  KnownAsUsers,    \* those who act under an id of users
  MaxEnd           \* bound on the time a restriction still lasts

ASSUME KnownAssumption == KnownAsUsers \subseteq Moderators
ASSUME OutcomesAssumption == Outcomes \cap {"none", "no_action"} = {}
ASSUME IdsAssumption == "none" \notin Reports \cup Measures
ASSUME MaxEndAssumption == MaxEnd \in Nat \ {0}

VARIABLES
  report,    \* reports
  measure,   \* user_restrictions
  verdict,   \* per moderator: the request and what it has read
  lifted     \* history: the restrictions that were revoked

restrictVars == <<report, measure, verdict, lifted>>

Endless == MaxEnd + 1                       \* ends_at IS NULL

(* A system message has no sender to restrict.                             *)
Target == {"somebody", "system message"}

ReportRow ==
  [status  : {"absent", "open", "resolved"},
   target  : Target,
   outcome : Outcomes \cup {"none", "no_action"}]     \* resolution

MeasureRow ==
  [status : {"absent", "active", "revoked", "erased"},
   type   : Outcomes \cup {"none"},
   source : Reports \cup {"none"},                  \* source_id
   ends   : 0..Endless]                               \* ends_at, time left

Verdict ==
  [pc : {"free", "resolve", "restrict", "extend", "revoke", "answered"},
   r : Reports \cup {"none"},
   x : Measures \cup {"none"},
   outcome : Outcomes \cup {"none", "no_action"}]

NoVerdict ==
  [pc |-> "free", r |-> "none", x |-> "none", outcome |-> "none"]

RestrictTypeOK ==
  /\ report \in [Reports -> ReportRow]
  /\ measure \in [Measures -> MeasureRow]
  /\ verdict \in [Moderators -> Verdict]
  /\ lifted \subseteq Measures

RestrictInit ==
  /\ report = [r \in Reports |->
       [status |-> "absent", target |-> "somebody", outcome |-> "none"]]
  /\ measure = [x \in Measures |->
       [status |-> "absent", type |-> "none", source |-> "none", ends |-> 0]]
  /\ verdict = [m \in Moderators |-> NoVerdict]
  /\ lifted = {}

AtVerdict(m, pc) == verdict[m].pc = pc
BeginVerdict(m, request) ==
  AtVerdict(m, "free") /\ verdict' = [verdict EXCEPT ![m] = request]
LeaveVerdict(m) == verdict' = [verdict EXCEPT ![m] = NoVerdict]
AnswerVerdict(m) == verdict' = [verdict EXCEPT ![m].pc = "answered"]

SubmitReport ==
  /\ \E r \in Reports, target \in Target :
       /\ report[r].status = "absent"
       /\ report' = [report EXCEPT ![r] =
            [status |-> "open", target |-> target, outcome |-> "none"]]
  /\ UNCHANGED <<measure, verdict, lifted>>

----------------------------------------------------------------------------
(* Restricting, as a part of a resolution or by hand.                      *)

(* create_restriction: what its INSERT leaves.                             *)
Restricted(x, type, source, ends) ==
  [measure EXCEPT ![x] =
     [status |-> "active", type |-> type, source |-> source, ends |-> ends]]

ReadReport(m) ==
  /\ \E r \in Reports, outcome \in Outcomes \cup {"no_action"} :
       /\ report[r].status # "absent"
       /\ BeginVerdict(m, [NoVerdict EXCEPT !.pc = "resolve", !.r = r,
                                            !.outcome = outcome])
  /\ UNCHANGED <<report, measure, lifted>>

Settled(r, outcome) ==
  [report EXCEPT ![r].status = "resolved", ![r].outcome = outcome]

(* Mutant: the report was committed before the restriction is tried.       *)
RolledBack_Settled(r, outcome) == Settled(r, outcome)

RolledBack(r, outcome) == report

(* The reference of issued_by, and chk_user_restrictions_time_order: an    *)
(* ends of 0 is a time in the past.                                        *)
Insertable(m, ends) == m \in KnownAsUsers /\ ends > 0

Restrictable(r) ==                 \* _report_target_user_id finds somebody
  report[r].target = "somebody"

(* resolve_report, one transaction: it may resolve a report again.         *)
WriteResolution(m) ==
  LET r == verdict[m].r
      outcome == verdict[m].outcome
  IN
  /\ AtVerdict(m, "resolve")
  /\ \E ends \in 0..Endless :
       \/ /\ outcome = "no_action"
          /\ report' = Settled(r, outcome)
          /\ UNCHANGED measure
       \/ /\ outcome # "no_action"
          /\ Restrictable(r) /\ Insertable(m, ends)
          /\ \E x \in Measures :
               /\ measure[x].status = "absent"
               /\ measure' = Restricted(x, outcome, r, ends)
          /\ report' = Settled(r, outcome)
       \/ /\ outcome # "no_action"                     \* 400 or 500
          /\ ~Restrictable(r) \/ ~Insertable(m, ends)
          /\ report' = RolledBack(r, outcome)
          /\ UNCHANGED measure
  /\ AnswerVerdict(m)
  /\ UNCHANGED lifted

DecideByHand(m) ==
  /\ \E type \in Outcomes :
       BeginVerdict(m, [NoVerdict EXCEPT !.pc = "restrict", !.outcome = type])
  /\ UNCHANGED <<report, measure, lifted>>

WriteRestriction(m) ==
  /\ AtVerdict(m, "restrict")
  /\ \E ends \in 0..Endless :
       \/ /\ Insertable(m, ends)
          /\ \E x \in Measures :
               /\ measure[x].status = "absent"
               /\ measure' = Restricted(x, verdict[m].outcome, "none", ends)
       \/ /\ ~Insertable(m, ends)
          /\ UNCHANGED measure
  /\ LeaveVerdict(m)
  /\ UNCHANGED <<report, lifted>>

----------------------------------------------------------------------------
(* Extending and revoking.                                                 *)

(* extend_restriction and revoke_restriction leave a revoked one alone.    *)
ReadMeasure(m) ==
  /\ \E x \in Measures, pc \in {"extend", "revoke"} :
       /\ measure[x].status = "active"
       /\ BeginVerdict(m, [NoVerdict EXCEPT !.pc = pc, !.x = x])
  /\ UNCHANGED <<report, measure, lifted>>

Extended_Anew(row, ends) ==          \* mutant: and puts it in force again
  [row EXCEPT !.ends = ends, !.status = "active"]

Extended(row, ends) == [row EXCEPT !.ends = ends]

(* An UPDATE by id; a row erased meanwhile is not there to be written, and *)
(* a time in the past is refused when it is before starts_at.              *)
WriteExtension(m) ==
  LET x == verdict[m].x IN
  /\ AtVerdict(m, "extend")
  /\ \E ends \in 0..MaxEnd :
       \/ /\ measure[x].status # "erased"
          /\ measure' = [measure EXCEPT ![x] = Extended(@, ends)]
       \/ /\ measure[x].status = "erased" \/ ends = 0
          /\ UNCHANGED measure
  /\ LeaveVerdict(m)
  /\ UNCHANGED <<report, lifted>>

WriteRevocation(m) ==
  LET x == verdict[m].x IN
  /\ AtVerdict(m, "revoke")
  /\ \/ /\ m \in KnownAsUsers /\ measure[x].status # "erased"  \* revoked_by
        /\ measure' = [measure EXCEPT ![x].status = "revoked"]
        /\ lifted' = lifted \cup {x}
     \/ /\ m \notin KnownAsUsers \/ measure[x].status = "erased"
        /\ UNCHANGED <<measure, lifted>>
  /\ LeaveVerdict(m)
  /\ UNCHANGED report

EndVerdict(m) ==                     \* the answer, or the request dies
  /\ ~AtVerdict(m, "free")
  /\ LeaveVerdict(m)
  /\ UNCHANGED <<report, measure, lifted>>

----------------------------------------------------------------------------
(* The user whom the reports are about deletes its data, with them the     *)
(* restrictions; reports about its tasks and messages stay.                *)
EraseMeasures ==
  /\ measure' = [x \in Measures |-> [measure[x] EXCEPT
       !.status = IF @ = "absent" THEN @ ELSE "erased"]]
  /\ measure' # measure
  /\ UNCHANGED <<report, verdict, lifted>>

MeasuresAge ==
  /\ measure' = [x \in Measures |-> [measure[x] EXCEPT
       !.ends = IF @ \in 1..MaxEnd THEN @ - 1 ELSE @]]
  /\ measure' # measure
  /\ UNCHANGED <<report, verdict, lifted>>

Moderate(m) ==
  \/ ReadReport(m) \/ WriteResolution(m)
  \/ DecideByHand(m) \/ WriteRestriction(m)
  \/ ReadMeasure(m) \/ WriteExtension(m) \/ WriteRevocation(m)
  \/ EndVerdict(m)

RestrictNext ==
  \/ SubmitReport
  \/ \E m \in Moderators : Moderate(m)
  \/ EraseMeasures
  \/ MeasuresAge

RestrictSpec == RestrictInit /\ [][RestrictNext]_restrictVars

----------------------------------------------------------------------------
(* Properties.                                                             *)

InForce(x) ==                        \* active_user_restriction_types
  measure[x].status = "active" /\ measure[x].ends > 0

(* A restriction that was revoked does not block its user again, although  *)
(* another moderator, who read it before, extends it afterwards.           *)
LiftedIsOver == \A x \in lifted : ~InForce(x)

(* A report that shows an outcome that restricts has led to a restriction  *)
(* of that kind: a resolution that cannot restrict leaves the report as it *)
(* was, and one that overlaps with it does not take its restriction away.  *)
OutcomeHasRestriction ==
  \A r \in Reports :
    report[r].outcome \in Outcomes =>
      \E x \in Measures :
        /\ measure[x].source = r
        /\ measure[x].type = report[r].outcome

(* "Report resolution creates canonical restriction": once a moderator has *)
(* resolved a report about somebody with an outcome that restricts, the    *)
(* restriction is there.                                                   *)
ResolutionRestricts ==
  \A m \in Moderators :
    LET v == verdict[m] IN
    v.pc = "answered" /\ v.r \in Reports /\ v.outcome \in Outcomes
      /\ report[v.r].target = "somebody"
      => \E x \in Measures :
           measure[x].source = v.r /\ measure[x].type = v.outcome
=============================================================================
