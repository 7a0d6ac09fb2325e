---------------------------- MODULE AdminAccess ----------------------------
(***************************************************************************)
(* Accounts and sessions of the administration panel                       *)
(* (services/admin_panel/app/auth.py, the admin access part of crud.py).   *)
(* Refreshing is two commits one after the other;                          *)
(* granting, disabling, enabling and resetting an account check the rows   *)
(* they have read and write in a commit of their own, without locking what *)
(* they checked.                                                           *)
(***************************************************************************)
EXTENDS FiniteSets

CONSTANTS
  Admins,          \* ids the rows of admin_accounts may take
  Managers,        \* those with role admin
  FirstAdmins,     \* the accounts there are at the start
  AdminSessions,   \* ids the rows of admin_sessions may take
  Desks            \* server threads of the panel

ASSUME AdminsAssumption ==
  FirstAdmins \subseteq Admins /\ Managers \subseteq Admins
ASSUME BootstrapAssumption ==      \* the bootstrap creates an administrator
  FirstAdmins \cap Managers # {}
ASSUME AdminSessionsAssumption == AdminSessions # {}

VARIABLES
  account,       \* admin_accounts
  adminSession,  \* admin_sessions
  desk,          \* per thread: the request and what it has read
  clashed        \* history: two requests on accounts have overlapped

adminVars == <<account, adminSession, desk, clashed>>

AccountStatus == {"absent", "active", "disabled"}

AdminSessionRow ==
  [status : {"absent", "live", "revoked"},
   owner  : Admins,
   cut    : BOOLEAN]    \* its access was withdrawn while it was being issued

AdminOp == {"grant", "disable", "enable", "reset"}

Desk ==
  [pc : {"free", "issue", "revoke", "reissue", "admitted", "write"},
   a  : Admins,         \* the account that logs in, refreshes or acts
   s  : AdminSessions,  \* the session of a refresh
   op : AdminOp, target : Admins,
   cut : BOOLEAN]

AnAdmin == CHOOSE a \in Admins : TRUE
AnAdminSession == CHOOSE s \in AdminSessions : TRUE
FreeDesk == [pc |-> "free", a |-> AnAdmin, s |-> AnAdminSession,
             op |-> "grant", target |-> AnAdmin, cut |-> FALSE]

AdminTypeOK ==
  /\ account \in [Admins -> AccountStatus]
  /\ adminSession \in [AdminSessions -> AdminSessionRow]
  /\ desk \in [Desks -> Desk]
  /\ clashed \in BOOLEAN

AdminInit ==
  /\ account = [a \in Admins |->
       IF a \in FirstAdmins THEN "active" ELSE "absent"]
  /\ adminSession = [s \in AdminSessions |->
       [status |-> "absent", owner |-> AnAdmin, cut |-> FALSE]]
  /\ desk = [d \in Desks |-> FreeDesk]
  /\ clashed = FALSE

AtDesk(d, pc) == desk[d].pc = pc
TakeDesk(d, request) ==
  AtDesk(d, "free") /\ desk' = [desk EXCEPT ![d] = request]
DeskGoes(d, pc) == desk' = [desk EXCEPT ![d].pc = pc]
LeaveDesk(d) == desk' = [desk EXCEPT ![d] = FreeDesk]

Active(a) == account[a] = "active"     \* and disabled_at IS NULL

(* A live session of an active account: what refresh and _load_staff_user  *)
(* join.                                                                   *)
Staffs(s) == adminSession[s].status = "live" /\ Active(adminSession[s].owner)

----------------------------------------------------------------------------
(* Login with the right password: the row, then the session.  Failures and *)
(* the lock are the same statements as in Sessions and are left out.       *)

ReadAdminLogin(d) ==
  /\ \E a \in Admins :
       /\ Active(a)
       /\ TakeDesk(d, [FreeDesk EXCEPT !.pc = "issue", !.a = a])
  /\ UNCHANGED <<account, adminSession, clashed>>

IssueAdminSession(d) ==         \* _issue_admin_session
  \E s \in AdminSessions :
    /\ adminSession[s].status = "absent"
    /\ adminSession' = [adminSession EXCEPT ![s] =
         [status |-> "live", owner |-> desk[d].a, cut |-> desk[d].cut]]

IssueAtLogin(d) ==
  /\ AtDesk(d, "issue")
  /\ IssueAdminSession(d)
  /\ LeaveDesk(d)
  /\ UNCHANGED <<account, clashed>>

----------------------------------------------------------------------------
(* Refresh: the old session is revoked in one commit, the new one issued   *)
(* in another.                                                             *)

ReadRefresh(d) ==
  /\ \E s \in AdminSessions :
       /\ Staffs(s)
       /\ TakeDesk(d, [FreeDesk EXCEPT !.pc = "revoke", !.s = s,
                                       !.a = adminSession[s].owner])
  /\ UNCHANGED <<account, adminSession, clashed>>

Ended(ids) ==
  [s \in AdminSessions |->
     IF s \in ids /\ adminSession[s].status = "live"
     THEN [adminSession[s] EXCEPT !.status = "revoked"] ELSE adminSession[s]]

RevokeOld(d) ==
  /\ AtDesk(d, "revoke")
  /\ adminSession' = Ended({desk[d].s})
  /\ DeskGoes(d, "reissue")
  /\ UNCHANGED <<account, clashed>>

Reissue(d) ==
  /\ AtDesk(d, "reissue")
  /\ IssueAdminSession(d)
  /\ LeaveDesk(d)
  /\ UNCHANGED <<account, clashed>>

(* The process is replaced between two commits of a login or a refresh.    *)
DeskDies(d) ==
  /\ desk[d].pc \in {"issue", "revoke", "reissue"}
  /\ LeaveDesk(d)
  /\ UNCHANGED <<account, adminSession, clashed>>

LogoutAdmin ==                  \* revoke_admin_session
  /\ \E s \in AdminSessions :
       /\ adminSession[s].status = "live"
       /\ adminSession' = Ended({s})
  /\ UNCHANGED <<account, desk, clashed>>

----------------------------------------------------------------------------
(* Management of the accounts.                                             *)

Admit(d) ==                     \* _load_staff_user, role admin
  /\ \E s \in AdminSessions :
       /\ Staffs(s)
       /\ adminSession[s].owner \in Managers
       /\ TakeDesk(d, [FreeDesk EXCEPT !.pc = "admitted",
                                       !.a = adminSession[s].owner])
  /\ UNCHANGED <<account, adminSession, clashed>>

MayManage_Oneself(a, op, target) ==   \* mutant: one's own account too
  IF op = "grant" THEN account[target] = "absent"
  ELSE account[target] # "absent"

MayManage(a, op, target) ==
  /\ IF op = "grant" THEN account[target] = "absent"
     ELSE account[target] # "absent"
  /\ op = "disable" => target # a

ReadManage(d) ==
  /\ AtDesk(d, "admitted")
  /\ \/ /\ Active(desk[d].a)          \* _require_admin_access_manager
        /\ \E op \in AdminOp, target \in Admins :
             /\ MayManage(desk[d].a, op, target)
             /\ desk' = [desk EXCEPT ![d].pc = "write", ![d].op = op,
                                     ![d].target = target]
        /\ clashed' = (clashed \/ \E e \in Desks : AtDesk(e, "write"))
     \/ /\ ~Active(desk[d].a)         \* 403
        /\ LeaveDesk(d)
        /\ UNCHANGED clashed
  /\ UNCHANGED <<account, adminSession>>

SessionsOf(a) == {s \in AdminSessions : adminSession[s].owner = a}

(* What is under way for an account whose access is withdrawn.             *)
CutShort(a, desks) ==
  [e \in Desks |->
     IF desks[e].pc \in {"issue", "revoke", "reissue"} /\ desks[e].a = a
     THEN [desks[e] EXCEPT !.cut = TRUE] ELSE desks[e]]

Withdrawn_Sessions(a) == adminSession   \* mutant: the sessions are left alone

Withdrawn(a) == Ended(SessionsOf(a))

WriteManage(d) ==
  LET op == desk[d].op
      target == desk[d].target
      left == [desk EXCEPT ![d] = FreeDesk]
  IN
  /\ AtDesk(d, "write")
  /\ \/ /\ op = "grant"
        /\ account' = IF account[target] # "absent" THEN account
                      ELSE [account EXCEPT ![target] = "active"]
        /\ desk' = left
        /\ UNCHANGED adminSession
     \/ /\ op = "enable"
        /\ account' = [account EXCEPT ![target] = "active"]
        /\ desk' = left
        /\ UNCHANGED adminSession
     \/ /\ op = "disable"
        /\ account' = [account EXCEPT ![target] = "disabled"]
        /\ adminSession' = Withdrawn(target)
        /\ desk' = CutShort(target, left)
     \/ /\ op = "reset"
        /\ adminSession' = Withdrawn(target)
        /\ desk' = CutShort(target, left)
        /\ UNCHANGED account
  /\ UNCHANGED clashed

AdminDesk(d) ==
  \/ ReadAdminLogin(d) \/ IssueAtLogin(d)
  \/ ReadRefresh(d) \/ RevokeOld(d) \/ Reissue(d)
  \/ DeskDies(d) \/ Admit(d) \/ ReadManage(d) \/ WriteManage(d)

AdminNext == (\E d \in Desks : AdminDesk(d)) \/ LogoutAdmin

AdminSpec == AdminInit /\ [][AdminNext]_adminVars

----------------------------------------------------------------------------
(* Properties.                                                             *)

(* "You cannot disable your own admin account": as long as no two requests *)
(* on the accounts overlap, somebody is left who can manage them.  Two     *)
(* administrators who disable each other at the same moment both pass the  *)
(* checks, which lock nothing.                                             *)
AnAdminRemains == clashed \/ \E a \in Managers : Active(a)

(* Access that is withdrawn ends every session, and no login or refresh    *)
(* gives a disabled account another, except one that was already under way *)
(* when the access was withdrawn.                                          *)
NoSessionWhileDisabled ==
  \A s \in AdminSessions :
    adminSession[s].status = "live" /\ ~Active(adminSession[s].owner)
      => adminSession[s].cut
=============================================================================
