--------------------------- MODULE AccountProofs ---------------------------
(***************************************************************************)
(* Proofs about accounts and what is decided about them, for any number of *)
(* accounts, reports, restrictions, photos, reviews and requests:          *)
(*   - AdminAccess: access withdrawn stays withdrawn, and somebody remains *)
(*     who can manage the accounts;                                        *)
(*   - Restrictions: what is lifted is over, and outcomes are real;        *)
(*   - Moderators: nobody is heard in a dispute before being introduced;   *)
(*   - AccountData: the storage keeps what the rows refer to, and a deleted*)
(*     account leaves nothing live, unless a request ran beside it;        *)
(*   - Reviews: a submission or deletion that nothing overlaps sets the    *)
(*     ratings right.                                                      *)
(***************************************************************************)
EXTENDS AdminAccess, Restrictions, Moderators, AccountData, Reviews, TLAPS

----------------------------------------------------------------------------
(* Type correctness.                                                       *)

LEMMA FreeDeskType == FreeDesk \in Desk /\ AnAdmin \in Admins
  <1>1. AnAdmin \in Admins
    BY AdminsAssumption, BootstrapAssumption DEF AnAdmin
  <1>2. AnAdminSession \in AdminSessions
    BY AdminSessionsAssumption DEF AnAdminSession
  <1> QED BY <1>1, <1>2 DEF FreeDesk, Desk, AdminOp

LEMMA AdminInitType == AdminInit => AdminTypeOK
  <1> SUFFICES ASSUME AdminInit PROVE AdminTypeOK
    OBVIOUS
  <1>1. account \in [Admins -> AccountStatus]
    BY DEF AdminInit, AccountStatus
  <1>2. adminSession \in [AdminSessions -> AdminSessionRow]
    BY FreeDeskType DEF AdminInit, AdminSessionRow
  <1>3. desk \in [Desks -> Desk] /\ clashed \in BOOLEAN
    BY FreeDeskType DEF AdminInit
  <1> QED BY <1>1, <1>2, <1>3 DEF AdminTypeOK

LEMMA EndedType ==
  ASSUME AdminTypeOK, NEW ids
  PROVE  Ended(ids) \in [AdminSessions -> AdminSessionRow]
  BY DEF AdminTypeOK, AdminSessionRow, Ended

LEMMA CutShortType ==
  ASSUME NEW desks \in [Desks -> Desk], NEW a
  PROVE  CutShort(a, desks) \in [Desks -> Desk]
  BY DEF CutShort, Desk

LEMMA LeaveType ==
  ASSUME AdminTypeOK, NEW d \in Desks
  PROVE  /\ [desk EXCEPT ![d] = FreeDesk] \in [Desks -> Desk]
         /\ LeaveDesk(d) => desk' \in [Desks -> Desk]
  BY FreeDeskType DEF AdminTypeOK, LeaveDesk

LEMMA ManageTakes ==
  ASSUME AdminTypeOK, NEW d \in Desks, ReadManage(d)
  PROVE  \A e \in Desks :
           desk'[e] = desk[e] \/ desk'[e].pc \in {"write", "free"}
  <1>1. desk \in [Desks -> Desk] /\ FreeDesk.pc = "free"
    BY DEF AdminTypeOK, FreeDesk
  <1>2. CASE LeaveDesk(d)
    BY <1>1, <1>2 DEF LeaveDesk
  <1>3. ASSUME NEW op \in AdminOp, NEW target \in Admins,
               desk' = [desk EXCEPT ![d].pc = "write", ![d].op = op,
                                    ![d].target = target]
        PROVE  \A e \in Desks : desk'[e] = desk[e] \/ desk'[e].pc = "write"
    BY <1>1, <1>3 DEF Desk
  <1> QED BY <1>2, <1>3 DEF ReadManage

LEMMA AdminIssueType ==
  ASSUME AdminTypeOK, NEW d \in Desks, IssueAdminSession(d)
  PROVE  adminSession' \in [AdminSessions -> AdminSessionRow]
  BY DEF AdminTypeOK, AdminSessionRow, Desk, IssueAdminSession

LEMMA AdminNextType == AdminTypeOK /\ [AdminNext]_adminVars => AdminTypeOK'
  <1> SUFFICES ASSUME AdminTypeOK, [AdminNext]_adminVars PROVE AdminTypeOK'
    OBVIOUS
  <1>1. ASSUME NEW d \in Desks, ReadAdminLogin(d) PROVE AdminTypeOK'
    <2>1. PICK a \in Admins :
            desk' = [desk EXCEPT ![d] = [FreeDesk EXCEPT !.pc = "issue", !.a = a]]
      BY <1>1 DEF ReadAdminLogin, TakeDesk
    <2>2. [FreeDesk EXCEPT !.pc = "issue", !.a = a] \in Desk
      BY FreeDeskType DEF Desk
    <2> QED BY <1>1, <2>1, <2>2 DEF ReadAdminLogin, AdminTypeOK
  <1>2. ASSUME NEW d \in Desks, IssueAtLogin(d) PROVE AdminTypeOK'
    BY <1>2, LeaveType, AdminIssueType DEF IssueAtLogin, AdminTypeOK
  <1>3. ASSUME NEW d \in Desks, ReadRefresh(d) PROVE AdminTypeOK'
    <2>1. PICK s \in AdminSessions :
            desk' = [desk EXCEPT ![d] = [FreeDesk EXCEPT !.pc = "revoke",
                       !.s = s, !.a = adminSession[s].owner]]
      BY <1>3 DEF ReadRefresh, TakeDesk
    <2>2. adminSession[s].owner \in Admins
      BY DEF AdminTypeOK, AdminSessionRow
    <2>3. [FreeDesk EXCEPT !.pc = "revoke", !.s = s,
                           !.a = adminSession[s].owner] \in Desk
      BY <2>2, FreeDeskType DEF Desk
    <2> QED BY <1>3, <2>1, <2>3 DEF ReadRefresh, AdminTypeOK
  <1>4. ASSUME NEW d \in Desks, RevokeOld(d) PROVE AdminTypeOK'
    BY <1>4, EndedType DEF RevokeOld, DeskGoes, AdminTypeOK, Desk
  <1>5. ASSUME NEW d \in Desks, Reissue(d) PROVE AdminTypeOK'
    BY <1>5, LeaveType, AdminIssueType DEF Reissue, AdminTypeOK
  <1>6. ASSUME NEW d \in Desks, DeskDies(d) PROVE AdminTypeOK'
    BY <1>6, LeaveType DEF DeskDies, AdminTypeOK
  <1>7. ASSUME NEW d \in Desks, Admit(d) PROVE AdminTypeOK'
    <2>1. PICK s \in AdminSessions :
            desk' = [desk EXCEPT ![d] = [FreeDesk EXCEPT !.pc = "admitted",
                       !.a = adminSession[s].owner]]
      BY <1>7 DEF Admit, TakeDesk
    <2>2. adminSession[s].owner \in Admins
      BY DEF AdminTypeOK, AdminSessionRow
    <2>3. [FreeDesk EXCEPT !.pc = "admitted", !.a = adminSession[s].owner]
            \in Desk
      BY <2>2, FreeDeskType DEF Desk
    <2> QED BY <1>7, <2>1, <2>3 DEF Admit, AdminTypeOK
  <1>8. ASSUME NEW d \in Desks, ReadManage(d) PROVE AdminTypeOK'
    <2>1. clashed' \in BOOLEAN
      BY <1>8 DEF ReadManage, AdminTypeOK
    <2>2. desk' \in [Desks -> Desk]
      <3>1. CASE LeaveDesk(d)
        BY <3>1, LeaveType
      <3>2. ASSUME NEW op \in AdminOp, NEW target \in Admins,
                   desk' = [desk EXCEPT ![d].pc = "write", ![d].op = op,
                                        ![d].target = target]
            PROVE  desk' \in [Desks -> Desk]
        <4>1. desk \in [Desks -> Desk]
          BY DEF AdminTypeOK
        <4>2. [desk[d] EXCEPT !.pc = "write", !.op = op,
                              !.target = target] \in Desk
          BY <4>1 DEF Desk
        <4>3. desk' = [desk EXCEPT ![d] =
                         [desk[d] EXCEPT !.pc = "write", !.op = op,
                                         !.target = target]]
          BY <3>2, <4>1 DEF Desk
        <4> QED BY <4>1, <4>2, <4>3
      <3> QED BY <1>8, <3>1, <3>2 DEF ReadManage
    <2> QED BY <1>8, <2>1, <2>2 DEF ReadManage, AdminTypeOK
  <1>9. ASSUME NEW d \in Desks, WriteManage(d) PROVE AdminTypeOK'
    <2>1. account' \in [Admins -> AccountStatus]
      BY <1>9 DEF WriteManage, AdminTypeOK, AccountStatus
    <2>2. adminSession' \in [AdminSessions -> AdminSessionRow]
      BY <1>9, EndedType DEF WriteManage, Withdrawn, AdminTypeOK
    <2>3. desk' \in [Desks -> Desk]
      BY <1>9, LeaveType, CutShortType DEF WriteManage
    <2> QED BY <1>9, <2>1, <2>2, <2>3 DEF WriteManage, AdminTypeOK
  <1>10. CASE LogoutAdmin
    BY <1>10, EndedType DEF LogoutAdmin, AdminTypeOK
  <1>11. CASE UNCHANGED adminVars
    BY <1>11 DEF adminVars, AdminTypeOK
  <1> QED
    BY <1>1, <1>2, <1>3, <1>4, <1>5, <1>6, <1>7, <1>8, <1>9, <1>10, <1>11
       DEF AdminNext, AdminDesk

----------------------------------------------------------------------------
(* Withdrawn access stays withdrawn.  A session that is being issued to an *)
(* account that is no longer active was cut short, as the session will be. *)

Issuing == {"issue", "revoke", "reissue"}

CutWhileIssuing ==
  \A d \in Desks :
    desk[d].pc \in Issuing /\ ~Active(desk[d].a) => desk[d].cut

WithdrawnInv == NoSessionWhileDisabled /\ CutWhileIssuing

LEMMA WithdrawnInit == AdminInit => WithdrawnInv
  BY DEF AdminInit, WithdrawnInv, NoSessionWhileDisabled, CutWhileIssuing,
         FreeDesk, Issuing

(* A step that leaves accounts alone and ends sessions at most.            *)
LEMMA EndedKeeps ==
  ASSUME AdminTypeOK, WithdrawnInv, NEW ids,
         UNCHANGED account, adminSession' = Ended(ids)
  PROVE  NoSessionWhileDisabled'
  BY DEF AdminTypeOK, AdminSessionRow, WithdrawnInv, NoSessionWhileDisabled,
         Ended, Active

LEMMA IssueKeeps ==
  ASSUME AdminTypeOK, WithdrawnInv, NEW d \in Desks, desk[d].pc \in Issuing,
         IssueAdminSession(d), LeaveDesk(d), UNCHANGED account
  PROVE  WithdrawnInv'
  <1>1. NoSessionWhileDisabled'
    <2>1. PICK s \in AdminSessions :
            adminSession' = [adminSession EXCEPT ![s] =
              [status |-> "live", owner |-> desk[d].a, cut |-> desk[d].cut]]
      BY DEF IssueAdminSession
    <2>2. ~Active(desk[d].a) => desk[d].cut
      BY DEF WithdrawnInv, CutWhileIssuing
    <2> QED BY <2>1, <2>2
               DEF AdminTypeOK, WithdrawnInv, NoSessionWhileDisabled, Active
  <1>2. CutWhileIssuing'
    BY DEF WithdrawnInv, CutWhileIssuing, LeaveDesk, Active, AdminTypeOK,
           FreeDesk, Issuing
  <1> QED BY <1>1, <1>2 DEF WithdrawnInv

LEMMA WithdrawnWrite ==
  ASSUME AdminTypeOK, WithdrawnInv, NEW d \in Desks, WriteManage(d)
  PROVE  WithdrawnInv'
  <1> DEFINE target == desk[d].target
             left == [desk EXCEPT ![d] = FreeDesk]
  <1>1. /\ \A e \in Desks \ {d} : left[e] = desk[e]
        /\ left[d].pc = "free" /\ left \in [Desks -> Desk]
        /\ target \in Admins
    BY FreeDeskType DEF AdminTypeOK, FreeDesk, Desk
  <1>2. CASE desk[d].op \in {"grant", "enable"}
    <2>1. /\ \A a \in Admins : Active(a) => Active(a)'
          /\ desk' = left /\ adminSession' = adminSession
      BY <1>2 DEF WriteManage, Active, AdminTypeOK
    <2>2. /\ \A e \in Desks : desk[e].a \in Admins
          /\ \A s \in AdminSessions : adminSession[s].owner \in Admins
      BY DEF AdminTypeOK, Desk, AdminSessionRow
    <2>3. NoSessionWhileDisabled'
      BY <2>1, <2>2 DEF WithdrawnInv, NoSessionWhileDisabled
    <2>4. CutWhileIssuing'
      BY <2>1, <2>2, <1>1 DEF WithdrawnInv, CutWhileIssuing, Issuing
    <2> QED BY <2>3, <2>4 DEF WithdrawnInv
  <1>3. CASE desk[d].op \in {"disable", "reset"}
    <2>1. /\ adminSession' = Ended(SessionsOf(target))
          /\ desk' = CutShort(target, left)
          /\ \A a \in Admins \ {target} : account'[a] = account[a]
      BY <1>3 DEF WriteManage, Withdrawn, AdminTypeOK
    <2>2. NoSessionWhileDisabled'
      <3> SUFFICES ASSUME NEW s \in AdminSessions,
                          adminSession'[s].status = "live",
                          ~Active(adminSession[s].owner)'
                   PROVE  adminSession'[s].cut
        BY DEF NoSessionWhileDisabled
      <3>1. s \notin SessionsOf(target) /\ adminSession'[s] = adminSession[s]
        BY <2>1 DEF Ended, AdminTypeOK, AdminSessionRow
      <3>2. adminSession[s].owner \in Admins \ {target}
        BY <3>1 DEF SessionsOf, AdminTypeOK, AdminSessionRow
      <3> QED BY <2>1, <3>1, <3>2
                 DEF WithdrawnInv, NoSessionWhileDisabled, Active
    <2>3. CutWhileIssuing'
      <3> SUFFICES ASSUME NEW e \in Desks, desk'[e].pc \in Issuing,
                          ~Active(desk[e].a)'
                   PROVE  desk'[e].cut
        BY DEF CutWhileIssuing
      <3>1. /\ desk'[e] = IF left[e].pc \in Issuing /\ left[e].a = target
                          THEN [left[e] EXCEPT !.cut = TRUE] ELSE left[e]
            /\ left[e] \in Desk
        BY <2>1, <1>1 DEF CutShort, Issuing
      <3>2. e # d /\ left[e] = desk[e]
        BY <3>1, <1>1 DEF Issuing, Desk
      <3>3. CASE desk[e].a = target
        BY <3>1, <3>2, <3>3 DEF Issuing, Desk
      <3>4. CASE desk[e].a # target
        <4>1. desk'[e] = desk[e] /\ desk[e].a \in Admins \ {target}
          BY <3>1, <3>2, <3>4 DEF Desk
        <4> QED BY <4>1, <2>1 DEF WithdrawnInv, CutWhileIssuing, Active
      <3> QED BY <3>3, <3>4
    <2> QED BY <2>2, <2>3 DEF WithdrawnInv
  <1>4. desk[d].op \in AdminOp
    BY DEF AdminTypeOK, Desk
  <1> QED BY <1>2, <1>3, <1>4 DEF AdminOp

LEMMA WithdrawnNext ==
  AdminTypeOK /\ WithdrawnInv /\ [AdminNext]_adminVars => WithdrawnInv'
  <1> SUFFICES ASSUME AdminTypeOK, WithdrawnInv, [AdminNext]_adminVars
               PROVE  WithdrawnInv'
    OBVIOUS
  <1> USE DEF Issuing
  <1>1. ASSUME NEW d \in Desks, ReadAdminLogin(d) PROVE WithdrawnInv'
    BY <1>1 DEF ReadAdminLogin, TakeDesk, FreeDesk, AdminTypeOK, WithdrawnInv,
                NoSessionWhileDisabled, CutWhileIssuing, Active
  <1>2. ASSUME NEW d \in Desks, IssueAtLogin(d) \/ Reissue(d)
        PROVE  WithdrawnInv'
    BY <1>2, IssueKeeps DEF IssueAtLogin, Reissue, AtDesk
  <1>3. ASSUME NEW d \in Desks, ReadRefresh(d) PROVE WithdrawnInv'
    <2>1. PICK s \in AdminSessions :
            /\ Staffs(s)
            /\ desk' = [desk EXCEPT ![d] = [FreeDesk EXCEPT !.pc = "revoke",
                          !.s = s, !.a = adminSession[s].owner]]
      BY <1>3 DEF ReadRefresh, TakeDesk
    <2>2. desk'[d].a = adminSession[s].owner /\ Active(adminSession[s].owner)
      BY <2>1 DEF Staffs, FreeDesk, AdminTypeOK
    <2> QED BY <1>3, <2>1, <2>2
               DEF ReadRefresh, AdminTypeOK, WithdrawnInv,
                   NoSessionWhileDisabled, CutWhileIssuing, Active
  <1>4. ASSUME NEW d \in Desks, RevokeOld(d) PROVE WithdrawnInv'
    <2>1. NoSessionWhileDisabled'
      BY <1>4, EndedKeeps DEF RevokeOld
    <2>2. CutWhileIssuing'
      BY <1>4 DEF RevokeOld, AtDesk, DeskGoes, AdminTypeOK, Desk, WithdrawnInv,
                  CutWhileIssuing, Active
    <2> QED BY <2>1, <2>2 DEF WithdrawnInv
  <1>5. ASSUME NEW d \in Desks, DeskDies(d) PROVE WithdrawnInv'
    BY <1>5 DEF DeskDies, LeaveDesk, FreeDesk, AdminTypeOK, WithdrawnInv,
                NoSessionWhileDisabled, CutWhileIssuing, Active
  <1>6. ASSUME NEW d \in Desks, Admit(d) PROVE WithdrawnInv'
    <2>1. \A e \in Desks : desk'[e] = desk[e] \/ desk'[e].pc = "admitted"
      BY <1>6 DEF Admit, TakeDesk, FreeDesk, AdminTypeOK
    <2> QED BY <1>6, <2>1 DEF Admit, WithdrawnInv, NoSessionWhileDisabled,
                              CutWhileIssuing, Active
  <1>7. ASSUME NEW d \in Desks, ReadManage(d) PROVE WithdrawnInv'
    <2>1. \A e \in Desks : desk'[e] = desk[e] \/ desk'[e].pc \in {"write", "free"}
      BY <1>7, ManageTakes
    <2> QED BY <1>7, <2>1 DEF ReadManage, WithdrawnInv,
                              NoSessionWhileDisabled, CutWhileIssuing, Active
  <1>8. ASSUME NEW d \in Desks, WriteManage(d) PROVE WithdrawnInv'
    BY <1>8, WithdrawnWrite
  <1>9. CASE LogoutAdmin
    <2>1. NoSessionWhileDisabled'
      BY <1>9, EndedKeeps DEF LogoutAdmin
    <2> QED BY <1>9, <2>1
               DEF LogoutAdmin, WithdrawnInv, CutWhileIssuing, Active
  <1>10. CASE UNCHANGED adminVars
    BY <1>10 DEF adminVars, WithdrawnInv, NoSessionWhileDisabled,
                 CutWhileIssuing, Active
  <1> QED
    BY <1>1, <1>2, <1>3, <1>4, <1>5, <1>6, <1>7, <1>8, <1>9, <1>10
       DEF AdminNext, AdminDesk

----------------------------------------------------------------------------
(* Somebody remains.  Until two requests on accounts overlap, one desk at  *)
(* most is about to write, for an active manager other than its target.    *)

WriterStays ==
  \A d \in Desks :
    AtDesk(d, "write") =>
      /\ Active(desk[d].a)
      /\ desk[d].op = "disable" => desk[d].target # desk[d].a
      /\ \A e \in Desks \ {d} : ~AtDesk(e, "write")

ManagersOnly ==
  \A d \in Desks :
    desk[d].pc \in {"admitted", "write"} => desk[d].a \in Managers

RemainInv == ManagersOnly /\ AnAdminRemains /\ (clashed \/ WriterStays)

LEMMA RemainInit == AdminInit => RemainInv
  BY BootstrapAssumption, AdminsAssumption
     DEF AdminInit, RemainInv, ManagersOnly, AnAdminRemains, WriterStays,
         AtDesk, Active, FreeDesk

(* A step that leaves the accounts alone and takes no desk to "write".     *)
LEMMA RemainKeeps ==
  ASSUME RemainInv, UNCHANGED <<account, clashed>>,
         \A e \in Desks :
           \/ desk'[e] = desk[e]
           \/ desk'[e].pc \notin {"admitted", "write"}
           \/ desk'[e].pc = "admitted" /\ desk'[e].a \in Managers
  PROVE  RemainInv'
  <1>1. ManagersOnly'
    BY DEF RemainInv, ManagersOnly
  <1>2. AnAdminRemains'
    BY DEF RemainInv, AnAdminRemains, Active
  <1>3. clashed' \/ WriterStays'
    <2> SUFFICES ASSUME ~clashed, WriterStays PROVE WriterStays'
      BY DEF RemainInv
    <2>1. \A e \in Desks : AtDesk(e, "write")' =>
                             AtDesk(e, "write") /\ desk'[e] = desk[e]
      BY DEF AtDesk
    <2> QED BY <2>1 DEF WriterStays, Active
  <1> QED BY <1>1, <1>2, <1>3 DEF RemainInv

LEMMA RemainManage ==
  ASSUME AdminTypeOK, RemainInv, NEW d \in Desks, ReadManage(d)
  PROVE  RemainInv'
  <1>1. CASE ~Active(desk[d].a)
    <2>1. LeaveDesk(d) /\ desk \in [Desks -> Desk] /\ FreeDesk.pc = "free"
      BY <1>1 DEF ReadManage, FreeDesk, AdminTypeOK
    <2>2. \A e \in Desks : desk'[e] = desk[e] \/ desk'[e].pc = "free"
      BY <2>1 DEF LeaveDesk
    <2> QED BY <1>1, <2>2, RemainKeeps DEF ReadManage
  <1>2. CASE Active(desk[d].a)
    <2>1. PICK op \in AdminOp, target \in Admins :
            /\ MayManage(desk[d].a, op, target)
            /\ desk' = [desk EXCEPT ![d].pc = "write", ![d].op = op,
                                    ![d].target = target]
      BY <1>2 DEF ReadManage
    <2>2. /\ desk'[d].pc = "write" /\ desk'[d].a = desk[d].a
          /\ desk'[d].op = op /\ desk'[d].target = target
          /\ \A e \in Desks \ {d} : desk'[e] = desk[e]
          /\ desk[d].pc = "admitted"
          /\ account' = account
          /\ clashed' = (clashed \/ \E e \in Desks : AtDesk(e, "write"))
      <3>1. desk \in [Desks -> Desk]
        BY DEF AdminTypeOK
      <3>2. /\ desk'[d].pc = "write" /\ desk'[d].a = desk[d].a
            /\ desk'[d].op = op /\ desk'[d].target = target
        BY <2>1, <3>1 DEF Desk
      <3>3. \A e \in Desks \ {d} : desk'[e] = desk[e]
        BY <2>1, <3>1
      <3>4. /\ desk[d].pc = "admitted" /\ account' = account
            /\ clashed' = (clashed \/ \E e \in Desks : AtDesk(e, "write"))
        BY <1>2 DEF ReadManage, AtDesk
      <3> QED BY <3>2, <3>3, <3>4
    <2>3. ManagersOnly'
      BY <2>2 DEF RemainInv, ManagersOnly
    <2>4. AnAdminRemains'
      BY <2>2 DEF RemainInv, AnAdminRemains, Active
    <2>5. ~clashed' => WriterStays'
      BY ZenonT(40), <2>1, <2>2, <1>2 DEF WriterStays, AtDesk, Active, MayManage
    <2> QED BY <2>3, <2>4, <2>5 DEF RemainInv
  <1> QED BY <1>1, <1>2

LEMMA RemainWrite ==
  ASSUME AdminTypeOK, RemainInv, NEW d \in Desks, WriteManage(d)
  PROVE  RemainInv'
  <1>1. /\ desk[d].pc = "write" /\ clashed' = clashed
        /\ desk[d].target \in Admins /\ desk[d].a \in Admins
    BY DEF WriteManage, AtDesk, AdminTypeOK, Desk
  <1>2. /\ desk'[d].pc = "free"
        /\ \A e \in Desks \ {d} : desk'[e].pc = desk[e].pc
                                  /\ desk'[e].a = desk[e].a
    <2> DEFINE left == [desk EXCEPT ![d] = FreeDesk]
    <2>1. /\ left \in [Desks -> Desk] /\ left[d] = FreeDesk
          /\ \A e \in Desks \ {d} : left[e] = desk[e]
      BY FreeDeskType DEF AdminTypeOK
    <2>2. desk' = left \/ desk' = CutShort(desk[d].target, left)
      BY DEF WriteManage
    <2> HIDE DEF left
    <2>3. CASE desk' = left
      BY <2>1, <2>3 DEF FreeDesk
    <2>4. CASE desk' = CutShort(desk[d].target, left)
      BY <2>1, <2>4 DEF CutShort, FreeDesk, Desk
    <2> QED BY <2>2, <2>3, <2>4
  <1>3. ManagersOnly'
    BY <1>2 DEF RemainInv, ManagersOnly
  <1>4. ASSUME ~clashed
        PROVE  WriterStays' /\ \E a \in Managers : Active(a)'
    <2>1. \A e \in Desks \ {d} : desk[e].pc # "write"
      BY <1>1, <1>4 DEF RemainInv, WriterStays, AtDesk
    <2>2. WriterStays'
      BY <1>2, <2>1 DEF WriterStays, AtDesk
    <2>3. /\ desk[d].a \in Managers /\ Active(desk[d].a)
          /\ desk[d].op = "disable" => desk[d].target # desk[d].a
      BY <1>1, <1>4 DEF RemainInv, ManagersOnly, WriterStays, AtDesk
    <2>4. account'[desk[d].a] = "active"
      BY <2>3, <1>1 DEF WriteManage, Active, AdminTypeOK
    <2> QED BY <2>2, <2>3, <2>4 DEF Active
  <1> QED BY <1>1, <1>3, <1>4 DEF RemainInv, AnAdminRemains

LEMMA RemainNext ==
  AdminTypeOK /\ RemainInv /\ [AdminNext]_adminVars => RemainInv'
  <1> SUFFICES ASSUME AdminTypeOK, RemainInv, [AdminNext]_adminVars
               PROVE  RemainInv'
    OBVIOUS
  <1>1. ASSUME NEW d \in Desks,
               \/ ReadAdminLogin(d) \/ IssueAtLogin(d) \/ ReadRefresh(d)
               \/ RevokeOld(d) \/ Reissue(d) \/ DeskDies(d)
        PROVE  RemainInv'
    <2>1. desk \in [Desks -> Desk] /\ FreeDesk.pc = "free"
          /\ FreeDesk \in Desk
      BY FreeDeskType DEF AdminTypeOK, FreeDesk
    <2> DEFINE Calm == \A e \in Desks : desk'[e] = desk[e] \/
                 desk'[e].pc \in {"free", "issue", "revoke", "reissue"}
    <2>2. ASSUME NEW request, desk' = [desk EXCEPT ![d] = request],
                 request.pc \in {"free", "issue", "revoke"}
          PROVE  Calm
      BY <2>1, <2>2
    <2>3. ASSUME NEW a, NEW s
          PROVE  /\ [FreeDesk EXCEPT !.pc = "issue", !.a = a].pc = "issue"
                 /\ [FreeDesk EXCEPT !.pc = "revoke", !.s = s, !.a = a].pc
                      = "revoke"
      BY DEF FreeDesk
    <2>4. ASSUME ReadAdminLogin(d) PROVE Calm
      <3>1. PICK a \in Admins :
              desk' = [desk EXCEPT ![d] =
                         [FreeDesk EXCEPT !.pc = "issue", !.a = a]]
        BY <2>4 DEF ReadAdminLogin, TakeDesk
      <3> QED BY <3>1, <2>2, <2>3
    <2>5. ASSUME ReadRefresh(d) PROVE Calm
      <3>1. PICK s \in AdminSessions :
              desk' = [desk EXCEPT ![d] = [FreeDesk EXCEPT !.pc = "revoke",
                         !.s = s, !.a = adminSession[s].owner]]
        BY <2>5 DEF ReadRefresh, TakeDesk
      <3> QED BY <3>1, <2>2, <2>3
    <2>6. ASSUME IssueAtLogin(d) \/ Reissue(d) \/ DeskDies(d) PROVE Calm
      BY <2>6, <2>1, <2>2 DEF IssueAtLogin, Reissue, DeskDies, LeaveDesk
    <2>7. ASSUME RevokeOld(d) PROVE Calm
      BY <2>7, <2>1 DEF RevokeOld, DeskGoes, Desk
    <2>8. UNCHANGED <<account, clashed>>
      BY <1>1 DEF ReadAdminLogin, IssueAtLogin, ReadRefresh, RevokeOld, Reissue,
                  DeskDies
    <2>9. Calm
      BY <1>1, <2>4, <2>5, <2>6, <2>7
    <2> QED BY <2>8, <2>9, RemainKeeps
  <1>2. ASSUME NEW d \in Desks, Admit(d) PROVE RemainInv'
    <2>1. PICK s \in AdminSessions :
            /\ adminSession[s].owner \in Managers
            /\ desk' = [desk EXCEPT ![d] = [FreeDesk EXCEPT !.pc = "admitted",
                          !.a = adminSession[s].owner]]
      BY <1>2 DEF Admit, TakeDesk
    <2>2. \A e \in Desks : \/ desk'[e] = desk[e]
                           \/ /\ desk'[e].pc = "admitted"
                              /\ desk'[e].a \in Managers
      BY <2>1 DEF FreeDesk, AdminTypeOK
    <2> QED BY <1>2, <2>2, RemainKeeps DEF Admit
  <1>3. ASSUME NEW d \in Desks, ReadManage(d) PROVE RemainInv'
    BY <1>3, RemainManage
  <1>4. ASSUME NEW d \in Desks, WriteManage(d) PROVE RemainInv'
    BY <1>4, RemainWrite
  <1>5. CASE LogoutAdmin \/ UNCHANGED adminVars
    BY <1>5, RemainKeeps DEF LogoutAdmin, adminVars
  <1> QED BY <1>1, <1>2, <1>3, <1>4, <1>5 DEF AdminNext, AdminDesk

----------------------------------------------------------------------------
(* Theorems.                                                               *)

(* An account that was disabled or whose access was reset is not given     *)
(* another session (disable_admin_access, refresh_staff_credentials),      *)
(* except by a login or a refresh that had begun before.                   *)
THEOREM WithdrawnStays == AdminSpec => []NoSessionWhileDisabled
  <1>1. WithdrawnInv => NoSessionWhileDisabled
    BY DEF WithdrawnInv
  <1> QED BY <1>1, AdminInitType, AdminNextType, WithdrawnInit, WithdrawnNext,
             PTL DEF AdminSpec

(* Nobody can disable the last administrator (disable_admin_access) until  *)
(* two requests on accounts have overlapped.                               *)
THEOREM SomebodyRemains == AdminSpec => []AnAdminRemains
  <1>1. RemainInv => AnAdminRemains
    BY DEF RemainInv
  <1> QED BY <1>1, AdminInitType, AdminNextType, RemainInit, RemainNext,
             PTL DEF AdminSpec


----------------------------------------------------------------------------
(* The inductive invariant.                                                *)

(* A request has what it decides on: a report and an outcome of its kind,  *)
(* or a restriction that is there.                                         *)
VerdictsFit ==
  \A m \in Moderators :
    /\ verdict[m].pc = "resolve" =>
         /\ verdict[m].r \in Reports
         /\ verdict[m].outcome \in Outcomes \cup {"no_action"}
    /\ verdict[m].pc = "restrict" => verdict[m].outcome \in Outcomes
    /\ verdict[m].pc \in {"extend", "revoke"} =>
         /\ verdict[m].x \in Measures
         /\ measure[verdict[m].x].status # "absent"

LiftedStays == \A x \in lifted : measure[x].status \in {"revoked", "erased"}

(* The restriction an outcome led to is a row no INSERT takes again.       *)
Witnessed(rows, r, outcome) ==
  \E x \in Measures :
    /\ rows[x].status # "absent"
    /\ rows[x].source = r
    /\ rows[x].type = outcome

OutcomesWitnessed ==
  \A r \in Reports :
    report[r].outcome \in Outcomes => Witnessed(measure, r, report[r].outcome)

RestrictInv == RestrictTypeOK /\ VerdictsFit /\ LiftedStays /\ OutcomesWitnessed

(* What every step does to a restriction that is there: it stays, for what *)
(* it was made, and one that was revoked or erased remains so.             *)
RowsStay ==
  /\ measure' \in [Measures -> MeasureRow]
  /\ \A x \in Measures : measure[x].status # "absent" =>
       /\ measure'[x].status # "absent"
       /\ measure'[x].source = measure[x].source
       /\ measure'[x].type = measure[x].type
       /\ measure[x].status \in {"revoked", "erased"}
            => measure'[x].status \in {"revoked", "erased"}

(* Requests go on by ending or by waiting for their answer.                *)
RequestsEnd ==
  /\ verdict' \in [Moderators -> Verdict]
  /\ \A m \in Moderators :
       verdict'[m] = verdict[m] \/ verdict'[m].pc \in {"free", "answered"}

LEMMA NoVerdictType == NoVerdict \in Verdict
  BY DEF NoVerdict, Verdict

LEMMA RestrictInvInit == RestrictInit => RestrictInv
  <1> SUFFICES ASSUME RestrictInit PROVE RestrictInv
    OBVIOUS
  <1>1. RestrictTypeOK
    <2>1. report \in [Reports -> ReportRow]
      BY DEF RestrictInit, ReportRow, Target
    <2>2. measure \in [Measures -> MeasureRow]
      BY MaxEndAssumption DEF RestrictInit, MeasureRow, Endless
    <2>3. verdict \in [Moderators -> Verdict]
      BY NoVerdictType DEF RestrictInit
    <2> QED BY <2>1, <2>2, <2>3 DEF RestrictTypeOK, RestrictInit
  <1>2. VerdictsFit /\ LiftedStays
    BY DEF RestrictInit, VerdictsFit, LiftedStays, NoVerdict
  <1>3. OutcomesWitnessed
    BY OutcomesAssumption DEF RestrictInit, OutcomesWitnessed
  <1> QED BY <1>1, <1>2, <1>3 DEF RestrictInv

----------------------------------------------------------------------------
(* How the requests of the moderators move.                                *)

LEMMA LeavesEnd ==
  ASSUME RestrictInv, NEW m \in Moderators, LeaveVerdict(m) \/ AnswerVerdict(m)
  PROVE  RequestsEnd
  <1>1. verdict \in [Moderators -> Verdict]
    BY DEF RestrictInv, RestrictTypeOK
  <1>2. CASE LeaveVerdict(m)
    BY <1>1, <1>2, NoVerdictType DEF LeaveVerdict, RequestsEnd, NoVerdict
  <1>3. CASE AnswerVerdict(m)
    <2>1. [verdict[m] EXCEPT !.pc = "answered"] \in Verdict
      BY <1>1 DEF Verdict
    <2> QED BY <1>1, <1>3, <2>1 DEF AnswerVerdict, RequestsEnd
  <1> QED BY <1>2, <1>3

(* A step that keeps the restrictions keeps the invariant, if every report *)
(* whose outcome it writes has got its restriction.                        *)
LEMMA StepKeeps ==
  ASSUME RestrictInv, RowsStay, RequestsEnd,
         report' \in [Reports -> ReportRow],
         \A r \in Reports :
           \/ report'[r].outcome = report[r].outcome
           \/ report'[r].outcome \in Outcomes =>
                Witnessed(measure', r, report'[r].outcome),
         lifted' \subseteq Measures,
         \A x \in lifted' : x \in lifted \/ measure'[x].status = "revoked"
  PROVE  RestrictInv'
  <1>1. RestrictTypeOK'
    BY DEF RestrictTypeOK, RowsStay, RequestsEnd
  <1>2. VerdictsFit'
    BY DEF RestrictInv, VerdictsFit, RowsStay, RequestsEnd
  <1>3. LiftedStays'
    BY DEF RestrictInv, RestrictTypeOK, LiftedStays, RowsStay
  <1>4. OutcomesWitnessed'
    <2> SUFFICES ASSUME NEW r \in Reports, report'[r].outcome \in Outcomes
                 PROVE  Witnessed(measure', r, report'[r].outcome)
      BY DEF OutcomesWitnessed
    <2>1. CASE report'[r].outcome = report[r].outcome
      <3>1. Witnessed(measure, r, report[r].outcome)
        BY <2>1 DEF RestrictInv, OutcomesWitnessed
      <3>2. PICK x \in Measures :
              /\ measure[x].status # "absent" /\ measure[x].source = r
              /\ measure[x].type = report[r].outcome
        BY <3>1 DEF Witnessed
      <3> QED BY <2>1, <3>2 DEF RowsStay, Witnessed
    <2> QED BY <2>1
  <1> QED BY <1>1, <1>2, <1>3, <1>4 DEF RestrictInv

(* What was read is there when a request begins.                           *)
LEMMA BeginKeeps ==
  ASSUME RestrictInv, NEW m \in Moderators, NEW request \in Verdict,
         BeginVerdict(m, request), UNCHANGED <<report, measure, lifted>>,
         request.pc = "resolve" =>
           request.r \in Reports /\ request.outcome \in Outcomes \cup {"no_action"},
         request.pc = "restrict" => request.outcome \in Outcomes,
         request.pc \in {"extend", "revoke"} =>
           request.x \in Measures /\ measure[request.x].status # "absent"
  PROVE  RestrictInv'
  <1>1. /\ verdict' \in [Moderators -> Verdict] /\ verdict'[m] = request
        /\ \A n \in Moderators \ {m} : verdict'[n] = verdict[n]
    BY DEF RestrictInv, RestrictTypeOK, BeginVerdict
  <1>2. VerdictsFit'
    <2> SUFFICES ASSUME NEW n \in Moderators
                 PROVE  /\ verdict'[n].pc = "resolve" =>
                             /\ verdict'[n].r \in Reports
                             /\ verdict'[n].outcome \in Outcomes \cup {"no_action"}
                        /\ verdict'[n].pc = "restrict" =>
                             verdict'[n].outcome \in Outcomes
                        /\ verdict'[n].pc \in {"extend", "revoke"} =>
                             /\ verdict'[n].x \in Measures
                             /\ measure[verdict'[n].x].status # "absent"
      BY DEF VerdictsFit
    <2>1. CASE n = m
      BY <1>1, <2>1
    <2>2. CASE n # m
      BY <1>1, <2>2 DEF RestrictInv, VerdictsFit
    <2> QED BY <2>1, <2>2
  <1> QED BY <1>1, <1>2 DEF RestrictInv, RestrictTypeOK, LiftedStays,
                            OutcomesWitnessed, Witnessed

(* A restriction takes a row nothing was in.                               *)
LEMMA InsertStays ==
  ASSUME RestrictInv, NEW x \in Measures, NEW type \in Outcomes,
         NEW source \in Reports \cup {"none"}, NEW ends \in 0..Endless,
         measure[x].status = "absent",
         measure' = Restricted(x, type, source, ends)
  PROVE  /\ RowsStay
         /\ measure'[x].status = "active" /\ measure'[x].source = source
         /\ measure'[x].type = type
  <1> DEFINE row == [status |-> "active", type |-> type, source |-> source,
                     ends |-> ends]
  <1>1. measure \in [Measures -> MeasureRow]
    BY DEF RestrictInv, RestrictTypeOK
  <1>2. row \in MeasureRow
    BY MaxEndAssumption DEF MeasureRow, Endless
  <1>3. /\ measure' = [measure EXCEPT ![x] = row]
        /\ measure' \in [Measures -> MeasureRow]
    BY <1>1, <1>2 DEF Restricted
  <1>4. measure'[x] = row /\ \A y \in Measures \ {x} : measure'[y] = measure[y]
    BY <1>1, <1>3
  <1> QED BY <1>3, <1>4 DEF RowsStay

LEMMA SameStays ==
  ASSUME RestrictInv, measure' = measure
  PROVE  RowsStay
  BY DEF RestrictInv, RestrictTypeOK, RowsStay

----------------------------------------------------------------------------
(* The steps.                                                              *)

LEMMA SubmitKeeps ==
  ASSUME RestrictInv, SubmitReport
  PROVE  RestrictInv' /\ RowsStay
  <1>1. PICK r \in Reports, target \in Target :
          report' = [report EXCEPT ![r] =
            [status |-> "open", target |-> target, outcome |-> "none"]]
    BY DEF SubmitReport
  <1>2. report \in [Reports -> ReportRow] /\ verdict' = verdict
        /\ measure' = measure /\ lifted' = lifted
    BY DEF RestrictInv, RestrictTypeOK, SubmitReport
  <1>3. [status |-> "open", target |-> target, outcome |-> "none"] \in ReportRow
    BY DEF ReportRow
  <1>4. report' \in [Reports -> ReportRow]
    BY <1>1, <1>2, <1>3
  <1>5. \A s \in Reports :
          report'[s].outcome = report[s].outcome \/ report'[s].outcome = "none"
    BY <1>1, <1>2
  <1>6. RequestsEnd
    BY <1>2 DEF RequestsEnd, RestrictInv, RestrictTypeOK
  <1>7. RowsStay /\ lifted \subseteq Measures
    BY <1>2, SameStays DEF RestrictInv, RestrictTypeOK
  <1> QED BY <1>2, <1>4, <1>5, <1>6, <1>7, OutcomesAssumption, StepKeeps

(* What a resolution writes on its report.                                 *)
LEMMA SettledIs ==
  ASSUME RestrictInv, NEW r \in Reports,
         NEW outcome \in Outcomes \cup {"none", "no_action"},
         report' = Settled(r, outcome)
  PROVE  /\ report' \in [Reports -> ReportRow]
         /\ report'[r].outcome = outcome
         /\ \A s \in Reports \ {r} : report'[s] = report[s]
  <1> DEFINE row == [report[r] EXCEPT !.status = "resolved", !.outcome = outcome]
  <1>1. report \in [Reports -> ReportRow]
    BY DEF RestrictInv, RestrictTypeOK
  <1>2. row \in ReportRow /\ row.outcome = outcome
    BY <1>1 DEF ReportRow
  <1>3. report' = [report EXCEPT ![r] = row]
    BY <1>1 DEF Settled
  <1> QED BY <1>1, <1>2, <1>3

LEMMA ResolutionKeeps ==
  ASSUME RestrictInv, NEW m \in Moderators, WriteResolution(m)
  PROVE  RestrictInv' /\ RowsStay
  <1> DEFINE r == verdict[m].r
             outcome == verdict[m].outcome
  <1>1. /\ r \in Reports /\ outcome \in Outcomes \cup {"no_action"}
        /\ RequestsEnd /\ lifted' = lifted /\ lifted \subseteq Measures
    BY LeavesEnd DEF WriteResolution, AtVerdict, RestrictInv, RestrictTypeOK,
                     VerdictsFit, Verdict
  <1>2. CASE outcome = "no_action" /\ report' = Settled(r, outcome)
             /\ measure' = measure
    <2>1. /\ report' \in [Reports -> ReportRow]
          /\ \A s \in Reports : \/ report'[s].outcome = report[s].outcome
                                \/ report'[s].outcome = "no_action"
      BY <1>1, <1>2, SettledIs
    <2>2. RowsStay
      BY <1>2, SameStays
    <2> HIDE DEF r, outcome
    <2> QED BY <1>1, <2>1, <2>2, OutcomesAssumption, StepKeeps
  <1>3. CASE report' = report /\ measure' = measure
    <2>1. RowsStay /\ report \in [Reports -> ReportRow]
      BY <1>3, SameStays DEF RestrictInv, RestrictTypeOK
    <2> QED BY <1>1, <1>3, <2>1, StepKeeps
  <1>4. ASSUME outcome # "no_action", report' = Settled(r, outcome),
               NEW x \in Measures, NEW ends \in 0..Endless,
               measure[x].status = "absent",
               measure' = Restricted(x, outcome, r, ends)
        PROVE  RestrictInv' /\ RowsStay
    <2>0. outcome \in Outcomes
      BY <1>1, <1>4
    <2>1. /\ RowsStay /\ measure'[x].status = "active"
          /\ measure'[x].source = r /\ measure'[x].type = outcome
      BY <1>1, <1>4, <2>0, InsertStays
    <2>2. Witnessed(measure', r, outcome)
      BY <2>1 DEF Witnessed
    <2>3. /\ report' \in [Reports -> ReportRow] /\ report'[r].outcome = outcome
          /\ \A s \in Reports \ {r} : report'[s] = report[s]
      BY <1>1, <1>4, SettledIs
    <2>4. \A s \in Reports :
            \/ report'[s].outcome = report[s].outcome
            \/ report'[s].outcome \in Outcomes =>
                 Witnessed(measure', s, report'[s].outcome)
      BY <2>2, <2>3 DEF Witnessed
    <2> QED BY <1>1, <2>1, <2>3, <2>4, StepKeeps
  <1> QED BY <1>2, <1>3, <1>4 DEF WriteResolution, RolledBack

LEMMA RestrictionKeeps ==
  ASSUME RestrictInv, NEW m \in Moderators, WriteRestriction(m)
  PROVE  RestrictInv' /\ RowsStay
  <1>1. /\ verdict[m].outcome \in Outcomes /\ RequestsEnd
        /\ report' = report /\ report \in [Reports -> ReportRow]
        /\ lifted' = lifted /\ lifted \subseteq Measures
    BY LeavesEnd DEF WriteRestriction, AtVerdict, RestrictInv, RestrictTypeOK,
                     VerdictsFit
  <1>2. RowsStay
    BY <1>1, InsertStays, SameStays DEF WriteRestriction
  <1> QED BY <1>1, <1>2, StepKeeps

LEMMA ExtensionKeeps ==
  ASSUME RestrictInv, NEW m \in Moderators, WriteExtension(m)
  PROVE  RestrictInv' /\ RowsStay
  <1> DEFINE x == verdict[m].x
  <1>1. /\ x \in Measures /\ RequestsEnd
        /\ report' = report /\ report \in [Reports -> ReportRow]
        /\ lifted' = lifted /\ lifted \subseteq Measures
        /\ measure \in [Measures -> MeasureRow]
    BY LeavesEnd DEF WriteExtension, AtVerdict, RestrictInv, RestrictTypeOK,
                     VerdictsFit
  <1>2. PICK ends \in 0..MaxEnd :
          measure' = measure \/ measure' = [measure EXCEPT ![x] = Extended(@, ends)]
    BY DEF WriteExtension
  <1> DEFINE row == [measure[x] EXCEPT !.ends = ends]
  <1>3. row \in MeasureRow
    BY <1>1, MaxEndAssumption DEF MeasureRow, Endless
  <1>4. measure' = measure \/ measure' = [measure EXCEPT ![x] = row]
    BY <1>1, <1>2 DEF Extended
  <1>5. RowsStay
    <2>1. CASE measure' = [measure EXCEPT ![x] = row]
      <3>1. measure' \in [Measures -> MeasureRow]
        BY <1>1, <1>3, <2>1
      <3>2. /\ measure'[x] = row
            /\ \A y \in Measures \ {x} : measure'[y] = measure[y]
        BY <1>1, <2>1
      <3>3. /\ row.status = measure[x].status
            /\ row.source = measure[x].source /\ row.type = measure[x].type
        BY <1>1 DEF MeasureRow
      <3> HIDE DEF row, x
      <3> QED BY <3>1, <3>2, <3>3 DEF RowsStay
    <2> QED BY <1>4, <2>1, SameStays
  <1> QED BY <1>1, <1>5, StepKeeps

LEMMA RevocationKeeps ==
  ASSUME RestrictInv, NEW m \in Moderators, WriteRevocation(m)
  PROVE  RestrictInv' /\ RowsStay
  <1> DEFINE x == verdict[m].x
             row == [measure[x] EXCEPT !.status = "revoked"]
  <1>1. /\ x \in Measures /\ measure[x].status # "absent" /\ RequestsEnd
        /\ report' = report /\ report \in [Reports -> ReportRow]
        /\ lifted \subseteq Measures
        /\ measure \in [Measures -> MeasureRow]
    BY LeavesEnd DEF WriteRevocation, AtVerdict, RestrictInv, RestrictTypeOK,
                     VerdictsFit
  <1>2. CASE measure' = measure /\ lifted' = lifted
    BY <1>1, <1>2, SameStays, StepKeeps
  <1>3. CASE /\ measure' = [measure EXCEPT ![x].status = "revoked"]
             /\ lifted' = lifted \cup {x}
    <2>1. row \in MeasureRow /\ measure' = [measure EXCEPT ![x] = row]
      BY <1>1, <1>3 DEF MeasureRow
    <2>2. measure' \in [Measures -> MeasureRow]
      BY <1>1, <2>1
    <2>3. /\ measure'[x] = row
          /\ \A y \in Measures \ {x} : measure'[y] = measure[y]
      BY <1>1, <2>1
    <2>4. /\ row.status = "revoked"
          /\ row.source = measure[x].source /\ row.type = measure[x].type
      BY <1>1 DEF MeasureRow
    <2> HIDE DEF row, x
    <2>5. RowsStay
      BY <2>2, <2>3, <2>4 DEF RowsStay
    <2> QED BY <1>1, <1>3, <2>3, <2>4, <2>5, StepKeeps
  <1> QED BY <1>2, <1>3 DEF WriteRevocation

(* Erasing and ageing change the status to erased, or the time left.       *)
LEMMA EraseKeeps ==
  ASSUME RestrictInv, EraseMeasures
  PROVE  RestrictInv' /\ RowsStay
  <1>1. /\ RequestsEnd
        /\ report' = report /\ report \in [Reports -> ReportRow]
        /\ lifted' = lifted /\ lifted \subseteq Measures
        /\ measure \in [Measures -> MeasureRow]
    BY DEF EraseMeasures, RequestsEnd, RestrictInv, RestrictTypeOK
  <1>2. measure' = [x \in Measures |-> [measure[x] EXCEPT
          !.status = IF @ = "absent" THEN @ ELSE "erased"]]
    BY DEF EraseMeasures
  <1>3. ASSUME NEW x \in Measures
        PROVE  /\ measure'[x] \in MeasureRow
               /\ measure'[x].source = measure[x].source
               /\ measure'[x].type = measure[x].type
               /\ measure[x].status # "absent" => measure'[x].status = "erased"
    BY <1>1, <1>2 DEF MeasureRow
  <1>4. measure' \in [Measures -> MeasureRow]
    BY <1>2, <1>3
  <1>5. RowsStay
    BY <1>3, <1>4 DEF RowsStay
  <1> QED BY <1>1, <1>5, StepKeeps

LEMMA AgeKeeps ==
  ASSUME RestrictInv, MeasuresAge
  PROVE  RestrictInv' /\ RowsStay
  <1>1. /\ RequestsEnd
        /\ report' = report /\ report \in [Reports -> ReportRow]
        /\ lifted' = lifted /\ lifted \subseteq Measures
        /\ measure \in [Measures -> MeasureRow]
    BY DEF MeasuresAge, RequestsEnd, RestrictInv, RestrictTypeOK
  <1>2. measure' = [x \in Measures |-> [measure[x] EXCEPT
          !.ends = IF @ \in 1..MaxEnd THEN @ - 1 ELSE @]]
    BY DEF MeasuresAge
  <1>3. ASSUME NEW x \in Measures
        PROVE  /\ measure'[x] \in MeasureRow
               /\ measure'[x].source = measure[x].source
               /\ measure'[x].type = measure[x].type
               /\ measure'[x].status = measure[x].status
    BY <1>1, <1>2, MaxEndAssumption DEF MeasureRow, Endless
  <1>4. measure' \in [Measures -> MeasureRow]
    BY <1>2, <1>3
  <1>5. RowsStay
    BY <1>3, <1>4 DEF RowsStay
  <1> QED BY <1>1, <1>5, StepKeeps

LEMMA ReadsKeep ==
  ASSUME RestrictInv, NEW m \in Moderators,
         ReadReport(m) \/ DecideByHand(m) \/ ReadMeasure(m)
  PROVE  RestrictInv' /\ RowsStay
  <1>1. CASE ReadReport(m)
    <2>1. PICK r \in Reports, outcome \in Outcomes \cup {"no_action"} :
            BeginVerdict(m, [NoVerdict EXCEPT !.pc = "resolve", !.r = r,
                                              !.outcome = outcome])
      BY <1>1 DEF ReadReport
    <2> DEFINE v == [NoVerdict EXCEPT !.pc = "resolve", !.r = r,
                                      !.outcome = outcome]
    <2>2. /\ v \in Verdict /\ v.pc = "resolve" /\ v.r = r
          /\ v.outcome = outcome
      BY DEF NoVerdict, Verdict
    <2> HIDE DEF v
    <2> QED BY <1>1, <2>1, <2>2, BeginKeeps, SameStays DEF ReadReport, v
  <1>2. CASE DecideByHand(m)
    <2>1. PICK type \in Outcomes :
            BeginVerdict(m, [NoVerdict EXCEPT !.pc = "restrict", !.outcome = type])
      BY <1>2 DEF DecideByHand
    <2> DEFINE v == [NoVerdict EXCEPT !.pc = "restrict", !.outcome = type]
    <2>2. v \in Verdict /\ v.pc = "restrict" /\ v.outcome = type
      BY DEF NoVerdict, Verdict
    <2> HIDE DEF v
    <2> QED BY <1>2, <2>1, <2>2, BeginKeeps, SameStays DEF DecideByHand, v
  <1>3. CASE ReadMeasure(m)
    <2>1. PICK x \in Measures, pc \in {"extend", "revoke"} :
            /\ measure[x].status = "active"
            /\ BeginVerdict(m, [NoVerdict EXCEPT !.pc = pc, !.x = x])
      BY <1>3 DEF ReadMeasure
    <2> DEFINE v == [NoVerdict EXCEPT !.pc = pc, !.x = x]
    <2>2. v \in Verdict /\ v.pc = pc /\ v.x = x
      BY DEF NoVerdict, Verdict
    <2> HIDE DEF v
    <2> QED BY <1>3, <2>1, <2>2, BeginKeeps, SameStays DEF ReadMeasure, v
  <1> QED BY <1>1, <1>2, <1>3

LEMMA EndKeeps ==
  ASSUME RestrictInv, NEW m \in Moderators, EndVerdict(m)
  PROVE  RestrictInv' /\ RowsStay
  <1>1. /\ RequestsEnd /\ report' = report /\ report \in [Reports -> ReportRow]
        /\ measure' = measure /\ lifted' = lifted /\ lifted \subseteq Measures
    BY LeavesEnd DEF EndVerdict, RestrictInv, RestrictTypeOK
  <1> QED BY <1>1, SameStays, StepKeeps

LEMMA RestrictStep ==
  ASSUME RestrictInv, [RestrictNext]_restrictVars
  PROVE  RestrictInv' /\ RowsStay
  <1>1. CASE SubmitReport
    BY <1>1, SubmitKeeps
  <1>2. ASSUME NEW m \in Moderators, Moderate(m)
        PROVE  RestrictInv' /\ RowsStay
    BY <1>2, ReadsKeep, ResolutionKeeps, RestrictionKeeps, ExtensionKeeps,
       RevocationKeeps, EndKeeps DEF Moderate
  <1>3. CASE EraseMeasures
    BY <1>3, EraseKeeps
  <1>4. CASE MeasuresAge
    BY <1>4, AgeKeeps
  <1>5. CASE UNCHANGED restrictVars
    BY <1>5, SameStays
       DEF restrictVars, RestrictInv, RestrictTypeOK, VerdictsFit, LiftedStays,
           OutcomesWitnessed, Witnessed
  <1> QED BY <1>1, <1>2, <1>3, <1>4, <1>5 DEF RestrictNext

LEMMA RestrictInvStep == RestrictInv /\ [RestrictNext]_restrictVars => RestrictInv'
  BY RestrictStep

THEOREM RestrictCorrect == RestrictSpec => []RestrictInv
  BY RestrictInvInit, RestrictInvStep, PTL DEF RestrictSpec

----------------------------------------------------------------------------
(* Whatever the moderators' requests do to each other, a restriction that  *)
(* revoke_restriction has revoked never blocks its user again.             *)
THEOREM LiftedStaysLifted == RestrictSpec => []LiftedIsOver
  <1>1. RestrictInv => LiftedIsOver
    BY DEF RestrictInv, LiftedStays, LiftedIsOver, InForce
  <1> QED BY <1>1, RestrictCorrect, PTL

(* No report shows an outcome of resolve_report without the restriction    *)
(* that belongs to it, also where the database refuses some of the writes. *)
THEOREM OutcomesAreReal == RestrictSpec => []OutcomeHasRestriction
  <1>1. RestrictInv => OutcomeHasRestriction
    BY DEF RestrictInv, OutcomesWitnessed, Witnessed, OutcomeHasRestriction
  <1> QED BY <1>1, RestrictCorrect, PTL

----------------------------------------------------------------------------
(* Administrators in the chat of a dispute.  What a request has read of    *)
(* the hook is somebody the sides were told of, and they are told once and *)
(* for all: the messages stay.                                             *)

Told == {m.by : m \in {m \in talk : m.kind = "joined"}}
Known == Told \cup {"nobody"}

HooksKnown ==
  /\ \A c \in Chairs :
       /\ chair[c].pc # "free" => chair[c].by \in Speakers
       /\ chair[c].pc = "read" => chair[c].hook \in Known
  /\ \A h \in Sides : side[h].pc = "read" => side[h].hook \in Known

ModeratorsInv == ModeratorsTypeOK /\ HooksKnown /\ IntroducedFirst

LEMMA IntroducedMeans ==
  IntroducedFirst <=> /\ \A m \in talk : m.by \in Told
                      /\ joined \in Known
  BY DEF IntroducedFirst, Told, Known

LEMMA ModeratorsInitInv == ModeratorsInit => ModeratorsInv
  <1> SUFFICES ASSUME ModeratorsInit PROVE ModeratorsInv
    OBVIOUS
  <1>1. ModeratorsTypeOK
    BY DEF ModeratorsInit, ModeratorsTypeOK, Joined, Chair, FreeChair, Side,
           FreeSide
  <1>2. HooksKnown
    BY DEF ModeratorsInit, HooksKnown, FreeChair, FreeSide
  <1>3. IntroducedFirst
    BY IntroducedMeans DEF ModeratorsInit, Known
  <1> QED BY <1>1, <1>2, <1>3 DEF ModeratorsInv

(* The sides keep knowing whom they were told of.                          *)
LEMMA KnownGrows ==
  ASSUME talk \subseteq talk'
  PROVE  Told \subseteq Told' /\ Known \subseteq Known'
  BY DEF Told, Known

(* A chair gives up its request, takes one, or reads the hook.             *)
LEMMA ChairMoves ==
  ASSUME ModeratorsInv, NEW c \in Chairs, NEW new \in Chair,
         chair' = [chair EXCEPT ![c] = new],
         UNCHANGED <<awaited, joined, talk, side>>,
         new.pc # "free" => new.by \in Speakers,
         new.pc = "read" => new.hook \in Known
  PROVE  ModeratorsInv'
  <1>1. Told' = Told /\ Known' = Known
    BY DEF Told, Known
  <1>2. ModeratorsTypeOK'
    BY DEF ModeratorsInv, ModeratorsTypeOK
  <1>3. HooksKnown'
    BY <1>1 DEF ModeratorsInv, ModeratorsTypeOK, HooksKnown
  <1>4. IntroducedFirst'
    BY <1>1, IntroducedMeans DEF ModeratorsInv, IntroducedFirst, Told, Known
  <1> QED BY <1>2, <1>3, <1>4 DEF ModeratorsInv

(* A side reads or writes the hook, the procedure puts in a new one.       *)
LEMMA HookMoves ==
  ASSUME ModeratorsInv, chair' = chair, talk' = talk, awaited' \in BOOLEAN,
         joined' \in Known /\ joined' \in Joined,
         side' \in [Sides -> Side],
         \A h \in Sides : side'[h].pc = "read" => side'[h].hook \in Known
  PROVE  ModeratorsInv'
  <1>1. Told' = Told /\ Known' = Known
    BY DEF Told, Known
  <1>2. ModeratorsTypeOK'
    BY DEF ModeratorsInv, ModeratorsTypeOK
  <1>3. HooksKnown'
    BY <1>1 DEF ModeratorsInv, HooksKnown
  <1>4. IntroducedFirst'
    BY <1>1 DEF ModeratorsInv, IntroducedFirst, Told, Known
  <1> QED BY <1>2, <1>3, <1>4 DEF ModeratorsInv

(* An administrator speaks, introduced by the hook or on the spot.         *)
LEMMA Speaks ==
  ASSUME ModeratorsInv, NEW c \in Chairs, chair[c].pc = "read",
         NEW more \in SUBSET {Words(c, "message")},
         talk' = talk \cup Introduction(c) \cup more,
         joined' = chair[c].by \/ (~Introduces(c) /\ joined' = joined),
         LeaveChair(c), UNCHANGED <<awaited, side>>
  PROVE  ModeratorsInv'
  <1> DEFINE a == chair[c].by
  <1>1. a \in Speakers /\ chair[c].hook \in Known /\ a # "nobody"
    BY NobodyAssumption DEF ModeratorsInv, HooksKnown
  <1>2. /\ Words(c, "joined").by = a /\ Words(c, "joined").kind = "joined"
        /\ Words(c, "message").by = a
    BY DEF Words
  <1> HIDE DEF a
  <1>3. Told \subseteq Told' /\ Known \subseteq Known'
    BY KnownGrows
  <1>4. a \in Told'
    <2>1. CASE Introduces(c)
      <3>1. Words(c, "joined") \in talk'
        BY <2>1 DEF Introduction
      <3> QED BY <1>2, <3>1 DEF Told
    <2>2. CASE ~Introduces(c)
      BY <1>1, <1>3, <2>2 DEF Introduces, Known, a
    <2> QED BY <2>1, <2>2
  <1>5. ASSUME NEW m \in talk' PROVE m.by \in Told'
    <2>1. CASE m \in talk
      BY <1>3, <2>1, IntroducedMeans DEF ModeratorsInv
    <2>2. CASE m \notin talk
      BY <1>2, <1>4, <2>2 DEF Introduction
    <2> QED BY <2>1, <2>2
  <1>6. joined' \in Known'
    BY <1>3, <1>4, IntroducedMeans DEF ModeratorsInv, Known, a
  <1>7. IntroducedFirst'
    BY <1>5, <1>6 DEF IntroducedFirst, Told, Known
  <1>8. ModeratorsTypeOK'
    <2>1. \A kind \in {"joined", "message"} :
            Words(c, kind) \in [kind : {"joined", "message"}, by : Speakers]
      BY <1>1 DEF Words, a
    <2>2. talk' \subseteq [kind : {"joined", "message"}, by : Speakers]
      BY <2>1 DEF ModeratorsInv, ModeratorsTypeOK, Introduction
    <2>3. chair' \in [Chairs -> Chair] /\ joined' \in Joined
      BY <1>1 DEF ModeratorsInv, ModeratorsTypeOK, LeaveChair, FreeChair, Chair,
                  Joined, a
    <2> QED BY <2>2, <2>3 DEF ModeratorsInv, ModeratorsTypeOK
  <1>9. HooksKnown'
    BY <1>3 DEF ModeratorsInv, ModeratorsTypeOK, HooksKnown, LeaveChair,
                FreeChair
  <1> QED BY <1>7, <1>8, <1>9 DEF ModeratorsInv

LEMMA ModeratorsStep == ModeratorsInv /\ [ModeratorsNext]_moderatorVars => ModeratorsInv'
  <1> SUFFICES ASSUME ModeratorsInv, [ModeratorsNext]_moderatorVars
               PROVE  ModeratorsInv'
    OBVIOUS
  <1>1. /\ ModeratorsTypeOK /\ HooksKnown
        /\ joined \in Known /\ joined \in Joined /\ "nobody" \in Joined
        /\ "nobody" \in Known
    BY IntroducedMeans DEF ModeratorsInv, ModeratorsTypeOK, Known, Joined
  <1>2. ASSUME NEW c \in Chairs, BeginTalk(c) PROVE ModeratorsInv'
    <2>1. PICK op \in {"join", "post"}, a \in Speakers :
            chair' = [chair EXCEPT ![c] =
                        [FreeChair EXCEPT !.pc = "begun", !.op = op, !.by = a]]
      BY <1>2 DEF BeginTalk
    <2> DEFINE new == [FreeChair EXCEPT !.pc = "begun", !.op = op, !.by = a]
    <2>2. new \in Chair /\ new.pc = "begun" /\ new.by = a
      BY DEF FreeChair, Chair, Joined
    <2>3. UNCHANGED <<awaited, joined, talk, side>>
      BY <1>2 DEF BeginTalk
    <2>4. chair' = [chair EXCEPT ![c] = new]
      BY <2>1
    <2> HIDE DEF new
    <2> QED BY <2>2, <2>3, <2>4, ChairMoves
  <1>3. ASSUME NEW c \in Chairs, LeaveChair(c),
               UNCHANGED <<awaited, joined, talk, side>>
        PROVE  ModeratorsInv'
    <2>1. FreeChair \in Chair /\ FreeChair.pc = "free"
      BY DEF FreeChair, Chair, Joined
    <2> QED BY <1>3, <2>1, ChairMoves DEF LeaveChair
  <1>4. ASSUME NEW c \in Chairs, ReadHook(c) PROVE ModeratorsInv'
    <2>1. CASE awaited
      <3> DEFINE new == [chair[c] EXCEPT !.pc = "read", !.hook = joined]
      <3>1. chair[c] \in Chair /\ chair[c].by \in Speakers
        BY <1>1, <1>4 DEF ReadHook, AtChair, ModeratorsTypeOK, HooksKnown
      <3>2. new \in Chair /\ new.by \in Speakers /\ new.hook \in Known
        BY <1>1, <3>1 DEF Chair
      <3>3. chair' = [chair EXCEPT ![c] = new]
        BY <1>1, <1>4, <2>1 DEF ReadHook, ModeratorsTypeOK
      <3>4. UNCHANGED <<awaited, joined, talk, side>>
        BY <1>4 DEF ReadHook
      <3> HIDE DEF new
      <3> QED BY <3>2, <3>3, <3>4, ChairMoves
    <2>2. CASE ~awaited
      BY <1>3, <1>4, <2>2 DEF ReadHook
    <2> QED BY <2>1, <2>2
  <1>5. ASSUME NEW c \in Chairs, CommitJoin(c) \/ CommitPost(c)
        PROVE  ModeratorsInv'
    <2>1. PICK more \in SUBSET {Words(c, "message")} :
            talk' = talk \cup Introduction(c) \cup more
      <3>1. CASE CommitJoin(c)
        <4>1. talk' = talk \cup Introduction(c) \cup {}
          BY <3>1 DEF CommitJoin
        <4> QED BY <4>1
      <3>2. CASE CommitPost(c)
        BY <3>2 DEF CommitPost
      <3> QED BY <1>5, <3>1, <3>2
    <2>2. /\ chair[c].pc = "read"
          /\ joined' = chair[c].by \/ (~Introduces(c) /\ joined' = joined)
          /\ LeaveChair(c) /\ UNCHANGED <<awaited, side>>
      BY <1>5 DEF CommitJoin, CommitPost, AtChair
    <2> QED BY <2>1, <2>2, Speaks
  <1>6. ASSUME NEW c \in Chairs, TalkDies(c) PROVE ModeratorsInv'
    BY <1>3, <1>6 DEF TalkDies
  <1>7. ASSUME NEW h \in Sides, ReadSide(h) PROVE ModeratorsInv'
    <2>1. /\ side' = [side EXCEPT ![h] = [pc |-> "read", hook |-> joined]]
          /\ awaited' = awaited /\ joined' = joined
          /\ talk' = talk /\ chair' = chair
      BY <1>7 DEF ReadSide
    <2>2. side' \in [Sides -> Side]
      BY <1>1, <2>1 DEF ModeratorsTypeOK, Side
    <2>3. \A g \in Sides : side'[g].pc = "read" => side'[g].hook \in Known
      BY <1>1, <2>1 DEF ModeratorsTypeOK, HooksKnown
    <2> QED BY <1>1, <2>1, <2>2, <2>3, HookMoves DEF ModeratorsTypeOK
  <1>8. ASSUME NEW h \in Sides, WriteSide(h) PROVE ModeratorsInv'
    <2>1. /\ side' = [side EXCEPT ![h] = FreeSide]
          /\ awaited' \in BOOLEAN /\ joined' = side[h].hook
          /\ side[h].pc = "read" /\ talk' = talk /\ chair' = chair
      BY <1>8 DEF WriteSide
    <2>2. side' \in [Sides -> Side]
      BY <1>1, <2>1 DEF ModeratorsTypeOK, Side, FreeSide, Joined
    <2>3. \A g \in Sides : side'[g].pc = "read" => side'[g].hook \in Known
      BY <1>1, <2>1 DEF ModeratorsTypeOK, HooksKnown, FreeSide
    <2>4. joined' \in Known /\ joined' \in Joined
      BY <1>1, <2>1 DEF ModeratorsTypeOK, HooksKnown, Side
    <2> QED BY <2>1, <2>2, <2>3, <2>4, HookMoves
  <1>9. ASSUME AgreeOption \/ Escalate \/ TurnFailed PROVE ModeratorsInv'
    <2>1. /\ awaited' \in BOOLEAN /\ joined' \in {"nobody", joined}
          /\ talk' = talk /\ chair' = chair /\ side' = side
      BY <1>9 DEF AgreeOption, Escalate, TurnFailed
    <2> QED BY <1>1, <2>1, HookMoves DEF ModeratorsTypeOK, HooksKnown
  <1>10. ASSUME UNCHANGED moderatorVars PROVE ModeratorsInv'
    <2>1. /\ awaited' = awaited /\ joined' = joined
          /\ talk' = talk /\ chair' = chair /\ side' = side
      BY <1>10 DEF moderatorVars
    <2> QED BY <1>1, <2>1, HookMoves DEF ModeratorsTypeOK, HooksKnown
  <1> QED BY <1>2, <1>4, <1>5, <1>6, <1>7, <1>8, <1>9, <1>10
          DEF ModeratorsNext

(* An administrator is never heard in a dispute before the sides were told *)
(* who joined, and the hook names nobody they were not told of, whatever   *)
(* administrators and the sides' own handlers write over each other.       *)
THEOREM HeardWhenIntroduced == ModeratorsSpec => []IntroducedFirst
  <1>1. ModeratorsInit => ModeratorsInv
    BY ModeratorsInitInv
  <1>2. ModeratorsInv /\ [ModeratorsNext]_moderatorVars => ModeratorsInv'
    BY ModeratorsStep
  <1>3. ModeratorsInv => IntroducedFirst
    BY DEF ModeratorsInv
  <1> QED BY <1>1, <1>2, <1>3, PTL DEF ModeratorsSpec

----------------------------------------------------------------------------
(* Deletion of accounts: the inductive invariant.                          *)

Attaching(d) == errand[d].pc \in {"chat photo", "content"}

(* The keys of a request are of the kind its next statement writes, and a  *)
(* deletion has collected keys of its own categories only.                 *)
KeysFit ==
  \A d \in Devices :
    /\ AtErrand(d, "chat photo") => errand[d].keys \subseteq ChatPhotos
    /\ AtErrand(d, "content") => errand[d].keys \subseteq TaskPhotos
    /\ AtErrand(d, "collected") =>
         /\ "announcements" \notin errand[d].cats
              => errand[d].keys \cap TaskPhotos = {}
         /\ "messages" \notin errand[d].cats
              => errand[d].keys \cap ChatPhotos = {}
         /\ errand[d].whole => errand[d].cats = AllCategories

Referenced == ad.media \cup sentPhotos

(* What a request is about to refer to is stored as well, and what is      *)
(* being removed is referred to by no row and by no such request.          *)
KeysStored ==
  /\ Referenced \subseteq stored
  /\ \A d \in Devices : Attaching(d) => errand[d].keys \subseteq stored
  /\ \A d \in Devices : AtErrand(d, "remove") =>
       /\ errand[d].keys \cap Referenced = {}
       /\ \A e \in Devices : Attaching(e) => errand[d].keys \cap errand[e].keys = {}

(* Nothing but removals goes on once the account is deleted.               *)
DeletedIsOver ==
  owner = "deleted" =>
    /\ ~ad.live /\ sentPhotos = {}
    /\ bid \notin {"sent", "accepted"} /\ work # "active"
    /\ \A d \in Devices : errand[d].pc \in {"free", "remove"}

AccountInv ==
  AccountTypeOK /\ KeysFit /\ (late \/ (KeysStored /\ DeletedIsOver))

LEMMA NoErrandType == NoErrand \in Errand
  BY DEF NoErrand, Errand, AllPhotos, AllCategories

LEMMA AccountInvInit == AccountInit => AccountInv
  <1> SUFFICES ASSUME AccountInit PROVE AccountInv
    OBVIOUS
  <1>1. AccountTypeOK
    BY NoErrandType DEF AccountInit, AccountTypeOK, Ad
  <1>2. /\ \A d \in Devices : errand[d].pc = "free"
        /\ ad.media = {} /\ sentPhotos = {} /\ owner = "live"
    BY DEF AccountInit, NoErrand
  <1>3. KeysFit /\ KeysStored /\ DeletedIsOver
    BY <1>2 DEF KeysFit, KeysStored, DeletedIsOver, Referenced, Attaching, AtErrand
  <1> QED BY <1>1, <1>3 DEF AccountInv

----------------------------------------------------------------------------
(* Requests that end or die, and steps that concern the rows of the offer. *)

LEMMA FinishKeeps ==
  ASSUME AccountInv, NEW d \in Devices, EndErrand(d),
         UNCHANGED <<owner, ad, sentPhotos, bid, work, late>>,
         stored' = stored
  PROVE  AccountInv'
  <1>1. errand' \in [Devices -> Errand]
    BY NoErrandType DEF AccountInv, AccountTypeOK, EndErrand
  <1>2. \A e \in Devices : errand'[e] = errand[e] \/ errand'[e].pc = "free"
    BY DEF AccountInv, AccountTypeOK, EndErrand, NoErrand
  <1>3. AccountTypeOK'
    BY <1>1 DEF AccountInv, AccountTypeOK
  <1>4. KeysFit'
    BY <1>2 DEF AccountInv, KeysFit, AtErrand
  <1>5. KeysStored => KeysStored'
    BY <1>2 DEF KeysStored, Attaching, AtErrand, Referenced
  <1>6. DeletedIsOver => DeletedIsOver'
    BY <1>2 DEF DeletedIsOver
  <1> QED BY <1>3, <1>4, <1>5, <1>6 DEF AccountInv

(* A request of the user on its offer begins.                              *)
LEMMA StartKeeps ==
  ASSUME AccountInv, NEW d \in Devices, NEW request \in Errand,
         request.pc \in {"bid", "work"}, BeginErrand(d, request),
         UNCHANGED <<owner, ad, sentPhotos, bid, work, late, stored>>
  PROVE  AccountInv'
  <1>1. /\ errand' \in [Devices -> Errand] /\ owner = "live"
        /\ \A e \in Devices :
             errand'[e] = errand[e] \/ errand'[e].pc \in {"bid", "work"}
    BY DEF AccountInv, AccountTypeOK, BeginErrand
  <1>2. AccountTypeOK'
    BY <1>1 DEF AccountInv, AccountTypeOK
  <1>3. KeysFit'
    BY <1>1 DEF AccountInv, KeysFit, AtErrand
  <1>4. KeysStored => KeysStored'
    BY <1>1 DEF KeysStored, Attaching, AtErrand, Referenced
  <1>5. DeletedIsOver'
    BY <1>1 DEF DeletedIsOver
  <1> QED BY <1>2, <1>3, <1>4, <1>5 DEF AccountInv

(* The rows of offer and assignment change while the account is live, or a *)
(* request writes them that a deletion did not wait for.                   *)
LEMMA OfferRowsKeep ==
  ASSUME AccountInv, UNCHANGED <<owner, ad, sentPhotos, late, stored>>,
         bid' \in {"none", "sent", "accepted", "rejected", "withdrawn"},
         work' \in {"none", "active", "completed", "cancelled"},
         late \/ owner = "live",
         \/ errand' = errand
         \/ \E d \in Devices : EndErrand(d)
  PROVE  AccountInv'
  <1>1. errand' \in [Devices -> Errand]
    BY NoErrandType DEF AccountInv, AccountTypeOK, EndErrand
  <1>2. \A e \in Devices : errand'[e] = errand[e] \/ errand'[e].pc = "free"
    BY DEF AccountInv, AccountTypeOK, EndErrand, NoErrand
  <1>3. AccountTypeOK'
    BY <1>1 DEF AccountInv, AccountTypeOK
  <1>4. KeysFit'
    BY <1>2 DEF AccountInv, KeysFit, AtErrand
  <1>5. KeysStored => KeysStored'
    BY <1>2 DEF KeysStored, Attaching, AtErrand, Referenced
  <1> QED BY <1>3, <1>4, <1>5 DEF AccountInv, DeletedIsOver

----------------------------------------------------------------------------
(* Photos.                                                                 *)

(* A key is uploaded, or the media of the announcement are read: what the  *)
(* request holds is stored, and nobody removes it.                         *)
LEMMA UploadKeeps ==
  ASSUME AccountInv, NEW d \in Devices, NEW request \in Errand,
         BeginErrand(d, request),
         \/ request.pc = "chat photo" /\ request.keys \subseteq ChatPhotos
         \/ request.pc = "content" /\ request.keys \subseteq TaskPhotos,
         stored' = stored \cup request.keys,
         \/ request.keys \subseteq ad.media
         \/ \A e \in Devices : request.keys \cap errand[e].keys = {},
         UNCHANGED <<owner, ad, sentPhotos, bid, work, late>>
  PROVE  AccountInv'
  <1>1. /\ errand' \in [Devices -> Errand] /\ owner = "live"
        /\ errand'[d] = request
        /\ \A e \in Devices \ {d} : errand'[e] = errand[e]
    BY DEF AccountInv, AccountTypeOK, BeginErrand
  <1>2. request.keys \subseteq AllPhotos
    BY DEF Errand
  <1>3. AccountTypeOK'
    BY <1>1, <1>2 DEF AccountInv, AccountTypeOK
  <1>4. KeysFit'
    BY <1>1 DEF AccountInv, KeysFit, AtErrand
  <1>5. ASSUME KeysStored PROVE KeysStored'
    <2>1. Referenced' \subseteq stored'
      BY <1>5 DEF KeysStored, Referenced
    <2>2. \A e \in Devices : Attaching(e)' => errand'[e].keys \subseteq stored'
      BY <1>1, <1>5 DEF KeysStored, Attaching
    <2>3. ASSUME NEW x \in Devices, errand'[x].pc = "remove"
          PROVE  /\ errand'[x].keys \cap Referenced' = {}
                 /\ \A e \in Devices :
                      Attaching(e)' => errand'[x].keys \cap errand'[e].keys = {}
      <3>1. x # d /\ errand'[x] = errand[x]
        BY <1>1, <2>3
      <3>2. /\ errand[x].keys \cap Referenced = {}
            /\ \A e \in Devices :
                 Attaching(e) => errand[x].keys \cap errand[e].keys = {}
        BY <1>5, <2>3, <3>1 DEF KeysStored, AtErrand
      <3>3. errand[x].keys \cap request.keys = {}
        BY <3>2 DEF Referenced
      <3> QED BY <1>1, <3>1, <3>2, <3>3 DEF Attaching, Referenced
    <2> QED BY <2>1, <2>2, <2>3 DEF KeysStored, AtErrand
  <1>6. DeletedIsOver'
    BY <1>1 DEF DeletedIsOver
  <1> QED BY <1>3, <1>4, <1>5, <1>6 DEF AccountInv

(* The row is written: what was the request's is referred to.              *)
LEMMA ReferKeeps ==
  ASSUME AccountInv, NEW d \in Devices, InsertChatPhoto(d) \/ WriteAd(d)
  PROVE  AccountInv'
  <1>1. /\ Attaching(d) /\ errand \in [Devices -> Errand]
        /\ errand' = [errand EXCEPT ![d] = NoErrand]
        /\ UNCHANGED <<owner, bid, work, stored, late>>
    BY DEF InsertChatPhoto, WriteAd, AtErrand, Attaching, EndErrand, AccountInv,
           AccountTypeOK
  <1>2. /\ errand' \in [Devices -> Errand]
        /\ \A e \in Devices : errand'[e] = errand[e] \/ errand'[e].pc = "free"
    BY <1>1, NoErrandType DEF NoErrand
  <1>3. /\ Referenced' \subseteq Referenced \cup errand[d].keys
        /\ sentPhotos' \subseteq ChatPhotos /\ ad' \in Ad
    <2>1. CASE InsertChatPhoto(d)
      BY <2>1 DEF InsertChatPhoto, Referenced, AccountInv, AccountTypeOK, KeysFit
    <2>2. CASE WriteAd(d)
      <3>1. errand[d].keys \subseteq TaskPhotos
        BY <2>2 DEF WriteAd, AccountInv, KeysFit
      <3>2. ad' = [live |-> TRUE, media |-> errand[d].keys]
            /\ sentPhotos' = sentPhotos
        BY <2>2 DEF WriteAd
      <3> QED BY <3>1, <3>2 DEF Referenced, Ad, AccountInv, AccountTypeOK
    <2> QED BY <2>1, <2>2
  <1>4. AccountTypeOK'
    BY <1>1, <1>2, <1>3 DEF AccountInv, AccountTypeOK
  <1>5. KeysFit'
    BY <1>2 DEF AccountInv, KeysFit, AtErrand
  <1>6. KeysStored => KeysStored'
    <2> SUFFICES ASSUME KeysStored PROVE KeysStored'
      OBVIOUS
    <2>1. Referenced' \subseteq stored'
      BY <1>1, <1>3 DEF KeysStored
    <2>2. \A x \in Devices : AtErrand(x, "remove")' =>
            errand'[x].keys \cap Referenced' = {}
      BY <1>1, <1>2, <1>3 DEF KeysStored, AtErrand
    <2> QED BY <1>1, <1>2, <2>1, <2>2 DEF KeysStored, AtErrand, Attaching
  <1>7. DeletedIsOver => owner' # "deleted"
    BY <1>1 DEF DeletedIsOver, Attaching
  <1> QED BY <1>1, <1>4, <1>5, <1>6, <1>7 DEF AccountInv, DeletedIsOver

----------------------------------------------------------------------------
(* Deletion.                                                               *)

LEMMA CollectKeeps ==
  ASSUME AccountInv, NEW d \in Devices, Collect(d)
  PROVE  AccountInv'
  <1>1. PICK cats \in Categories, whole \in BOOLEAN :
          BeginErrand(d, [pc |-> "collected",
            keys |-> Collectable(IF whole THEN AllCategories ELSE cats),
            cats |-> IF whole THEN AllCategories ELSE cats, whole |-> whole])
    BY DEF Collect
  <1> DEFINE all == IF whole THEN AllCategories ELSE cats
             request == [pc |-> "collected", keys |-> Collectable(all),
                         cats |-> all, whole |-> whole]
  <1>2. /\ all \subseteq AllCategories
        /\ Collectable(all) \subseteq AllPhotos
        /\ "announcements" \notin all => Collectable(all) \cap TaskPhotos = {}
        /\ "messages" \notin all => Collectable(all) \cap ChatPhotos = {}
        /\ whole => all = AllCategories
    BY CategoriesAssumption, PhotosAssumption
       DEF AllCategories, Collectable, AllPhotos, AccountInv, AccountTypeOK, Ad
  <1>3. /\ BeginErrand(d, request) /\ request.pc = "collected"
        /\ request.keys = Collectable(all) /\ request.cats = all
        /\ request.whole = whole
    BY <1>1
  <1>4. request \in Errand
    BY <1>2 DEF Errand
  <1> HIDE DEF all, request
  <1>5. /\ errand' \in [Devices -> Errand] /\ owner = "live"
        /\ errand'[d] = request
        /\ \A e \in Devices \ {d} : errand'[e] = errand[e]
        /\ UNCHANGED <<owner, ad, sentPhotos, bid, work, stored, late>>
    BY <1>3, <1>4 DEF Collect, AccountInv, AccountTypeOK, BeginErrand, rowVars
  <1>6. AccountTypeOK'
    BY <1>5 DEF AccountInv, AccountTypeOK
  <1>7. KeysFit'
    BY <1>2, <1>3, <1>5 DEF AccountInv, KeysFit, AtErrand
  <1>8. KeysStored => KeysStored'
    BY <1>3, <1>5 DEF KeysStored, Attaching, AtErrand, Referenced
  <1> QED BY <1>5, <1>6, <1>7, <1>8 DEF AccountInv, DeletedIsOver

LEMMA CommitKeeps ==
  ASSUME AccountInv, NEW d \in Devices, Commit(d)
  PROVE  AccountInv'
  <1> DEFINE cats == errand[d].cats
  <1>1. /\ errand \in [Devices -> Errand] /\ errand[d] \in Errand
        /\ errand[d].pc = "collected"
        /\ errand' = [errand EXCEPT ![d].pc = "remove"]
        /\ stored' = stored
    BY DEF AccountInv, AccountTypeOK, Commit, AtErrand
  <1>2. /\ errand' \in [Devices -> Errand] /\ errand'[d].pc = "remove"
        /\ errand'[d].keys = errand[d].keys
        /\ \A e \in Devices \ {d} : errand'[e] = errand[e]
    BY <1>1 DEF Errand
  <1>3. AccountTypeOK'
    <2>1. ad' \in Ad
      BY DEF Commit, Erased, AccountInv, AccountTypeOK, Ad
    <2>2. bid' \in {"none", "sent", "accepted", "rejected", "withdrawn"}
      BY DEF Commit, Withdrawal, AccountInv, AccountTypeOK
    <2>3. /\ work' \in {"none", "active", "completed", "cancelled"}
          /\ owner' \in {"live", "deleted"} /\ sentPhotos' \subseteq ChatPhotos
      BY DEF Commit, AccountInv, AccountTypeOK
    <2>4. late' \in BOOLEAN
      BY DEF Commit
    <2> QED BY <1>1, <1>2, <2>1, <2>2, <2>3, <2>4 DEF AccountInv, AccountTypeOK
  <1>4. KeysFit'
    BY <1>2 DEF AccountInv, KeysFit, AtErrand
  <1>5. ASSUME ~late'
        PROVE  KeysStored' /\ DeletedIsOver'
    <2>1. /\ ~late /\ \A e \in Devices \ {d} : errand[e].pc = "free"
      BY <1>5 DEF Commit, AtErrand
    <2>2. KeysStored /\ DeletedIsOver
      BY <2>1 DEF AccountInv
    <2>3. /\ ad' = Erased(cats)
          /\ sentPhotos' = IF "messages" \in cats THEN {} ELSE sentPhotos
      BY DEF Commit
    <2>4. Referenced' \subseteq Referenced
      BY <2>3 DEF Referenced, Erased
    <2>5. errand[d].keys \cap Referenced' = {}
      <3>1. /\ "announcements" \notin cats => errand[d].keys \cap TaskPhotos = {}
            /\ "messages" \notin cats => errand[d].keys \cap ChatPhotos = {}
        BY <1>1 DEF AccountInv, KeysFit, AtErrand
      <3>2. ad.media \subseteq TaskPhotos /\ sentPhotos \subseteq ChatPhotos
        BY DEF AccountInv, AccountTypeOK, Ad
      <3> QED BY <2>3, <3>1, <3>2 DEF Referenced, Erased
    <2>6. KeysStored'
      BY <1>1, <1>2, <2>1, <2>2, <2>4, <2>5
         DEF KeysStored, Attaching, AtErrand
    <2>7. DeletedIsOver'
      <3> SUFFICES ASSUME owner' = "deleted" PROVE DeletedIsOver'
        BY DEF DeletedIsOver
      <3>1. owner # "deleted"
        BY <1>1, <2>2 DEF DeletedIsOver
      <3>2. cats = AllCategories
        BY <1>1, <3>1 DEF Commit, AccountInv, KeysFit, AtErrand
      <3>3. ad' = [live |-> FALSE, media |-> {}] /\ sentPhotos' = {}
        BY <2>3, <3>2 DEF Erased, AllCategories
      <3>4. bid' \notin {"sent", "accepted"} /\ work' # "active"
        BY <3>2 DEF Commit, AllCategories, Withdrawal
      <3>5. \A e \in Devices : errand'[e].pc \in {"free", "remove"}
        BY <1>2, <2>1
      <3>6. ~ad'.live
        BY <3>3
      <3> QED BY <3>3, <3>4, <3>5, <3>6 DEF DeletedIsOver
    <2> QED BY <2>6, <2>7
  <1> QED BY <1>3, <1>4, <1>5 DEF AccountInv

LEMMA RemoveKeeps ==
  ASSUME AccountInv, NEW d \in Devices, RemovePhoto(d)
  PROVE  AccountInv'
  <1>1. PICK f \in errand[d].keys :
          /\ errand' = [errand EXCEPT ![d].keys = @ \ {f}]
          /\ stored' \in {stored, stored \ {f}}
    BY DEF RemovePhoto
  <1>2. /\ errand \in [Devices -> Errand] /\ errand[d] \in Errand
        /\ errand[d].pc = "remove"
        /\ UNCHANGED <<owner, ad, sentPhotos, bid, work, late>>
    BY DEF RemovePhoto, AtErrand, AccountInv, AccountTypeOK, rowVars
  <1>3. /\ errand'[d] \in Errand /\ errand'[d].pc = "remove"
        /\ errand'[d].keys \subseteq errand[d].keys
        /\ \A e \in Devices \ {d} : errand'[e] = errand[e]
    BY <1>1, <1>2 DEF Errand
  <1>4. AccountTypeOK'
    <2>1. errand' \in [Devices -> Errand]
      BY <1>1, <1>2, <1>3
    <2> QED BY <1>1, <1>2, <2>1 DEF AccountInv, AccountTypeOK
  <1>5. KeysFit'
    BY <1>3 DEF AccountInv, KeysFit, AtErrand
  <1>6. ASSUME KeysStored PROVE KeysStored'
    <2>1. /\ f \notin Referenced
          /\ \A e \in Devices : Attaching(e) => f \notin errand[e].keys
      BY <1>2, <1>6 DEF KeysStored, AtErrand
    <2>2. \A e \in Devices : Attaching(e)' => Attaching(e) /\ errand'[e] = errand[e]
      BY <1>3 DEF Attaching
    <2>3. Referenced' = Referenced
      BY <1>2 DEF Referenced
    <2>4. \A e \in Devices : /\ AtErrand(e, "remove")' => AtErrand(e, "remove")
                             /\ errand'[e].keys \subseteq errand[e].keys
      BY <1>2, <1>3 DEF AtErrand
    <2>5. /\ Referenced \subseteq stored
          /\ \A e \in Devices : Attaching(e) => errand[e].keys \subseteq stored
      BY <1>6 DEF KeysStored
    <2>6. Referenced' \subseteq stored'
      BY <1>1, <2>1, <2>3, <2>5
    <2>7. \A e \in Devices : Attaching(e)' => errand'[e].keys \subseteq stored'
      BY <1>1, <2>1, <2>2, <2>5
    <2>8. ASSUME NEW x \in Devices, AtErrand(x, "remove")'
          PROVE  /\ errand'[x].keys \cap Referenced' = {}
                 /\ \A e \in Devices :
                      Attaching(e)' => errand'[x].keys \cap errand'[e].keys = {}
      BY <1>6, <2>2, <2>3, <2>4, <2>8 DEF KeysStored
    <2> QED BY <2>6, <2>7, <2>8 DEF KeysStored
  <1>7. DeletedIsOver => DeletedIsOver'
    BY <1>2, <1>3 DEF DeletedIsOver
  <1> QED BY <1>2, <1>4, <1>5, <1>6, <1>7 DEF AccountInv

----------------------------------------------------------------------------
(* Every step.                                                             *)

LEMMA AccountRequestKeeps ==
  ASSUME AccountInv, NEW d \in Devices, AccountRequest(d)
  PROVE  AccountInv'
  <1>1. ASSUME StoreChatPhoto(d) PROVE AccountInv'
    <2>1. PICK f \in ChatPhotos :
            /\ NewKey(f) /\ stored' = stored \cup {f}
            /\ BeginErrand(d, [NoErrand EXCEPT !.pc = "chat photo", !.keys = {f}])
      BY <1>1 DEF StoreChatPhoto
    <2> DEFINE request == [NoErrand EXCEPT !.pc = "chat photo", !.keys = {f}]
    <2>2. /\ request \in Errand /\ request.pc = "chat photo"
          /\ request.keys = {f}
      BY NoErrandType DEF Errand, NoErrand, AllPhotos
    <2>3. UNCHANGED <<owner, ad, sentPhotos, bid, work, late>>
      BY <1>1 DEF StoreChatPhoto, rowVars
    <2> HIDE DEF request
    <2>4. BeginErrand(d, request)
      BY <2>1 DEF request
    <2> QED BY <2>1, <2>2, <2>3, <2>4, UploadKeeps DEF NewKey
  <1>2. ASSUME StoreTaskPhoto(d) PROVE AccountInv'
    <2>1. PICK f \in TaskPhotos :
            /\ NewKey(f) /\ stored' = stored \cup {f}
            /\ BeginErrand(d, [NoErrand EXCEPT !.pc = "content", !.keys = {f}])
      BY <1>2 DEF StoreTaskPhoto
    <2> DEFINE request == [NoErrand EXCEPT !.pc = "content", !.keys = {f}]
    <2>2. request \in Errand /\ request.pc = "content" /\ request.keys = {f}
      BY NoErrandType DEF Errand, NoErrand, AllPhotos
    <2>3. UNCHANGED <<owner, ad, sentPhotos, bid, work, late>>
      BY <1>2 DEF StoreTaskPhoto, rowVars
    <2> HIDE DEF request
    <2>4. BeginErrand(d, request)
      BY <2>1 DEF request
    <2> QED BY <2>1, <2>2, <2>3, <2>4, UploadKeeps DEF NewKey
  <1>3. ASSUME ReadAppeal(d), KeysStored PROVE AccountInv'
    <2> DEFINE request == [NoErrand EXCEPT !.pc = "content", !.keys = ad.media]
    <2>1. ad.media \subseteq TaskPhotos /\ ad.media \subseteq stored
      BY <1>3 DEF AccountInv, AccountTypeOK, Ad, KeysStored, Referenced
    <2>2. request \in Errand /\ request.pc = "content" /\ request.keys = ad.media
      BY <2>1, NoErrandType DEF Errand, NoErrand, AllPhotos
    <2>3. UNCHANGED <<owner, ad, sentPhotos, bid, work, late, stored>>
      BY <1>3 DEF ReadAppeal, rowVars
    <2>4. BeginErrand(d, request)
      BY <1>3 DEF ReadAppeal
    <2> HIDE DEF request
    <2>5. stored' = stored \cup request.keys
      BY <2>1, <2>2, <2>3
    <2> QED BY <2>1, <2>2, <2>3, <2>4, <2>5, UploadKeeps
  <1>4. ASSUME ReadAppeal(d), late PROVE AccountInv'
    <2> DEFINE request == [NoErrand EXCEPT !.pc = "content", !.keys = ad.media]
    <2>1. ad.media \subseteq TaskPhotos
      BY DEF AccountInv, AccountTypeOK, Ad
    <2>2. request \in Errand /\ request.pc = "content" /\ request.keys = ad.media
      BY <2>1, NoErrandType DEF Errand, NoErrand, AllPhotos
    <2>3. /\ UNCHANGED <<owner, ad, sentPhotos, bid, work, late, stored>>
          /\ BeginErrand(d, request)
      BY <1>4 DEF ReadAppeal, rowVars
    <2> HIDE DEF request
    <2>4. /\ errand' \in [Devices -> Errand] /\ errand'[d] = request
          /\ \A e \in Devices \ {d} : errand'[e] = errand[e]
      BY <2>2, <2>3 DEF AccountInv, AccountTypeOK, BeginErrand
    <2>5. AccountTypeOK'
      BY <2>3, <2>4 DEF AccountInv, AccountTypeOK
    <2>6. KeysFit'
      BY <2>1, <2>2, <2>4 DEF AccountInv, KeysFit, AtErrand
    <2> QED BY <1>4, <2>3, <2>5, <2>6 DEF AccountInv
  <1>5. ASSUME ReadBid(d) \/ ReadWork(d) PROVE AccountInv'
    <2>1. PICK pc \in {"bid", "work"} :
            BeginErrand(d, [NoErrand EXCEPT !.pc = pc])
      BY <1>5 DEF ReadBid, ReadWork
    <2>2. [NoErrand EXCEPT !.pc = pc] \in Errand
          /\ [NoErrand EXCEPT !.pc = pc].pc = pc
      BY NoErrandType DEF Errand, NoErrand
    <2>3. UNCHANGED <<owner, ad, sentPhotos, bid, work, late, stored>>
      BY <1>5 DEF ReadBid, ReadWork, rowVars
    <2> QED BY <2>1, <2>2, <2>3, StartKeeps
  <1>6. ASSUME WriteBid(d) \/ WriteWork(d) PROVE AccountInv'
    <2>1. /\ errand[d].pc \in {"bid", "work"} /\ EndErrand(d)
          /\ UNCHANGED <<owner, ad, sentPhotos, late, stored>>
          /\ bid' \in {"none", "sent", "accepted", "rejected", "withdrawn"}
          /\ work' \in {"none", "active", "completed", "cancelled"}
      BY <1>6 DEF WriteBid, WriteWork, AtErrand, AccountInv, AccountTypeOK
    <2>2. late \/ owner = "live"
      BY <2>1 DEF AccountInv, DeletedIsOver, AccountTypeOK
    <2> QED BY <2>1, <2>2, OfferRowsKeep
  <1>7. ASSUME EndDeletion(d) \/ ErrandDies(d) PROVE AccountInv'
    BY <1>7, FinishKeeps DEF EndDeletion, ErrandDies, rowVars
  <1> QED
    BY <1>1, <1>2, <1>3, <1>4, <1>5, <1>6, <1>7, ReferKeeps, CollectKeeps,
       CommitKeeps, RemoveKeeps DEF AccountRequest, AccountInv

LEMMA AccountInvNext == AccountInv /\ [AccountNext]_accountVars => AccountInv'
  <1> SUFFICES ASSUME AccountInv, [AccountNext]_accountVars PROVE AccountInv'
    OBVIOUS
  <1>1. CASE AnswerBid
    <2>1. /\ UNCHANGED <<owner, ad, sentPhotos, late, stored, errand>>
          /\ bid' \in {"accepted", "rejected"}
          /\ work' \in {"none", "active", "completed", "cancelled"}
          /\ bid = "sent"
      BY <1>1 DEF AnswerBid, AccountInv, AccountTypeOK
    <2>2. late \/ owner = "live"
      BY <2>1 DEF AccountInv, DeletedIsOver, AccountTypeOK
    <2> QED BY <2>1, <2>2, OfferRowsKeep
  <1>2. CASE UNCHANGED accountVars
    BY <1>2 DEF accountVars, rowVars, AccountInv, AccountTypeOK, KeysFit,
                KeysStored, DeletedIsOver, Referenced, Attaching, AtErrand
  <1> QED BY <1>1, <1>2, AccountRequestKeeps DEF AccountNext

----------------------------------------------------------------------------
(* Theorems.                                                               *)

(* What a row refers to is in the storage (delete_my_account_data collects *)
(* the keys, erases the rows, then removes the objects), wherever requests *)
(* die, unless another request ran when a deletion committed.              *)
THEOREM StorageKept == AccountSpec => []ReferencedIsStored
  <1>1. AccountInv => ReferencedIsStored
    BY DEF AccountInv, KeysStored, Referenced, ReferencedIsStored
  <1> QED BY <1>1, AccountInvInit, AccountInvNext, PTL DEF AccountSpec

(* A deleted account has no live announcement, photo, offer or work        *)
(* (_apply_account_data_deletion), unless a request ran beside it.         *)
THEOREM DeletedIsGone == AccountSpec => []NothingLiveOfDeleted
  <1>1. AccountInv => NothingLiveOfDeleted
    BY DEF AccountInv, DeletedIsOver, NothingLiveOfDeleted
  <1> QED BY <1>1, AccountInvInit, AccountInvNext, PTL DEF AccountSpec

----------------------------------------------------------------------------
(* Ratings.                                                                *)

(* What a request that nothing has overlapped may rely on, at a review     *)
(* table rs, ratings rt and deleted users gs.                              *)
Relies(q, rs, rt, gs) ==
  /\ q.pc = "store" => q.read = About(q.u, rs)
  /\ q.pc = "erase" => q.read = rs
  /\ q.pc = "notify" => rt[q.u] = About(q.u, rs)
  /\ q.pc = "erased" =>
       \A v \in q.read :
         Counterpart(v) \notin {q.u} \cup gs
           => rt[Counterpart(v)] = About(Counterpart(v), rs)

AloneRelies ==
  \A w \in Writers :
    writing[w].alone => /\ \A x \in Writers \ {w} : writing[x].pc = "free"
                        /\ Relies(writing[w], reviews, rating, gone)

ReviewsInv == ReviewsTypeOK /\ AloneRelies

LEMMA ReviewTypes ==
  /\ AReview \in Review
  /\ \A v \in Review : Counterpart(v) \in Members /\ v[2] \in Members
  /\ NoWriting \in Writing /\ ~NoWriting.alone /\ NoWriting.pc = "free"
  <1>1. PICK j \in Jobs : TRUE
    BY JobsAssumption
  <1>2. <<j, Customer[j]>> \in Review
    BY PartiesAssumption DEF Review
  <1>3. AReview \in Review
    BY <1>2 DEF AReview
  <1>4. \A v \in Review : Counterpart(v) \in Members /\ v[2] \in Members
    BY PartiesAssumption DEF Review, Counterpart
  <1>5. NoWriting \in Writing /\ ~NoWriting.alone /\ NoWriting.pc = "free"
    BY <1>3, <1>4 DEF NoWriting, Writing
  <1> QED BY <1>3, <1>4, <1>5

LEMMA ReviewsInitInv == ReviewsInit => ReviewsInv
  BY ReviewTypes DEF ReviewsInit, ReviewsInv, ReviewsTypeOK, AloneRelies

(* A request under way goes on: if nothing overlapped it, nothing else is  *)
(* under way.                                                              *)
LEMMA WritingGoesOn ==
  ASSUME ReviewsInv, ReviewsTypeOK', NEW w \in Writers,
         writing[w].pc # "free",
         \A x \in Writers \ {w} : writing'[x] = writing[x],
         writing'[w].alone => /\ writing[w].alone
                              /\ Relies(writing[w], reviews, rating, gone)
                                   => Relies(writing'[w], reviews', rating', gone')
  PROVE  ReviewsInv'
  <1> SUFFICES ASSUME NEW x \in Writers, writing'[x].alone
               PROVE  /\ \A y \in Writers \ {x} : writing'[y].pc = "free"
                      /\ Relies(writing'[x], reviews', rating', gone')
    BY DEF ReviewsInv, AloneRelies, Relies, About, Counterpart
  <1>1. CASE x = w
    BY <1>1 DEF ReviewsInv, AloneRelies
  <1>2. CASE x # w
    <2>1. writing[x].alone /\ writing[w].pc = "free"
      BY <1>2 DEF ReviewsInv, AloneRelies
    <2> QED BY <2>1
  <1> QED BY <1>1, <1>2

(* A request begins.                                                       *)
LEMMA WritingBegins ==
  ASSUME ReviewsInv, NEW w \in Writers, NEW request \in Writing,
         BeginWriting(w, request), UNCHANGED <<reviews, rating, gone>>,
         request.pc \in {"insert", "erase"},
         request.pc = "erase" => request.read = reviews
  PROVE  ReviewsInv'
  <1> DEFINE others == {x \in Writers : ~AtWriting(x, "free")}
             new == [request EXCEPT !.alone = (others = {})]
  <1>1. /\ writing'[w] = new
        /\ \A x \in Writers \ {w} :
             writing'[x] = [writing[x] EXCEPT !.alone = FALSE]
        /\ writing' = [x \in Writers |-> writing'[x]]
    BY DEF BeginWriting
  <1>2. /\ new \in Writing /\ new.alone = (others = {})
        /\ new.pc = request.pc /\ new.read = request.read
    BY DEF Writing
  <1>3. \A x \in Writers : writing[x] \in Writing
    BY DEF ReviewsInv, ReviewsTypeOK
  <1>4. \A x \in Writers \ {w} :
          /\ writing'[x] \in Writing /\ ~writing'[x].alone
          /\ writing'[x].pc = writing[x].pc
    <2> TAKE x \in Writers \ {w}
    <2>1. /\ writing'[x] = [writing[x] EXCEPT !.alone = FALSE]
          /\ writing[x] \in Writing
      BY <1>1, <1>3
    <2> QED BY <2>1 DEF Writing
  <1>5. others = {} => \A x \in Writers \ {w} : writing[x].pc = "free"
    BY DEF AtWriting
  <1> HIDE DEF new, others
  <1>6. ReviewsTypeOK'
    BY <1>1, <1>2, <1>4 DEF ReviewsInv, ReviewsTypeOK
  <1>7. Relies(new, reviews, rating, gone)
    BY <1>2 DEF Relies
  <1>8. ASSUME NEW x \in Writers, writing'[x].alone
        PROVE  /\ \A y \in Writers \ {x} : writing'[y].pc = "free"
               /\ Relies(writing'[x], reviews', rating', gone')
    <2>1. x = w /\ others = {}
      BY <1>1, <1>2, <1>4, <1>8
    <2>2. \A y \in Writers \ {w} : writing'[y].pc = "free"
      BY <1>4, <1>5, <2>1
    <2>3. Relies(writing'[w], reviews', rating', gone')
      BY <1>1, <1>7
    <2> QED BY <2>1, <2>2, <2>3
  <1>9. AloneRelies'
    BY <1>8 DEF AloneRelies, Relies, About, Counterpart
  <1> QED BY <1>6, <1>9 DEF ReviewsInv

(* A request ends, whatever it has done last.                              *)
LEMMA WritingEnds ==
  ASSUME ReviewsInv, NEW w \in Writers, writing[w].pc # "free", EndWriting(w),
         reviews' \subseteq Review, UNCHANGED <<rating, gone>>
  PROVE  ReviewsInv'
  <1>1. ReviewsTypeOK'
    BY ReviewTypes DEF ReviewsInv, ReviewsTypeOK, EndWriting
  <1>2. /\ \A x \in Writers \ {w} : writing'[x] = writing[x]
        /\ ~writing'[w].alone
    BY ReviewTypes DEF ReviewsInv, ReviewsTypeOK, EndWriting
  <1> QED BY <1>1, <1>2, WritingGoesOn

(* A deletion computes the ratings its erasure concerns from what remains. *)
LEMMA ErasedRatings ==
  ASSUME ReviewsTypeOK, NEW u \in Members, NEW v \in Of(u, reviews),
         Counterpart(v) \notin {u} \cup gone
  PROVE  Recalculated(u, reviews)[Counterpart(v)]
           = About(Counterpart(v), reviews \ Of(u, reviews))
  <1>1. v \in Review /\ Counterpart(v) \in Members
    BY ReviewTypes DEF Of, ReviewsTypeOK
  <1>2. Counterpart(v) \in Impacted(u, reviews)
    BY DEF Impacted
  <1> QED BY <1>1, <1>2 DEF Recalculated

LEMMA EraseCommits ==
  ASSUME ReviewsInv, NEW w \in Writers, CommitErase(w)
  PROVE  ReviewsInv'
  <1> DEFINE q == writing[w]
             new == [q EXCEPT !.pc = "erased", !.read = q.read \ reviews']
             rest == reviews \ Of(q.u, q.read)
             ratings == Recalculated(q.u, q.read)
  <1>1. /\ q \in Writing /\ q.pc = "erase"
        /\ writing' = [writing EXCEPT ![w] = new]
    BY DEF CommitErase, AtWriting, ReviewsInv, ReviewsTypeOK
  <1>2. /\ new \in Writing /\ new.pc = "erased" /\ new.u = q.u
        /\ new.read = q.read \ reviews' /\ new.alone = q.alone
        /\ q.u \in Members /\ q.read \subseteq Review
    BY <1>1 DEF Writing
  <1>3. \/ reviews' = rest /\ rating' = ratings /\ gone' = gone
        \/ /\ reviews' = rest /\ rating' = [ratings EXCEPT ![q.u] = {}]
           /\ gone' = gone \cup {q.u}
        \/ /\ rating' = [rating EXCEPT ![q.u] = {}]
           /\ reviews' = reviews /\ gone' = gone
    BY DEF CommitErase
  <1>4. /\ writing'[w] = new
        /\ \A x \in Writers \ {w} : writing'[x] = writing[x]
    BY <1>1 DEF ReviewsInv, ReviewsTypeOK
  <1>5. ratings \in [Members -> SUBSET Review]
    BY <1>2 DEF Recalculated, About, ReviewsInv, ReviewsTypeOK
  <1> HIDE DEF q, new, ratings
  <1>6. ReviewsTypeOK'
    BY <1>1, <1>2, <1>3, <1>5 DEF ReviewsInv, ReviewsTypeOK
  <1>7. ASSUME q.read = reviews PROVE Relies(new, reviews', rating', gone')
    <2> SUFFICES ASSUME NEW v \in new.read, Counterpart(v) \notin {q.u} \cup gone'
                 PROVE  rating'[Counterpart(v)] = About(Counterpart(v), reviews')
      BY <1>2 DEF Relies
    <2>1. reviews' = rest
      BY <1>2, <1>3, <1>7
    <2>2. v \in Of(q.u, reviews) /\ Counterpart(v) \notin {q.u} \cup gone
      BY <1>2, <1>3, <1>7, <2>1
    <2>3. Counterpart(v) \in Members /\ Counterpart(v) # q.u
      BY <1>2, <2>2, ReviewTypes
    <2>4. ratings[Counterpart(v)] = About(Counterpart(v), reviews')
      BY <1>2, <1>7, <2>1, <2>2, ErasedRatings DEF ReviewsInv, ratings
    <2>5. rating'[Counterpart(v)] = ratings[Counterpart(v)]
      <3>1. reviews' # reviews
        BY <1>2, <1>7
      <3> QED BY <1>3, <1>5, <2>3, <3>1
    <2> QED BY <2>4, <2>5
  <1>8. Relies(q, reviews, rating, gone) => q.read = reviews
    BY <1>1 DEF Relies
  <1> QED BY <1>1, <1>2, <1>4, <1>6, <1>7, <1>8, WritingGoesOn DEF q

LEMMA ReviewsInvNext == ReviewsInv /\ [ReviewsNext]_reviewVars => ReviewsInv'
  <1> SUFFICES ASSUME ReviewsInv, [ReviewsNext]_reviewVars PROVE ReviewsInv'
    OBVIOUS
  <1>0. ReviewsTypeOK /\ \A w \in Writers : writing[w] \in Writing
    BY DEF ReviewsInv, ReviewsTypeOK
  <1>1. ASSUME NEW w \in Writers, ReadContext(w) PROVE ReviewsInv'
    <2>1. PICK v \in Review :
            BeginWriting(w, [NoWriting EXCEPT !.pc = "insert", !.review = v,
                                              !.u = Counterpart(v)])
      BY <1>1 DEF ReadContext
    <2> DEFINE new == [NoWriting EXCEPT !.pc = "insert", !.review = v,
                                        !.u = Counterpart(v)]
    <2>2. new \in Writing /\ new.pc = "insert"
      BY ReviewTypes DEF Writing
    <2>3. BeginWriting(w, new) /\ UNCHANGED <<reviews, rating, gone>>
      BY <1>1, <2>1 DEF ReadContext
    <2> HIDE DEF new
    <2> QED BY <2>2, <2>3, WritingBegins
  <1>2. ASSUME NEW w \in Writers, InsertReview(w) PROVE ReviewsInv'
    <2>1. /\ writing[w].pc = "insert" /\ writing[w].review \in Review
          /\ reviews' \subseteq Review /\ UNCHANGED <<rating, gone>>
      BY <1>0, <1>2
         DEF InsertReview, AtWriting, Writing, ReviewsTypeOK
    <2>2. CASE EndWriting(w)
      BY <2>1, <2>2, WritingEnds
    <2>3. CASE writing' = [writing EXCEPT ![w].pc = "summary"]
      <3>1. /\ \A x \in Writers \ {w} : writing'[x] = writing[x]
            /\ writing'[w].alone = writing[w].alone
            /\ writing'[w].pc = "summary"
        BY <1>0, <2>3 DEF ReviewsTypeOK, Writing
      <3>2. ReviewsTypeOK'
        BY <1>0, <2>1, <2>3 DEF ReviewsTypeOK, Writing
      <3>3. Relies(writing'[w], reviews', rating', gone')
        BY <3>1 DEF Relies
      <3> QED BY <2>1, <3>1, <3>2, <3>3, WritingGoesOn
    <2> QED BY <1>2, <2>2, <2>3 DEF InsertReview
  <1>3. ASSUME NEW w \in Writers, ReadSummary(w) PROVE ReviewsInv'
    <2> DEFINE new == [writing[w] EXCEPT !.pc = "store", !.read = Summary(w),
                                         !.review = AReview]
    <2>1. Summary(w) = About(writing[w].u, reviews)
      BY DEF Summary
    <2>2. Summary(w) \subseteq Review
      BY <1>0, <2>1 DEF About, ReviewsTypeOK
    <2>3. /\ new \in Writing /\ new.pc = "store" /\ new.u = writing[w].u
          /\ new.read = Summary(w) /\ new.alone = writing[w].alone
      BY <1>0, <2>2, ReviewTypes DEF Writing
    <2>4. writing' = [writing EXCEPT ![w] = new]
      BY <1>0, <1>3 DEF ReadSummary, ReviewsTypeOK
    <2>5. writing[w].pc = "summary" /\ UNCHANGED <<reviews, rating, gone>>
      BY <1>3 DEF ReadSummary, AtWriting
    <2> HIDE DEF new
    <2>6. ReviewsTypeOK'
      BY <1>0, <2>3, <2>4, <2>5 DEF ReviewsTypeOK
    <2>7. /\ writing'[w] = new
          /\ \A x \in Writers \ {w} : writing'[x] = writing[x]
      BY <1>0, <2>4 DEF ReviewsTypeOK
    <2>8. Relies(new, reviews', rating', gone')
      BY <2>1, <2>3, <2>5 DEF Relies
    <2> QED BY <2>3, <2>5, <2>6, <2>7, <2>8, WritingGoesOn
  <1>4. ASSUME NEW w \in Writers, StoreRating(w) PROVE ReviewsInv'
    <2> DEFINE q == writing[w]
               new == [q EXCEPT !.pc = "notify", !.read = {}]
    <2>1. /\ q \in Writing /\ q.pc = "store" /\ reviews' = reviews
          /\ gone' = gone /\ rating' = [rating EXCEPT ![q.u] = q.read]
          /\ writing' = [writing EXCEPT ![w] = new]
      BY <1>0, <1>4 DEF StoreRating, AtWriting, ReviewsTypeOK
    <2>2. /\ new \in Writing /\ new.pc = "notify" /\ new.u = q.u
          /\ new.alone = q.alone /\ q.u \in Members /\ q.read \subseteq Review
      BY <2>1 DEF Writing
    <2>3. /\ writing'[w] = new
          /\ \A x \in Writers \ {w} : writing'[x] = writing[x]
      BY <1>0, <2>1 DEF ReviewsTypeOK
    <2> HIDE DEF q, new
    <2>4. ReviewsTypeOK'
      BY <1>0, <2>1, <2>2 DEF ReviewsTypeOK
    <2>5. rating'[q.u] = q.read
      BY <1>0, <2>1, <2>2 DEF ReviewsTypeOK
    <2>6. Relies(q, reviews, rating, gone)
            => Relies(new, reviews', rating', gone')
      BY <2>1, <2>2, <2>5 DEF Relies
    <2> QED BY <2>1, <2>2, <2>3, <2>4, <2>6, WritingGoesOn DEF q
  <1>5. ASSUME NEW w \in Writers, Notify(w) \/ EndErase(w) \/ WriterDies(w)
        PROVE  ReviewsInv'
    <2>1. /\ writing[w].pc # "free" /\ EndWriting(w)
          /\ UNCHANGED <<reviews, rating, gone>>
      BY <1>5 DEF Notify, EndErase, WriterDies, AtWriting
    <2> QED BY <1>0, <2>1, WritingEnds DEF ReviewsTypeOK
  <1>6. ASSUME NEW w \in Writers, ReadReviews(w) PROVE ReviewsInv'
    <2>1. PICK u \in Leaving :
            BeginWriting(w, [NoWriting EXCEPT !.pc = "erase", !.u = u,
                                              !.read = reviews])
      BY <1>6 DEF ReadReviews
    <2> DEFINE new == [NoWriting EXCEPT !.pc = "erase", !.u = u,
                                        !.read = reviews]
    <2>2. new \in Writing /\ new.pc = "erase" /\ new.read = reviews
      BY <1>0, ReviewTypes, PartiesAssumption DEF Writing, ReviewsTypeOK
    <2>3. BeginWriting(w, new) /\ UNCHANGED <<reviews, rating, gone>>
      BY <1>6, <2>1 DEF ReadReviews
    <2> HIDE DEF new
    <2> QED BY <2>2, <2>3, WritingBegins
  <1>7. ASSUME UNCHANGED reviewVars PROVE ReviewsInv'
    BY <1>7 DEF reviewVars, ReviewsInv, ReviewsTypeOK, AloneRelies, Relies,
                About, Counterpart
  <1> QED BY <1>1, <1>2, <1>3, <1>4, <1>5, <1>6, <1>7, EraseCommits
          DEF ReviewsNext, ReviewRequest

(* A submission that nothing overlaps leaves its subject with the rating   *)
(* of all reviews about it, and a deletion that nothing overlaps leaves    *)
(* everybody else whose reviews it erased with that of the remaining ones, *)
(* whatever overlapping or dying requests did before.                      *)
THEOREM QuietRatings == ReviewsSpec => []QuietSetsRight
  <1>1. ReviewsInv => QuietSetsRight
    BY DEF ReviewsInv, AloneRelies, Relies, QuietSetsRight, AtWriting
  <1> QED BY <1>1, ReviewsInitInv, ReviewsInvNext, PTL DEF ReviewsSpec
=============================================================================
