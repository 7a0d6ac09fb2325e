---------------------------- MODULE AccessProofs ----------------------------
(***************************************************************************)
(* Proofs about what is let in.  Sessions, for any number of accounts,     *)
(* sessions and server threads and any lengths of time: type correctness,  *)
(* the lock and its counter, the client's token, and that what is over is  *)
(* not admitted.  RateLimit, for any rules, requests and delays: no number *)
(* exceeds that of the requests, and no window lets more through than its  *)
(* rule allows.  CircuitBreaker, for any number of callers and retries:    *)
(* the way out is closed only for cause.                                   *)
(***************************************************************************)
EXTENDS Sessions, RateLimit, CircuitBreaker, FiniteSetTheorems,
        SequenceTheorems, WellFoundedInduction, TLAPS

LEMMA Bounds ==
  /\ LockThreshold \in Nat /\ LockThreshold > 0
  /\ LockDuration \in Nat /\ LockDuration > 0
  /\ SessionLife \in Nat /\ SessionLife > 0
  /\ ResetLife \in Nat /\ ResetLife > 0
  /\ MaxRotations \in Nat /\ MaxLost \in Nat /\ Refreshing \subseteq SessionIds
  BY LifeAssumption, RotationAssumption

USE Bounds

----------------------------------------------------------------------------
(* Types of what the actions write.                                        *)

LEMMA IdleType ==
  IdleCall \in Call /\ AnyAccount \in Accounts /\ AnySession \in SessionIds
  <1>1. AnyAccount \in Accounts
    BY IdsAreThere DEF AnyAccount
  <1>2. AnySession \in SessionIds
    BY IdsAreThere DEF AnySession
  <1> QED BY <1>1, <1>2 DEF IdleCall, Call, CallPC

LEMMA RowTypes ==
  ASSUME NEW row \in UserRow
  PROVE  /\ Failed(row) \in UserRow
         /\ Unlocked(row) \in UserRow
         /\ [Unlocked(row) EXCEPT !.status = "deleted"] \in UserRow
         /\ [row EXCEPT !.lock = Less(@)] \in UserRow
         /\ NewUser \in UserRow
  <1>1. Capped(row.failed + 1) \in 0..LockThreshold
    BY DEF UserRow, Capped
  <1>2. LockDuration \in 0..NotLocked /\ NotLocked \in 0..NotLocked
    BY DEF NotLocked
  <1>3. Less(row.lock) \in 0..NotLocked
    BY DEF UserRow, Less, NotLocked
  <1>4. Failed(row) \in UserRow
    BY <1>1, <1>2 DEF UserRow, Failed
  <1>5. Unlocked(row) \in UserRow
    <2>1. 0 \in 0..LockThreshold
      OBVIOUS
    <2> QED BY <1>2, <2>1 DEF UserRow, Unlocked
  <1>6. [Unlocked(row) EXCEPT !.status = "deleted"] \in UserRow
    BY <1>5 DEF UserRow
  <1>7. [row EXCEPT !.lock = Less(@)] \in UserRow
    BY <1>3 DEF UserRow
  <1>8. NewUser \in UserRow
    BY <1>2 DEF UserRow, NewUser
  <1> QED BY <1>4, <1>5, <1>6, <1>7, <1>8

LEMMA CallType ==
  ASSUME call \in [Calls -> Call], NEW r \in Calls
  PROVE  /\ EndCall(r) => call' \in [Calls -> Call]
         /\ \A pc \in CallPC : CallGoes(r, pc) => call' \in [Calls -> Call]
         /\ \A request \in Call : BeginCall(r, request) => call' \in [Calls -> Call]
  BY IdleType DEF EndCall, CallGoes, BeginCall, Call

LEMMA RevokedType ==
  ASSUME session \in [SessionIds -> SessionRow], NEW ids
  PROVE  Revoked(ids) \in [SessionIds -> SessionRow]
  BY DEF SessionRow, Revoked

LEMMA IssueType ==
  ASSUME SessionsTypeOK, NEW u \in Accounts, IssueSession(u)
  PROVE  /\ session' \in [SessionIds -> SessionRow]
         /\ held' \in [SessionIds -> 0..MaxRotations]
  <1>1. /\ SessionLife \in 0..SessionLife /\ 0 \in 0..MaxRotations
        /\ session \in [SessionIds -> SessionRow]
        /\ held \in [SessionIds -> 0..MaxRotations]
    BY DEF SessionsTypeOK
  <1>2. PICK s \in SessionIds :
          /\ session' = [session EXCEPT ![s] = [status |-> "live", owner |-> u,
                           token |-> 0, life |-> SessionLife]]
          /\ held' = [held EXCEPT ![s] = 0]
    BY DEF IssueSession
  <1> QED BY <1>1, <1>2 DEF SessionRow

LEMMA ClosedType ==
  ASSUME NEW row \in ResetRow
  PROVE  Closed(row) \in ResetRow
  <1>1. 0 \in 0..ResetLife
    OBVIOUS
  <1> QED BY <1>1 DEF ResetRow, Closed

LEMMA SessionsInitType == SessionsInit => SessionsTypeOK
  <1> SUFFICES ASSUME SessionsInit PROVE SessionsTypeOK
    OBVIOUS
  <1>1. user \in [Accounts -> UserRow]
    BY DEF SessionsInit, UserRow, NotLocked
  <1>2. session \in [SessionIds -> SessionRow]
    BY IdleType DEF SessionsInit, SessionRow
  <1>3. reset \in [ResetIds -> ResetRow]
    BY IdleType DEF SessionsInit, ResetRow
  <1>4. /\ held \in [SessionIds -> 0..MaxRotations]
        /\ call \in [Calls -> Call] /\ lost \in 0..MaxLost
    BY IdleType DEF SessionsInit
  <1> QED BY <1>1, <1>2, <1>3, <1>4 DEF SessionsTypeOK

----------------------------------------------------------------------------
(* What a step may do to the row of a user and to the row of a session.    *)

UserMoves(u) ==
  \/ user'[u] = user[u]
  \/ user'[u] = NewUser
  \/ user'[u] = Failed(user[u])
  \/ user'[u] = Unlocked(user[u])
  \/ user'[u] = [Unlocked(user[u]) EXCEPT !.status = "deleted"]
  \/ /\ user[u].lock # NotLocked
     /\ user'[u] = [user[u] EXCEPT !.lock = Less(@)]

Issued(s) ==
  /\ session[s].status = "absent"
  /\ session'[s].status = "live" /\ session'[s].token = 0
  /\ held'[s] = 0

Ages(s) ==              \* it may end, and never begins anew
  /\ \/ session'[s].status = session[s].status
     \/ /\ session[s].status # "absent"
        /\ session'[s].status \in {"revoked", "erased"}
  /\ session'[s].life <= session[s].life

KeepsToken(s) == session'[s].token = session[s].token

LEMMA RevokedAges ==
  ASSUME SessionsTypeOK, NEW ids, session' = Revoked(ids), NEW s \in SessionIds
  PROVE  Ages(s) /\ KeepsToken(s)
  <1>1. session[s] \in SessionRow /\ session[s].life \in Nat
    BY DEF SessionsTypeOK, SessionRow
  <1>2. \/ session'[s] = session[s]
        \/ /\ session[s].status = "live"
           /\ session'[s] = [session[s] EXCEPT !.status = "revoked"]
    BY DEF Revoked
  <1> QED BY <1>1, <1>2 DEF Ages, KeepsToken, SessionRow

LEMMA SameAges ==
  ASSUME SessionsTypeOK, NEW s \in SessionIds, session'[s] = session[s]
  PROVE  Ages(s) /\ KeepsToken(s)
  <1>1. session[s].life \in Nat
    BY DEF SessionsTypeOK, SessionRow
  <1> QED BY <1>1 DEF Ages, KeepsToken

LEMMA IssueMoves ==
  ASSUME SessionsTypeOK, NEW u \in Accounts, IssueSession(u), NEW s \in SessionIds
  PROVE  Issued(s) \/ (Ages(s) /\ KeepsToken(s) /\ held'[s] = held[s])
  <1>1. PICK x \in SessionIds :
          /\ session[x].status = "absent"
          /\ session' = [session EXCEPT ![x] = [status |-> "live", owner |-> u,
                           token |-> 0, life |-> SessionLife]]
          /\ held' = [held EXCEPT ![x] = 0]
    BY DEF IssueSession
  <1>2. CASE s = x
    BY <1>1, <1>2 DEF Issued, SessionsTypeOK
  <1>3. CASE s # x
    BY <1>1, <1>3, SameAges DEF SessionsTypeOK
  <1> QED BY <1>2, <1>3

LEMMA TickMoves ==
  ASSUME SessionsTypeOK, Tick
  PROVE  /\ \A u \in Accounts : UserMoves(u)
         /\ \A s \in SessionIds : Ages(s) /\ KeepsToken(s)
  <1>1. \A u \in Accounts : UserMoves(u)
    BY DEF Tick, UserMoves
  <1>2. ASSUME NEW s \in SessionIds PROVE Ages(s) /\ KeepsToken(s)
    <2>1. session'[s] = [session[s] EXCEPT !.life = Less(@)]
      BY DEF Tick
    <2>2. session[s] \in SessionRow /\ session[s].life \in Nat
      BY DEF SessionsTypeOK, SessionRow
    <2>3. Less(session[s].life) <= session[s].life
      BY <2>2 DEF Less
    <2> QED BY <2>1, <2>2, <2>3 DEF Ages, KeepsToken, SessionRow
  <1> QED BY <1>1, <1>2

LEMMA EraseMoves ==
  ASSUME SessionsTypeOK, NEW r \in Calls, EraseData(r)
  PROVE  /\ \A u \in Accounts : UserMoves(u)
         /\ \A s \in SessionIds : Ages(s) /\ KeepsToken(s)
  <1>1. /\ user \in [Accounts -> UserRow] /\ call[r].u \in Accounts
    BY DEF SessionsTypeOK, Call
  <1>2. \/ user' = user
        \/ user' = [user EXCEPT ![call[r].u] =
                      [Unlocked(user[call[r].u]) EXCEPT !.status = "deleted"]]
    BY <1>1 DEF EraseData
  <1>3. \A u \in Accounts : UserMoves(u)
    BY <1>1, <1>2 DEF UserMoves
  <1>4. ASSUME NEW s \in SessionIds PROVE Ages(s) /\ KeepsToken(s)
    <2>1. \/ session'[s] = session[s]
          \/ /\ session[s].status # "absent"
             /\ session'[s] = [session[s] EXCEPT !.status = "erased", !.life = 0]
      BY DEF EraseData
    <2>2. session[s] \in SessionRow /\ session[s].life \in Nat
      BY DEF SessionsTypeOK, SessionRow
    <2>3. CASE session'[s] = session[s]
      BY <2>3, SameAges
    <2>4. CASE session'[s] = [session[s] EXCEPT !.status = "erased", !.life = 0]
      <3>1. /\ session'[s].status = "erased" /\ session'[s].life = 0
            /\ session'[s].token = session[s].token
        BY <2>2, <2>4 DEF SessionRow
      <3>2. CASE session[s].status # "absent"
        BY <2>2, <3>1, <3>2 DEF Ages, KeepsToken
      <3> QED BY <2>1, <2>3, <3>2
    <2> QED BY <2>1, <2>3, <2>4
  <1> QED BY <1>3, <1>4

LEMMA RotateMoves ==
  ASSUME SessionsTypeOK, NEW r \in Calls, Rotate(r), NEW s \in SessionIds
  PROVE  /\ Ages(s)
         /\ s # call[r].s => KeepsToken(s)
         /\ s = call[r].s /\ Found(r) => session'[s].token = session[s].token + 1
  <1>1. session[s] \in SessionRow /\ session[s].life \in Nat
    BY DEF SessionsTypeOK, SessionRow
  <1>2. CASE ~Found(r)
    BY <1>2, SameAges DEF Rotate
  <1>3. CASE Found(r)
    <2>1. session' = [session EXCEPT ![call[r].s].token = @ + 1]
      BY <1>3 DEF Rotate
    <2>2. session \in [SessionIds -> SessionRow]
      BY DEF SessionsTypeOK
    <2> QED BY <1>1, <2>1, <2>2 DEF Ages, KeepsToken, SessionRow
  <1> QED BY <1>2, <1>3

----------------------------------------------------------------------------
(* Type correctness.                                                       *)

LEMMA SessionsCallType ==
  ASSUME SessionsTypeOK, NEW r \in Calls, SessionsCall(r)
  PROVE  SessionsTypeOK'
  <1>1. /\ user \in [Accounts -> UserRow]
        /\ session \in [SessionIds -> SessionRow]
        /\ reset \in [ResetIds -> ResetRow]
        /\ held \in [SessionIds -> 0..MaxRotations]
        /\ call \in [Calls -> Call] /\ call[r] \in Call
        /\ lost \in 0..MaxLost
    BY DEF SessionsTypeOK
  <1>2. call[r].u \in Accounts /\ call[r].s \in SessionIds
    BY <1>1 DEF Call
  <1>3. ASSUME UNCHANGED <<user, session, reset, held, lost>>,
               call' \in [Calls -> Call]
        PROVE  SessionsTypeOK'
    BY <1>3 DEF SessionsTypeOK
  <1>4. CASE ReadRegister(r)
    <2>1. [IdleCall EXCEPT !.pc = "register"] \in Call
      BY IdleType DEF Call, CallPC
    <2> QED BY <1>4, <2>1, <1>1, <1>3, CallType DEF ReadRegister
  <1>5. CASE InsertUser(r)
    <2>1. call' \in [Calls -> Call]
      BY <1>5, <1>1, CallType DEF InsertUser
    <2>2. CASE UNCHANGED <<user, session, held>>
      BY <1>5, <2>1, <2>2 DEF InsertUser, SessionsTypeOK
    <2>3. ASSUME NEW u \in Accounts, user' = [user EXCEPT ![u] = NewUser],
                 IssueSession(u)
          PROVE  SessionsTypeOK'
      <3>1. user' \in [Accounts -> UserRow]
        BY <1>1, <2>3, RowTypes
      <3> QED BY <1>5, <2>1, <2>3, <3>1, IssueType DEF InsertUser, SessionsTypeOK
    <2> QED BY <1>5, <2>2, <2>3 DEF InsertUser
  <1>6. CASE ReadLogin(r)
    <2>1. PICK u \in Accounts, pc \in {"succeed", "fail"} :
            BeginCall(r, [IdleCall EXCEPT !.u = u, !.pc = pc])
      BY <1>6 DEF ReadLogin
    <2>2. [IdleCall EXCEPT !.u = u, !.pc = pc] \in Call
      BY IdleType DEF Call, CallPC
    <2> QED BY <1>6, <2>1, <2>2, <1>1, <1>3, CallType DEF ReadLogin
  <1>7. CASE FailLogin(r)
    <2>1. user' \in [Accounts -> UserRow]
      BY <1>7, <1>1, <1>2, RowTypes DEF FailLogin
    <2> QED BY <1>7, <2>1, <1>1, CallType DEF FailLogin, SessionsTypeOK
  <1>8. CASE SucceedLogin(r)
    <2>1. user' \in [Accounts -> UserRow]
      BY <1>8, <1>1, <1>2, RowTypes DEF SucceedLogin
    <2> QED BY <1>8, <2>1, <1>1, <1>2, CallType, IssueType
               DEF SucceedLogin, SessionsTypeOK
  <1>9. CASE SendRefresh(r) \/ SendLogout(r)
    <2>1. PICK s \in SessionIds, pc \in {"refresh", "logout"} :
            SendToken(r, s, pc)
      BY <1>9 DEF SendRefresh, SendLogout
    <2>2. [IdleCall EXCEPT !.pc = pc, !.s = s, !.token = held[s]] \in Call
      BY IdleType, <1>1 DEF Call, CallPC
    <2> QED BY <2>1, <2>2, <1>1, <1>3, CallType DEF SendToken
  <1>10. CASE Rotate(r)
    <2>1. CASE ~Found(r)
      BY <1>10, <2>1, <1>1, <1>3, CallType DEF Rotate
    <2>2. CASE Found(r)
      <3>1. session[call[r].s].token + 1 \in 0..MaxRotations
        BY <1>10, <2>2, <1>1, <1>2 DEF Rotate, SessionRow
      <3>2. session' \in [SessionIds -> SessionRow]
        BY <1>10, <2>2, <3>1, <1>1, <1>2 DEF Rotate, SessionRow
      <3>3. call' \in [Calls -> Call]
        <4> DEFINE next == session[call[r].s].token + 1
        <4>1. call' = [call EXCEPT ![r].pc = "answer", ![r].token = next]
          BY <1>10, <2>2 DEF Rotate
        <4>2. next \in 0..MaxRotations
          BY <3>1
        <4> HIDE DEF next
        <4> QED BY <4>1, <4>2, <1>1 DEF Call, CallPC
      <3> QED BY <1>10, <3>2, <3>3 DEF Rotate, SessionsTypeOK
    <2> QED BY <2>1, <2>2
  <1>11. CASE DeliverAnswer(r)
    <2>1. held' \in [SessionIds -> 0..MaxRotations]
      BY <1>11, <1>1 DEF DeliverAnswer, Call
    <2> QED BY <1>11, <2>1, <1>1, CallType DEF DeliverAnswer, SessionsTypeOK
  <1>12. CASE LoseAnswer(r)
    BY <1>12, <1>1, CallType DEF LoseAnswer, SessionsTypeOK
  <1>13. CASE Logout(r) \/ RevokeSession(r) \/ RevokeAll(r)
    <2>1. PICK ids : session' = Revoked(ids)
      BY <1>13 DEF Logout, RevokeSession, RevokeAll
    <2> QED BY <1>13, <2>1, <1>1, CallType, RevokedType
               DEF Logout, RevokeSession, RevokeAll, SessionsTypeOK
  <1>14. CASE ReadUser(r)
    <2>1. PICK s \in SessionIds :
            BeginCall(r, [IdleCall EXCEPT !.pc = "check session", !.s = s,
                            !.u = session[s].owner, !.late = ~Accepted(s)])
      BY <1>14 DEF ReadUser
    <2>2. session[s].owner \in Accounts
      BY <1>1 DEF SessionRow
    <2>3. ASSUME NEW late \in BOOLEAN
          PROVE  [IdleCall EXCEPT !.pc = "check session", !.s = s,
                    !.u = session[s].owner, !.late = late] \in Call
      BY <2>2, IdleType DEF Call, CallPC
    <2>4. (~Accepted(s)) \in BOOLEAN
      OBVIOUS
    <2> QED BY <1>14, <2>1, <2>3, <2>4, <1>1, <1>3, CallType DEF ReadUser
  <1>15. CASE ReadSession(r)
    <2>1. "admitted" \in CallPC
      BY DEF CallPC
    <2> QED BY <1>15, <2>1, <1>1, <1>3, CallType DEF ReadSession
  <1>16. CASE OtherRequest(r)
    BY <1>16, <1>1, <1>3, CallType DEF OtherRequest
  <1>17. CASE EraseData(r)
    <2>1. user' \in [Accounts -> UserRow]
      <3> DEFINE u == call[r].u
      <3>1. \/ user' = user
            \/ user' = [user EXCEPT ![u] =
                          [Unlocked(user[u]) EXCEPT !.status = "deleted"]]
        BY <1>17, <1>1, <1>2 DEF EraseData
      <3>2. [Unlocked(user[u]) EXCEPT !.status = "deleted"] \in UserRow
        BY <1>1, <1>2, RowTypes
      <3>3. u \in Accounts
        BY <1>2
      <3> HIDE DEF u
      <3> QED BY <3>1, <3>2, <3>3, <1>1
    <2>2. session' \in [SessionIds -> SessionRow]
      <3>1. \A s \in SessionIds :
              [session[s] EXCEPT !.status = "erased", !.life = 0] \in SessionRow
        <4>1. 0 \in 0..SessionLife
          OBVIOUS
        <4> QED BY <1>1, <4>1 DEF SessionRow
      <3> QED BY <1>17, <1>1, <3>1 DEF EraseData
    <2>3. reset' \in [ResetIds -> ResetRow]
      BY <1>17, <1>1, ClosedType DEF EraseData
    <2> QED BY <1>17, <2>1, <2>2, <2>3, <1>1, CallType
               DEF EraseData, SessionsTypeOK
  <1> QED
    BY SessionsCall(r), <1>4, <1>5, <1>6, <1>7, <1>8, <1>9, <1>10, <1>11, <1>12,
       <1>13, <1>14, <1>15, <1>16, <1>17 DEF SessionsCall

LEMMA ConfirmMoves ==
  ASSUME SessionsTypeOK, ConfirmReset
  PROVE  /\ SessionsTypeOK'
         /\ \A u \in Accounts : UserMoves(u)
         /\ \A s \in SessionIds : Ages(s) /\ KeepsToken(s)
  <1>1. PICK t \in ResetIds :
          /\ user' = [user EXCEPT ![reset[t].owner] = Unlocked(@)]
          /\ reset' = [reset EXCEPT ![t] = Closed(@)]
          /\ session' = Revoked(OwnSessions(reset[t].owner))
    BY DEF ConfirmReset
  <1>2. /\ user \in [Accounts -> UserRow] /\ reset[t].owner \in Accounts
        /\ reset \in [ResetIds -> ResetRow]
        /\ session \in [SessionIds -> SessionRow]
    BY DEF SessionsTypeOK, ResetRow
  <1>3. user' \in [Accounts -> UserRow] /\ \A u \in Accounts : UserMoves(u)
    BY <1>1, <1>2, RowTypes DEF UserMoves
  <1>4. reset' \in [ResetIds -> ResetRow]
    BY <1>1, <1>2, ClosedType
  <1>5. session' \in [SessionIds -> SessionRow]
    BY <1>1, <1>2, RevokedType
  <1>6. SessionsTypeOK'
    BY <1>3, <1>4, <1>5 DEF ConfirmReset, SessionsTypeOK
  <1> QED BY <1>1, <1>3, <1>6, RevokedAges

LEMMA RequestResetType ==
  ASSUME SessionsTypeOK, RequestReset
  PROVE  SessionsTypeOK'
  <1>1. PICK u \in Accounts, t \in ResetIds :
          reset' = [reset EXCEPT ![t] =
            [status |-> "open", owner |-> u, life |-> ResetLife]]
    BY DEF RequestReset
  <1>2. ResetLife \in 0..ResetLife
    OBVIOUS
  <1>3. [status |-> "open", owner |-> u, life |-> ResetLife] \in ResetRow
    BY <1>2 DEF ResetRow
  <1>4. reset' \in [ResetIds -> ResetRow]
    BY <1>1, <1>3 DEF SessionsTypeOK
  <1> QED BY <1>4 DEF RequestReset, SessionsTypeOK

LEMMA TickType ==
  ASSUME SessionsTypeOK, Tick
  PROVE  SessionsTypeOK'
  <1>1. /\ user \in [Accounts -> UserRow]
        /\ session \in [SessionIds -> SessionRow]
        /\ reset \in [ResetIds -> ResetRow]
    BY DEF SessionsTypeOK
  <1>2. user' \in [Accounts -> UserRow]
    BY <1>1, RowTypes DEF Tick
  <1>3. session' \in [SessionIds -> SessionRow]
    <2>1. \A s \in SessionIds : Less(session[s].life) \in 0..SessionLife
      BY <1>1 DEF SessionRow, Less
    <2>2. \A s \in SessionIds :
            [session[s] EXCEPT !.life = Less(@)] \in SessionRow
      BY <1>1, <2>1 DEF SessionRow
    <2> QED BY <2>2 DEF Tick
  <1>4. reset' \in [ResetIds -> ResetRow]
    <2>1. \A t \in ResetIds : Less(reset[t].life) \in 0..ResetLife
      BY <1>1 DEF ResetRow, Less
    <2>2. \A t \in ResetIds : [reset[t] EXCEPT !.life = Less(@)] \in ResetRow
      BY <1>1, <2>1 DEF ResetRow
    <2> QED BY <2>2 DEF Tick
  <1> QED BY <1>2, <1>3, <1>4 DEF Tick, SessionsTypeOK

LEMMA SessionsNextType ==
  SessionsTypeOK /\ [SessionsNext]_sessionsVars => SessionsTypeOK'
  <1> SUFFICES ASSUME SessionsTypeOK, [SessionsNext]_sessionsVars
               PROVE  SessionsTypeOK'
    OBVIOUS
  <1>1. CASE UNCHANGED sessionsVars
    BY <1>1 DEF sessionsVars, SessionsTypeOK
  <1> QED BY <1>1, SessionsCallType, RequestResetType, ConfirmMoves, TickType
             DEF SessionsNext

----------------------------------------------------------------------------
(* Every step keeps to the moves.                                          *)

LEMMA Moves ==
  ASSUME SessionsTypeOK, SessionsNext
  PROVE  /\ \A u \in Accounts : UserMoves(u)
         /\ \A s \in SessionIds : Issued(s) \/ Ages(s)
  <1>1. ASSUME NEW r \in Calls, InsertUser(r) \/ SucceedLogin(r)
        PROVE  /\ \A u \in Accounts : UserMoves(u)
               /\ \A s \in SessionIds : Issued(s) \/ Ages(s)
    <2>1. user \in [Accounts -> UserRow] /\ call[r].u \in Accounts
      BY DEF SessionsTypeOK, Call
    <2>2. CASE UNCHANGED <<user, session>>
      BY <2>2, SameAges DEF UserMoves
    <2>3. ASSUME NEW u \in Accounts, IssueSession(u),
                 \/ user' = [user EXCEPT ![u] = NewUser]
                 \/ user' = [user EXCEPT ![u] = Unlocked(@)]
          PROVE  /\ \A x \in Accounts : UserMoves(x)
                 /\ \A s \in SessionIds : Issued(s) \/ Ages(s)
      BY <2>1, <2>3, IssueMoves DEF UserMoves
    <2> QED BY <1>1, <2>1, <2>2, <2>3 DEF InsertUser, SucceedLogin
  <1>2. ASSUME NEW r \in Calls, FailLogin(r)
        PROVE  /\ \A u \in Accounts : UserMoves(u)
               /\ \A s \in SessionIds : Ages(s)
    <2>1. user \in [Accounts -> UserRow] /\ session' = session
      BY <1>2 DEF SessionsTypeOK, FailLogin
    <2> QED BY <1>2, <2>1, SameAges DEF FailLogin, UserMoves
  <1>3. ASSUME NEW r \in Calls, Rotate(r)
        PROVE  /\ \A u \in Accounts : UserMoves(u)
               /\ \A s \in SessionIds : Ages(s)
    BY <1>3, RotateMoves DEF Rotate, UserMoves
  <1>4. ASSUME NEW r \in Calls, Logout(r) \/ RevokeSession(r) \/ RevokeAll(r)
        PROVE  /\ \A u \in Accounts : UserMoves(u)
               /\ \A s \in SessionIds : Ages(s)
    <2>1. PICK ids : session' = Revoked(ids)
      BY <1>4 DEF Logout, RevokeSession, RevokeAll
    <2> QED BY <1>4, <2>1, RevokedAges
               DEF Logout, RevokeSession, RevokeAll, UserMoves
  <1>5. ASSUME UNCHANGED <<user, session>>
        PROVE  /\ \A u \in Accounts : UserMoves(u)
               /\ \A s \in SessionIds : Ages(s)
    BY <1>5, SameAges DEF UserMoves
  <1>6. ASSUME NEW r \in Calls,
               \/ ReadRegister(r) \/ ReadLogin(r) \/ SendRefresh(r)
               \/ DeliverAnswer(r) \/ LoseAnswer(r) \/ SendLogout(r)
               \/ ReadUser(r) \/ ReadSession(r) \/ OtherRequest(r)
        PROVE  UNCHANGED <<user, session>>
    BY <1>6 DEF ReadRegister, ReadLogin, SendRefresh, DeliverAnswer, LoseAnswer,
                SendLogout, SendToken, ReadUser, ReadSession, OtherRequest
  <1>7. RequestReset => UNCHANGED <<user, session>>
    BY DEF RequestReset
  <1> QED
    BY <1>1, <1>2, <1>3, <1>4, <1>5, <1>6, <1>7, EraseMoves, ConfirmMoves,
       TickMoves DEF SessionsNext, SessionsCall

----------------------------------------------------------------------------
(* The lock.                                                               *)

(* The lock of an account follows its failure counter (authenticate_user,  *)
(* confirm_password_reset): whatever logins fail and succeed at the same   *)
(* moment, it is there exactly when the counter has reached the threshold. *)
THEOREM LockIsCounted == SessionsSpec => []LockFollowsCount
  <1>1. SessionsInit => LockFollowsCount
    BY DEF SessionsInit, LockFollowsCount
  <1>2. SessionsTypeOK /\ LockFollowsCount /\ [SessionsNext]_sessionsVars
          => LockFollowsCount'
    <2> SUFFICES ASSUME SessionsTypeOK, LockFollowsCount,
                        [SessionsNext]_sessionsVars, NEW u \in Accounts
                 PROVE  (user'[u].failed = LockThreshold)
                          <=> (user'[u].lock # NotLocked)
      BY DEF LockFollowsCount
    <2>1. /\ user[u] \in UserRow /\ user[u].failed \in 0..LockThreshold
          /\ user[u].lock \in 0..(LockDuration + 1)
          /\ (user[u].failed = LockThreshold) <=> (user[u].lock # NotLocked)
      BY DEF SessionsTypeOK, UserRow, LockFollowsCount, NotLocked
    <2>2. CASE user'[u] = user[u]
      BY <2>1, <2>2
    <2>3. CASE user'[u] = NewUser
      BY <2>3 DEF NewUser
    <2>4. CASE user'[u] = Failed(user[u])
      <3>1. /\ user'[u].failed = Capped(user[u].failed + 1)
            /\ user'[u].lock = IF user[u].failed + 1 >= LockThreshold
                               THEN LockDuration ELSE user[u].lock
        BY <2>1, <2>4 DEF Failed, UserRow
      <3> QED BY <2>1, <3>1 DEF Capped, NotLocked
    <2>5. CASE \/ user'[u] = Unlocked(user[u])
               \/ user'[u] = [Unlocked(user[u]) EXCEPT !.status = "deleted"]
      <3>1. user'[u].failed = 0 /\ user'[u].lock = NotLocked
        BY <2>1, <2>5 DEF Unlocked, UserRow
      <3> QED BY <3>1
    <2>6. CASE /\ user[u].lock # NotLocked
               /\ user'[u] = [user[u] EXCEPT !.lock = Less(@)]
      <3>1. /\ user'[u].failed = user[u].failed
            /\ user'[u].lock = Less(user[u].lock)
        BY <2>1, <2>6 DEF UserRow
      <3>2. Less(user[u].lock) # NotLocked
        BY <2>1 DEF Less, NotLocked
      <3> QED BY <2>1, <2>6, <3>1, <3>2
    <2>7. UserMoves(u) \/ user' = user
      BY Moves DEF sessionsVars
    <2> QED BY <2>2, <2>3, <2>4, <2>5, <2>6, <2>7 DEF UserMoves
  <1> QED BY <1>1, <1>2, SessionsInitType, SessionsNextType, PTL
             DEF SessionsSpec

----------------------------------------------------------------------------
(* Admission.  A request is late when its session was over as it began: it *)
(* still is when the request looks at it.                                  *)

OverAt(pc, s) ==
  /\ pc = "check session"
  /\ session[s].status # "absent"
  /\ ~(session[s].status = "live" /\ session[s].life > 0)

LateIsOver ==
  \A r \in Calls :
    call[r].late /\ call[r].pc \in {"check session", "admitted"} =>
      OverAt(call[r].pc, call[r].s)

LEMMA AgedIsOver ==
  ASSUME NEW s \in SessionIds, Ages(s),
         session[s].life \in 0..SessionLife, session'[s].life \in 0..SessionLife
  PROVE  session[s].status # "absent" =>
           /\ session'[s].status # "absent"
           /\ session'[s].status = "live" /\ session'[s].life > 0
                => session[s].status = "live" /\ session[s].life > 0
  <1> DEFINE life == session[s].life
             life2 == session'[s].life
  <1>1. life2 <= life /\ life \in Nat /\ life2 \in Nat
    BY DEF Ages
  <1>2. life2 > 0 => life > 0
    <2> HIDE DEF life, life2
    <2> QED BY <1>1
  <1>3. \/ session'[s].status = session[s].status
        \/ /\ session[s].status # "absent"
           /\ session'[s].status \in {"revoked", "erased"}
    BY DEF Ages
  <1> QED BY <1>2, <1>3

(* What a request stands for, as far as admission is concerned.            *)
LEMMA LateKeeps ==
  ASSUME SessionsTypeOK, LateIsOver, SessionsNext,
         \A r \in Calls : \/ call'[r] = call[r]
                          \/ call'[r].pc \notin {"check session", "admitted"}
  PROVE  LateIsOver'
  <1> SUFFICES ASSUME NEW r \in Calls, call'[r].late,
                      call'[r].pc \in {"check session", "admitted"}
               PROVE  OverAt(call[r].pc, call[r].s)'
    BY DEF LateIsOver
  <1>1. call'[r] = call[r]
    OBVIOUS
  <1>2. OverAt(call[r].pc, call[r].s)
    BY <1>1 DEF LateIsOver
  <1>3. SessionsTypeOK'
    BY SessionsNextType
  <1>4. /\ call[r].s \in SessionIds
        /\ session[call[r].s].life \in 0..SessionLife
        /\ session'[call[r].s].life \in 0..SessionLife
    BY <1>3 DEF SessionsTypeOK, Call, SessionRow
  <1>5. Ages(call[r].s)
    BY <1>2, <1>4, Moves DEF Issued, OverAt
  <1>6. \A pc : OverAt(pc, call[r].s) => OverAt(pc, call[r].s)'
    <2> DEFINE s == call[r].s
    <2>1. call'[r].s = s
      BY <1>1
    <2>2. session[s].status # "absent" =>
            /\ session'[s].status # "absent"
            /\ session'[s].status = "live" /\ session'[s].life > 0
                 => session[s].status = "live" /\ session[s].life > 0
      BY <1>4, <1>5, AgedIsOver
    <2> QED BY <2>1, <2>2 DEF OverAt
  <1>7. call'[r].pc = call[r].pc
    BY <1>1
  <1> QED BY <1>2, <1>6, <1>7 DEF OverAt

LEMMA LateNext ==
  SessionsTypeOK /\ LateIsOver /\ [SessionsNext]_sessionsVars => LateIsOver'
  <1> SUFFICES ASSUME SessionsTypeOK, LateIsOver, [SessionsNext]_sessionsVars
               PROVE  LateIsOver'
    OBVIOUS
  <1> DEFINE Calm == \A r \in Calls :
                       \/ call'[r] = call[r]
                       \/ call'[r].pc \notin {"check session", "admitted"}
  <1>1. /\ call \in [Calls -> Call]
        /\ IdleCall.pc = "free"
        /\ \A pc, u, s, token :
             /\ [IdleCall EXCEPT !.pc = pc].pc = pc
             /\ [IdleCall EXCEPT !.u = u, !.pc = pc].pc = pc
             /\ [IdleCall EXCEPT !.pc = pc, !.s = s, !.token = token].pc = pc
    BY DEF SessionsTypeOK, IdleCall
  <1>2. CASE UNCHANGED sessionsVars
    BY <1>2 DEF sessionsVars, LateIsOver, OverAt
  <1>3. CASE RequestReset \/ ConfirmReset \/ Tick
    <2>1. call' = call /\ SessionsNext
      BY <1>3 DEF RequestReset, ConfirmReset, Tick, SessionsNext
    <2> QED BY <2>1, LateKeeps
  <1>4. ASSUME NEW r \in Calls, SessionsCall(r) PROVE LateIsOver'
    <2>1. SessionsNext
      BY <1>4 DEF SessionsNext
    <2>2. ASSUME EndCall(r) PROVE Calm
      BY <2>2, <1>1 DEF EndCall
    <2>3. ASSUME NEW request, BeginCall(r, request),
                 request.pc \in {"register", "succeed", "fail", "refresh", "logout"}
          PROVE  Calm
      BY <2>3, <1>1 DEF BeginCall
    <2>4. Calm => LateIsOver'
      BY <2>1, LateKeeps
    <2> HIDE DEF Calm
    <2>5. CASE ReadRegister(r)
      BY <2>5, <2>3, <2>4, <1>1 DEF ReadRegister
    <2>6. CASE ReadLogin(r)
      <3>1. PICK u \in Accounts, pc \in {"succeed", "fail"} :
              BeginCall(r, [IdleCall EXCEPT !.u = u, !.pc = pc])
        BY <2>6 DEF ReadLogin
      <3> QED BY <3>1, <2>3, <2>4, <1>1
    <2>7. CASE SendRefresh(r) \/ SendLogout(r)
      <3>1. PICK s \in SessionIds, pc \in {"refresh", "logout"} :
              BeginCall(r, [IdleCall EXCEPT !.pc = pc, !.s = s, !.token = held[s]])
        BY <2>7 DEF SendRefresh, SendLogout, SendToken
      <3>2. [IdleCall EXCEPT !.pc = pc, !.s = s, !.token = held[s]].pc = pc
        BY DEF IdleCall
      <3> QED BY <3>1, <3>2, <2>3, <2>4
    <2>8. CASE Rotate(r)
      <3>1. CASE Found(r)
        <4>1. call' = [call EXCEPT ![r].pc = "answer",
                                   ![r].token = session[call[r].s].token + 1]
          BY <2>8, <3>1 DEF Rotate
        <4>2. Calm
          <5>1. /\ call'[r].pc = "answer"
                /\ \A q \in Calls \ {r} : call'[q] = call[q]
            BY <4>1, <1>1 DEF Call
          <5> QED BY <5>1 DEF Calm
        <4> QED BY <4>2, <2>4
      <3> QED BY <2>8, <3>1, <2>2, <2>4 DEF Rotate
    <2>9. CASE ReadUser(r)
      <3>1. PICK s \in SessionIds :
              /\ session[s].status # "absent"
              /\ user[session[s].owner].status = "live"
              /\ call' = [call EXCEPT ![r] =
                   [IdleCall EXCEPT !.pc = "check session", !.s = s,
                      !.u = session[s].owner, !.late = ~Accepted(s)]]
              /\ session' = session
        BY <2>9 DEF ReadUser, BeginCall
      <3>2. /\ call'[r].pc = "check session" /\ call'[r].s = s
            /\ call'[r].late = ~Accepted(s)
            /\ \A q \in Calls \ {r} : call'[q] = call[q]
        BY <3>1, <1>1 DEF IdleCall
      <3>3. call'[r].late => OverAt(call[r].pc, call[r].s)'
        BY <3>1, <3>2 DEF Accepted, Alive, OverAt
      <3>4. \A q \in Calls \ {r} :
              OverAt(call[q].pc, call[q].s) => OverAt(call[q].pc, call[q].s)'
        BY <3>1, <3>2 DEF OverAt
      <3> QED BY <3>2, <3>3, <3>4 DEF LateIsOver
    <2>10. CASE ReadSession(r)
      <3>1. CASE ~Admits(call[r].s)
        BY <2>10, <3>1, <2>2, <2>4 DEF ReadSession
      <3>2. CASE Admits(call[r].s)
        <4>1. /\ call' = [call EXCEPT ![r].pc = "admitted"]
              /\ session' = session /\ call[r].pc = "check session"
          BY <2>10, <3>2 DEF ReadSession, CallGoes, AtCall
        <4>2. ~OverAt(call[r].pc, call[r].s)
          BY <3>2 DEF Admits, Alive, OverAt
        <4>3. ~call[r].late
          BY <4>1, <4>2 DEF LateIsOver
        <4>4. /\ call'[r].late = call[r].late
              /\ \A q \in Calls \ {r} : call'[q] = call[q]
          <5>1. call[r] \in Call
            BY <1>1
          <5>2. call'[r] = [call[r] EXCEPT !.pc = "admitted"]
            BY <4>1, <1>1
          <5>3. \A q \in Calls \ {r} : call'[q] = call[q]
            BY <4>1, <1>1
          <5> QED BY <5>1, <5>2, <5>3, Zenon DEF Call
        <4>5. ~call'[r].late
          BY <4>3, <4>4
        <4>6. \A q \in Calls \ {r} :
                OverAt(call[q].pc, call[q].s) => OverAt(call[q].pc, call[q].s)'
          BY <4>1, <4>4 DEF OverAt
        <4> QED BY <4>4, <4>5, <4>6 DEF LateIsOver
      <3> QED BY <3>1, <3>2
    <2>11. CASE EndCall(r)
      BY <2>11, <2>2, <2>4
    <2> QED
      BY <1>4, <2>5, <2>6, <2>7, <2>8, <2>9, <2>10, <2>11
         DEF SessionsCall, InsertUser, FailLogin, SucceedLogin, DeliverAnswer,
             LoseAnswer, Logout, RevokeSession, RevokeAll, OtherRequest, EraseData
  <1> QED BY <1>2, <1>3, <1>4 DEF SessionsNext

(* No request is admitted on a session that was revoked, erased or expired,*)
(* or whose account was deleted, before the request began                  *)
(* (user_from_token), whatever else goes on in between.                    *)
THEOREM NoneAdmittedLate == SessionsSpec => []NoLateAdmission
  <1>1. SessionsInit => LateIsOver
    <2> SUFFICES ASSUME SessionsInit PROVE LateIsOver
      OBVIOUS
    <2>1. \A r \in Calls : call[r].pc = "free"
      BY DEF SessionsInit, IdleCall
    <2> QED BY <2>1 DEF LateIsOver
  <1>2. LateIsOver => NoLateAdmission
    BY DEF LateIsOver, OverAt, NoLateAdmission, AtCall
  <1> QED BY <1>1, <1>2, LateNext, SessionsInitType, SessionsNextType, PTL
             DEF SessionsSpec

----------------------------------------------------------------------------
(* The client's token.  A rotation takes the token the client holds, so    *)
(* none follows until its answer has arrived: a session has one answer at  *)
(* most on its way, with the token the server expects next.                *)

HeldIsOld == \A s \in SessionIds : held[s] <= session[s].token

SentWasHeld ==
  \A r \in Calls :
    call[r].pc = "refresh" => /\ session[call[r].s].status # "absent"
                              /\ call[r].token <= held[call[r].s]

AnswerIsNew ==
  \A r \in Calls :
    call[r].pc = "answer" => /\ session[call[r].s].status # "absent"
                             /\ call[r].token = session[call[r].s].token
                             /\ held[call[r].s] < call[r].token

OneAnswer ==
  \A r, q \in Calls :
    call[r].pc = "answer" /\ call[q].pc = "answer" /\ call[r].s = call[q].s
      => r = q

TokenInv ==
  HeldIsOld /\ SentWasHeld /\ AnswerIsNew /\ OneAnswer /\ ClientKeepsUp

TokenTypes ==
  /\ call \in [Calls -> Call]
  /\ held \in [SessionIds -> Nat]
  /\ \A s \in SessionIds : session[s].token \in Nat
  /\ \A r \in Calls : call[r].s \in SessionIds /\ call[r].token \in Nat
  /\ lost \in Nat

LEMMA TokenTyping == SessionsTypeOK => TokenTypes
  <1> SUFFICES ASSUME SessionsTypeOK PROVE TokenTypes
    OBVIOUS
  <1>1. call \in [Calls -> Call] /\ lost \in Nat
    BY DEF SessionsTypeOK
  <1>2. held \in [SessionIds -> Nat]
    BY DEF SessionsTypeOK
  <1>3. \A s \in SessionIds : session[s].token \in Nat
    BY DEF SessionsTypeOK, SessionRow
  <1>4. \A r \in Calls : call[r].s \in SessionIds /\ call[r].token \in Nat
    BY <1>1 DEF Call
  <1> QED BY <1>1, <1>2, <1>3, <1>4 DEF TokenTypes

(* Steps that neither send, rotate nor answer.                             *)
LEMMA TokenKeeps ==
  ASSUME TokenTypes, TokenInv, UNCHANGED lost,
         \A s \in SessionIds :
           Issued(s) \/ (Ages(s) /\ KeepsToken(s) /\ held'[s] = held[s]),
         \A q \in Calls :
           \/ call'[q] = call[q]
           \/ /\ call[q].pc # "answer"
              /\ call'[q].pc \notin {"refresh", "answer"}
  PROVE  TokenInv'
  <1>1. ASSUME NEW s \in SessionIds, session[s].status # "absent"
        PROVE  /\ session'[s].status # "absent" /\ held'[s] = held[s]
               /\ session'[s].token = session[s].token
    BY <1>1 DEF Issued, Ages, KeepsToken
  <1>2. \A q \in Calls : call'[q].pc \in {"refresh", "answer"}
                           => call'[q] = call[q]
    OBVIOUS
  <1>3. HeldIsOld'
    BY DEF HeldIsOld, TokenInv, TokenTypes, Issued, KeepsToken
  <1>4. SentWasHeld'
    BY <1>1, <1>2 DEF SentWasHeld, TokenInv, TokenTypes
  <1>5. AnswerIsNew'
    BY <1>1, <1>2 DEF AnswerIsNew, TokenInv, TokenTypes
  <1>6. OneAnswer'
    BY <1>2 DEF OneAnswer, TokenInv
  <1>7. ClientKeepsUp'
    <2> SUFFICES ASSUME lost = 0, NEW s \in SessionIds
                 PROVE  \/ held'[s] = session'[s].token
                        \/ \E r \in Calls :
                             /\ call'[r].pc = "answer" /\ call'[r].s = s
                             /\ call'[r].token = session'[s].token
      BY DEF ClientKeepsUp, AtCall
    <2>1. CASE Issued(s)
      BY <2>1 DEF Issued
    <2>2. CASE KeepsToken(s) /\ held'[s] = held[s]
      BY <2>2 DEF TokenInv, ClientKeepsUp, AtCall, KeepsToken
    <2> QED BY <2>1, <2>2
  <1> QED BY <1>3, <1>4, <1>5, <1>6, <1>7 DEF TokenInv

LEMMA TokenSend ==
  ASSUME TokenTypes, TokenInv, NEW r \in Calls, SendRefresh(r)
  PROVE  TokenInv'
  <1>1. PICK s \in SessionIds :
          /\ session[s].status # "absent" /\ call[r].pc = "free"
          /\ call' = [call EXCEPT ![r] =
               [IdleCall EXCEPT !.pc = "refresh", !.s = s, !.token = held[s]]]
    BY Bounds DEF SendRefresh, SendToken, BeginCall
  <1>2. /\ call'[r].pc = "refresh" /\ call'[r].s = s
        /\ call'[r].token = held[s]
        /\ \A q \in Calls \ {r} : call'[q] = call[q]
    BY <1>1 DEF TokenTypes, IdleCall
  <1>3. UNCHANGED <<session, held, lost>>
    BY DEF SendRefresh, SendToken
  <1>4. HeldIsOld' /\ SentWasHeld' /\ AnswerIsNew' /\ OneAnswer'
    BY <1>1, <1>2, <1>3 DEF TokenInv, TokenTypes, HeldIsOld, SentWasHeld,
                            AnswerIsNew, OneAnswer
  <1>5. ClientKeepsUp'
    BY <1>1, <1>2, <1>3 DEF TokenInv, ClientKeepsUp, AtCall
  <1> QED BY <1>4, <1>5 DEF TokenInv

LEMMA TokenRotate ==
  ASSUME SessionsTypeOK, TokenTypes, TokenInv, NEW r \in Calls, Rotate(r),
         Found(r)
  PROVE  TokenInv'
  <1> DEFINE s == call[r].s
  <1>1. /\ call[r].pc = "refresh" /\ s \in SessionIds
        /\ session[s].token = call[r].token /\ session[s].status = "live"
        /\ held' = held /\ lost' = lost
    BY DEF Rotate, AtCall, Found, Accepted, Alive, TokenTypes
  <1>2. held[s] = session[s].token /\ session[s].token \in Nat
    BY <1>1 DEF TokenInv, TokenTypes, HeldIsOld, SentWasHeld
  <1>3. \A q \in Calls : call[q].pc = "answer" => call[q].s # s
    BY <1>2 DEF TokenInv, AnswerIsNew
  <1>4. /\ session'[s].token = session[s].token + 1
        /\ session'[s].status # "absent"
        /\ \A x \in SessionIds \ {s} : session'[x] = session[x]
    <2>1. session' = [session EXCEPT ![s].token = @ + 1]
      BY DEF Rotate
    <2>2. session \in [SessionIds -> SessionRow] /\ session[s] \in SessionRow
      BY <1>1 DEF SessionsTypeOK
    <2> QED BY <1>1, <2>1, <2>2 DEF SessionRow
  <1>5. /\ call'[r].pc = "answer" /\ call'[r].s = s
        /\ call'[r].token = session[s].token + 1
        /\ \A q \in Calls \ {r} : call'[q] = call[q]
    <2> DEFINE next == session[s].token + 1
    <2>1. call' = [call EXCEPT ![r].pc = "answer", ![r].token = next]
      BY DEF Rotate
    <2>2. call \in [Calls -> Call] /\ call[r] \in Call
      BY DEF TokenTypes
    <2> HIDE DEF next
    <2>3. /\ call'[r].pc = "answer" /\ call'[r].s = call[r].s
          /\ call'[r].token = next
          /\ \A q \in Calls \ {r} : call'[q] = call[q]
      BY <2>1, <2>2 DEF Call
    <2> QED BY <2>3 DEF next
  <1> HIDE DEF s
  <1>6. HeldIsOld'
    BY <1>1, <1>2, <1>4 DEF TokenInv, TokenTypes, HeldIsOld
  <1>7. SentWasHeld'
    BY <1>1, <1>4, <1>5 DEF TokenInv, TokenTypes, SentWasHeld
  <1>8. AnswerIsNew'
    <2> SUFFICES ASSUME NEW q \in Calls, call'[q].pc = "answer"
                 PROVE  /\ session'[call'[q].s].status # "absent"
                        /\ call'[q].token = session'[call'[q].s].token
                        /\ held'[call'[q].s] < call'[q].token
      BY DEF AnswerIsNew
    <2>1. CASE q = r
      BY <1>1, <1>2, <1>4, <1>5, <2>1
    <2>2. CASE q # r
      <3>1. call'[q] = call[q] /\ call[q].s \in SessionIds \ {s}
        BY <1>3, <1>5, <2>2 DEF TokenTypes
      <3> QED BY <1>1, <1>4, <3>1 DEF TokenInv, AnswerIsNew
    <2> QED BY <2>1, <2>2
  <1>9. OneAnswer'
    BY <1>3, <1>5 DEF TokenInv, OneAnswer
  <1>10. ClientKeepsUp'
    <2> SUFFICES ASSUME lost = 0, NEW x \in SessionIds
                 PROVE  \/ held'[x] = session'[x].token
                        \/ \E q \in Calls :
                             /\ call'[q].pc = "answer" /\ call'[q].s = x
                             /\ call'[q].token = session'[x].token
      BY <1>1 DEF ClientKeepsUp, AtCall
    <2>1. CASE x = s
      BY <2>1, <1>4, <1>5
    <2>2. CASE x # s
      <3>1. \/ held[x] = session[x].token
            \/ \E q \in Calls : /\ call[q].pc = "answer" /\ call[q].s = x
                                /\ call[q].token = session[x].token
        BY DEF TokenInv, ClientKeepsUp, AtCall
      <3>2. \A q \in Calls : call[q].pc = "answer" => call'[q] = call[q]
        BY <1>1, <1>5
      <3> QED BY <1>1, <1>4, <2>2, <3>1, <3>2
    <2> QED BY <2>1, <2>2
  <1> QED BY <1>6, <1>7, <1>8, <1>9, <1>10 DEF TokenInv

LEMMA TokenAnswer ==
  ASSUME TokenTypes, TokenInv, NEW r \in Calls, DeliverAnswer(r) \/ LoseAnswer(r)
  PROVE  TokenInv'
  <1> DEFINE s == call[r].s
  <1>1. /\ call[r].pc = "answer" /\ s \in SessionIds /\ session' = session
        /\ call[r].token = session[s].token /\ held[s] < call[r].token
    BY DEF DeliverAnswer, LoseAnswer, AtCall, TokenTypes, TokenInv, AnswerIsNew
  <1>2. /\ call'[r].pc = "free"
        /\ \A q \in Calls \ {r} : call'[q] = call[q]
    BY DEF DeliverAnswer, LoseAnswer, EndCall, IdleCall, TokenTypes
  <1>3. \A q \in Calls \ {r} : call[q].pc = "answer" => call[q].s # s
    BY <1>1 DEF TokenInv, OneAnswer
  <1>4. OneAnswer'
    BY <1>2 DEF TokenInv, OneAnswer
  <1>5. CASE LoseAnswer(r)
    <2>1. held' = held /\ lost' = lost + 1
      BY <1>5 DEF LoseAnswer
    <2>2. HeldIsOld' /\ SentWasHeld' /\ AnswerIsNew'
      BY <1>1, <1>2, <2>1
         DEF TokenInv, HeldIsOld, SentWasHeld, AnswerIsNew
    <2>3. ClientKeepsUp'
      BY <2>1 DEF TokenTypes, ClientKeepsUp
    <2> QED BY <1>4, <2>2, <2>3 DEF TokenInv
  <1>6. CASE DeliverAnswer(r)
    <2>1. /\ held'[s] = call[r].token /\ lost' = lost
          /\ \A x \in SessionIds \ {s} : held'[x] = held[x]
      BY <1>1, <1>6 DEF DeliverAnswer, TokenTypes
    <2> HIDE DEF s
    <2>2. HeldIsOld'
      BY <1>1, <2>1 DEF TokenInv, TokenTypes, HeldIsOld
    <2>3. SentWasHeld'
      <3> SUFFICES ASSUME NEW q \in Calls, call'[q].pc = "refresh"
                   PROVE  /\ session'[call'[q].s].status # "absent"
                          /\ call'[q].token <= held'[call'[q].s]
        BY DEF SentWasHeld
      <3>1. /\ call'[q] = call[q] /\ call[q].s \in SessionIds
            /\ session[call[q].s].status # "absent"
            /\ call[q].token <= held[call[q].s]
            /\ call[q].token \in Nat /\ call[r].token \in Nat /\ held[s] \in Nat
        BY <1>1, <1>2 DEF TokenInv, TokenTypes, SentWasHeld
      <3> QED BY <1>1, <2>1, <3>1
    <2>4. AnswerIsNew'
      <3> SUFFICES ASSUME NEW q \in Calls, call'[q].pc = "answer"
                   PROVE  /\ session'[call'[q].s].status # "absent"
                          /\ call'[q].token = session'[call'[q].s].token
                          /\ held'[call'[q].s] < call'[q].token
        BY DEF AnswerIsNew
      <3>1. q # r /\ call'[q] = call[q] /\ call[q].s \in SessionIds \ {s}
        BY <1>2, <1>3 DEF TokenTypes
      <3> QED BY <1>1, <2>1, <3>1 DEF TokenInv, AnswerIsNew
    <2>5. ClientKeepsUp'
      <3> SUFFICES ASSUME lost = 0, NEW x \in SessionIds
                   PROVE  \/ held'[x] = session'[x].token
                          \/ \E q \in Calls :
                               /\ call'[q].pc = "answer" /\ call'[q].s = x
                               /\ call'[q].token = session'[x].token
        BY <2>1 DEF ClientKeepsUp, AtCall
      <3>1. CASE x = s
        BY <1>1, <2>1, <3>1
      <3>2. CASE x # s
        <4>1. \/ held[x] = session[x].token
              \/ \E q \in Calls : /\ call[q].pc = "answer" /\ call[q].s = x
                                  /\ call[q].token = session[x].token
          BY DEF TokenInv, ClientKeepsUp, AtCall
        <4>2. \A q \in Calls : call[q].s = x => call'[q] = call[q]
          BY <1>2, <3>2 DEF s
        <4> QED BY <1>1, <2>1, <3>2, <4>1, <4>2
      <3> QED BY <3>1, <3>2
    <2> QED BY <1>4, <2>2, <2>3, <2>4, <2>5 DEF TokenInv
  <1> QED BY <1>5, <1>6

LEMMA TokenNext ==
  SessionsTypeOK /\ TokenInv /\ [SessionsNext]_sessionsVars => TokenInv'
  <1> SUFFICES ASSUME SessionsTypeOK, TokenInv, [SessionsNext]_sessionsVars
               PROVE  TokenInv'
    OBVIOUS
  <1> DEFINE Rows == \A s \in SessionIds :
               Issued(s) \/ (Ages(s) /\ KeepsToken(s) /\ held'[s] = held[s])
             Requests == \A q \in Calls :
               \/ call'[q] = call[q]
               \/ /\ call[q].pc # "answer"
                  /\ call'[q].pc \notin {"refresh", "answer"}
  <1>1. TokenTypes
    BY TokenTyping
  <1>2. lost' = lost /\ Rows /\ Requests => TokenInv'
    BY <1>1, TokenKeeps
  <1>3. UNCHANGED <<session, held>> => Rows
    BY SameAges
  <1>4. ASSUME NEW r \in Calls, call[r].pc # "answer", NEW request,
               request.pc \notin {"refresh", "answer"},
               call' = [call EXCEPT ![r] = request]
        PROVE  Requests
    BY <1>1, <1>4 DEF TokenTypes
  <1>5. ASSUME NEW r \in Calls, call[r].pc # "answer", EndCall(r) PROVE Requests
    BY <1>1, <1>5, <1>4 DEF EndCall, IdleCall
  <1>6. call' = call => Requests
    OBVIOUS
  <1> HIDE DEF Rows, Requests
  <1>7. CASE UNCHANGED sessionsVars
    BY <1>7, <1>2, <1>3, <1>6 DEF sessionsVars
  <1>8. CASE RequestReset
    BY <1>8, <1>2, <1>3, <1>6 DEF RequestReset
  <1>9. CASE ConfirmReset \/ Tick
    <2>1. UNCHANGED <<held, call, lost>>
      BY <1>9 DEF ConfirmReset, Tick
    <2>2. Rows
      BY <1>9, <2>1, ConfirmMoves, TickMoves DEF Rows
    <2> QED BY <2>1, <2>2, <1>2, <1>6
  <1>10. ASSUME NEW r \in Calls, SessionsCall(r) PROVE TokenInv'
    <2>1. CASE ReadRegister(r)
      <3>1. [IdleCall EXCEPT !.pc = "register"].pc = "register"
        BY DEF IdleCall
      <3>2. Requests
        BY <2>1, <3>1, <1>4 DEF ReadRegister, BeginCall
      <3> QED BY <2>1, <3>2, <1>2, <1>3 DEF ReadRegister
    <2>2. CASE ReadLogin(r)
      <3>1. PICK u \in Accounts, pc \in {"succeed", "fail"} :
              BeginCall(r, [IdleCall EXCEPT !.u = u, !.pc = pc])
        BY <2>2 DEF ReadLogin
      <3>2. [IdleCall EXCEPT !.u = u, !.pc = pc].pc = pc
        BY DEF IdleCall
      <3>3. Requests
        BY <3>1, <3>2, <1>4 DEF BeginCall
      <3> QED BY <2>2, <3>3, <1>2, <1>3 DEF ReadLogin
    <2>3. CASE InsertUser(r) \/ SucceedLogin(r)
      <3>1. call[r].pc # "answer" /\ EndCall(r) /\ lost' = lost
        BY <2>3 DEF InsertUser, SucceedLogin, AtCall
      <3>2. \/ UNCHANGED <<session, held>>
            \/ \E u \in Accounts : IssueSession(u)
        BY <2>3 DEF InsertUser, SucceedLogin, SessionsTypeOK, Call
      <3>3. Rows
        BY <3>2, <1>3, IssueMoves DEF Rows
      <3> QED BY <3>1, <3>3, <1>2, <1>5
    <2>4. CASE FailLogin(r) \/ OtherRequest(r)
      BY <2>4, <1>2, <1>3, <1>5 DEF FailLogin, OtherRequest, AtCall
    <2>5. CASE SendRefresh(r)
      BY <2>5, <1>1, TokenSend
    <2>6. CASE SendLogout(r)
      <3>1. PICK s \in SessionIds :
              BeginCall(r, [IdleCall EXCEPT !.pc = "logout", !.s = s,
                                            !.token = held[s]])
        BY <2>6 DEF SendLogout, SendToken
      <3>2. [IdleCall EXCEPT !.pc = "logout", !.s = s, !.token = held[s]].pc
              = "logout"
        BY DEF IdleCall
      <3>3. Requests
        BY <3>1, <3>2, <1>4 DEF BeginCall
      <3> QED BY <2>6, <3>3, <1>2, <1>3 DEF SendLogout, SendToken
    <2>7. CASE Rotate(r)
      <3>1. CASE Found(r)
        BY <2>7, <3>1, <1>1, TokenRotate
      <3>2. CASE ~Found(r)
        BY <2>7, <3>2, <1>2, <1>3, <1>5 DEF Rotate, AtCall
      <3> QED BY <3>1, <3>2
    <2>8. CASE DeliverAnswer(r) \/ LoseAnswer(r)
      BY <2>8, <1>1, TokenAnswer
    <2>9. CASE Logout(r) \/ RevokeSession(r) \/ RevokeAll(r)
      <3>1. /\ call[r].pc # "answer" /\ EndCall(r) /\ UNCHANGED <<held, lost>>
            /\ \E ids : session' = Revoked(ids)
        BY <2>9 DEF Logout, RevokeSession, RevokeAll, AtCall
      <3>2. Rows
        BY <3>1, RevokedAges DEF Rows
      <3> QED BY <3>1, <3>2, <1>2, <1>5
    <2>10. CASE ReadUser(r)
      <3>1. PICK s \in SessionIds :
              BeginCall(r, [IdleCall EXCEPT !.pc = "check session", !.s = s,
                              !.u = session[s].owner, !.late = ~Accepted(s)])
        BY <2>10 DEF ReadUser
      <3>2. [IdleCall EXCEPT !.pc = "check session", !.s = s,
               !.u = session[s].owner, !.late = ~Accepted(s)].pc = "check session"
        BY DEF IdleCall
      <3>3. Requests
        BY <3>1, <3>2, <1>4 DEF BeginCall
      <3> QED BY <2>10, <3>3, <1>2, <1>3 DEF ReadUser
    <2>11. CASE ReadSession(r)
      <3>1. CASE EndCall(r)
        BY <2>11, <3>1, <1>2, <1>3, <1>5 DEF ReadSession, AtCall
      <3>2. CASE CallGoes(r, "admitted")
        <4>1. /\ call[r] \in Call /\ call' = [call EXCEPT ![r] =
                                          [call[r] EXCEPT !.pc = "admitted"]]
          BY <3>2, <1>1 DEF CallGoes, TokenTypes
        <4>2. [call[r] EXCEPT !.pc = "admitted"].pc = "admitted"
          BY <4>1 DEF Call
        <4>3. Requests
          BY <2>11, <4>1, <4>2, <1>4 DEF ReadSession, AtCall
        <4> QED BY <2>11, <4>3, <1>2, <1>3 DEF ReadSession
      <3> QED BY <2>11, <3>1, <3>2 DEF ReadSession
    <2>12. CASE EraseData(r)
      <3>1. /\ call[r].pc # "answer" /\ EndCall(r) /\ UNCHANGED <<held, lost>>
        BY <2>12 DEF EraseData, AtCall
      <3>2. Rows
        BY <2>12, <3>1, EraseMoves DEF Rows
      <3> QED BY <3>1, <3>2, <1>2, <1>5
    <2> QED
      BY <1>10, <2>1, <2>2, <2>3, <2>4, <2>5, <2>6, <2>7, <2>8, <2>9, <2>10,
         <2>11, <2>12 DEF SessionsCall
  <1> QED BY <1>7, <1>8, <1>9, <1>10 DEF SessionsNext

(* While no answer is lost, the client of a session never falls behind the *)
(* server (refresh_user_credentials), however often it sends its token and *)
(* however the refreshes overlap.                                          *)
THEOREM ClientIsServed == SessionsSpec => []ClientKeepsUp
  <1>1. SessionsInit => TokenInv
    <2> SUFFICES ASSUME SessionsInit PROVE TokenInv
      OBVIOUS
    <2>1. \A r \in Calls : call[r].pc = "free"
      BY DEF SessionsInit, IdleCall
    <2>2. \A s \in SessionIds : held[s] = 0 /\ session[s].token = 0
      BY DEF SessionsInit
    <2> QED BY <2>1, <2>2 DEF TokenInv, HeldIsOld, SentWasHeld, AnswerIsNew,
                              OneAnswer, ClientKeepsUp
  <1>2. TokenInv => ClientKeepsUp
    BY DEF TokenInv
  <1> QED BY <1>1, <1>2, TokenNext, SessionsInitType, SessionsNextType, PTL
             DEF SessionsSpec

----------------------------------------------------------------------------
(* Rate limits.                                                            *)

(* The requests that a rule has counted in the window that began at t, and *)
(* that no rule has refused so far.                                        *)
InFlight(i, t) ==
  {g \in Guests : /\ i \in guest[g].ontime /\ ~guest[g].refused
                  /\ WindowStart(i, guest[g].at) = t}

GuestFits(request, time) ==
  /\ request.pc \in {"free", "incr", "expire"}
  /\ request.at \in Times /\ request.at <= time
  /\ request.rule \in Rules /\ request.refused \in BOOLEAN
  /\ request.ontime \subseteq 1..request.rule
  /\ request.pc # "expire" => request.rule \notin request.ontime

(* A counter does not expire before its window ends.                       *)
RowFits(row, i, t) ==
  /\ row.value \in Nat /\ row.expires \in Nat
  /\ row.value # 0 => row.expires = Never \/ row.expires >= t + Limits[i].window

(* The counter of a window that lasts has counted all of them and all that *)
(* were let through.                                                       *)
CountsAll(i, t) ==
  /\ RowFits(counter[<<i, t>>], i, t)
  /\ now < t + Limits[i].window =>
       counter[<<i, t>>].value >= admitted[<<i, t>>] + Cardinality(InFlight(i, t))

LimitInv ==
  /\ now \in Times
  /\ DOMAIN counter = Rules \X Times /\ DOMAIN admitted = Rules \X Times
  /\ DOMAIN guest = Guests
  /\ \A g \in Guests : GuestFits(guest[g], now)
  /\ \A i \in Rules, t \in Times :
       /\ admitted[<<i, t>>] \in Nat /\ IsFiniteSet(InFlight(i, t))
       /\ admitted[<<i, t>>] + Cardinality(InFlight(i, t)) <= Limits[i].amount
       /\ CountsAll(i, t)

LEMMA RuleTypes ==
  /\ Rules = 1..Len(Limits) /\ Len(Limits) \in Nat /\ 1 \in Rules
  /\ MaxNow \in Nat /\ Never \in Nat /\ Never > MaxNow
  /\ \A i \in Rules : /\ Limits[i].amount \in Nat /\ Limits[i].amount > 0
                      /\ Limits[i].window \in Nat /\ Limits[i].window > 0
  <1>1. MaxNow \in Nat /\ Never \in Nat /\ Never > MaxNow
    BY LimitBoundsAssumption DEF Never
  <1>2. /\ Limits \in Seq([amount : Nat \ {0}, window : Nat \ {0}])
        /\ Limits # <<>>
    BY LimitsAssumption
  <1>3. Rules = 1..Len(Limits) /\ Len(Limits) \in Nat /\ 1 \in Rules
    BY <1>2 DEF Rules
  <1>4. ASSUME NEW i \in Rules
        PROVE  Limits[i] \in [amount : Nat \ {0}, window : Nat \ {0}]
    <2> DEFINE R == [amount : Nat \ {0}, window : Nat \ {0}]
    <2>1. Limits \in Seq(R) /\ i \in 1..Len(Limits)
      BY <1>2, <1>3
    <2> HIDE DEF R
    <2>2. Limits[i] \in R
      BY <2>1
    <2> QED BY <2>2 DEF R
  <1>5. ASSUME NEW i \in Rules
        PROVE  /\ Limits[i].amount \in Nat /\ Limits[i].amount > 0
               /\ Limits[i].window \in Nat /\ Limits[i].window > 0
    BY <1>4
  <1> QED BY <1>1, <1>3, <1>5

LEMMA WindowStartType ==
  ASSUME NEW i \in Rules, NEW t \in Times
  PROVE  WindowStart(i, t) \in Times /\ WindowStart(i, t) <= t
  <1>1. t \in Nat /\ t <= MaxNow /\ Limits[i].window \in Nat /\ Limits[i].window > 0
    BY RuleTypes DEF Times
  <1>2. t % Limits[i].window \in 0..t
    BY <1>1, Z3
  <1> QED BY <1>1, <1>2, RuleTypes DEF WindowStart, Times

(* One request enters or leaves a set.                                     *)
LEMMA OneMoves ==
  ASSUME NEW S, NEW T, NEW g, IsFiniteSet(S), S \ {g} = T \ {g}
  PROVE  /\ IsFiniteSet(T) /\ Cardinality(S) \in Nat /\ Cardinality(T) \in Nat
         /\ (g \in T => g \in S) => Cardinality(T) <= Cardinality(S)
         /\ g \in S /\ g \notin T => Cardinality(T) + 1 = Cardinality(S)
         /\ g \notin S /\ g \in T => Cardinality(T) = Cardinality(S) + 1
  <1> DEFINE R == S \ {g}
  <1>1. IsFiniteSet(R) /\ Cardinality(R) \in Nat
    BY FS_RemoveElement, FS_CardinalityType
  <1>2. \A U : U \ {g} = R => U = (IF g \in U THEN R \cup {g} ELSE R)
    OBVIOUS
  <1>3. /\ IsFiniteSet(R \cup {g})
        /\ Cardinality(R \cup {g}) = Cardinality(R) + 1
    BY <1>1, FS_AddElement
  <1>4. /\ S = (IF g \in S THEN R \cup {g} ELSE R)
        /\ T = (IF g \in T THEN R \cup {g} ELSE R)
    BY <1>2
  <1> HIDE DEF R
  <1>5. /\ g \in S => Cardinality(S) = Cardinality(R) + 1
        /\ g \notin S => Cardinality(S) = Cardinality(R)
    BY <1>3, <1>4
  <1>6. /\ g \in T => Cardinality(T) = Cardinality(R) + 1
        /\ g \notin T => Cardinality(T) = Cardinality(R)
        /\ IsFiniteSet(T)
    BY <1>1, <1>3, <1>4
  <1> QED BY <1>1, <1>5, <1>6

LEMMA NoGuestFits ==
  ASSUME now \in Times
  PROVE  GuestFits(NoGuest, now) /\ NoGuest.ontime = {} /\ NoGuest.pc = "free"
  <1>1. 0 \in Times /\ 0 <= now /\ 1 \in Rules
    BY RuleTypes DEF Times
  <1> QED BY <1>1 DEF NoGuest, GuestFits

LEMMA LimitInitInv == LimitInit => LimitInv
  <1> SUFFICES ASSUME LimitInit PROVE LimitInv
    OBVIOUS
  <1>1. now = 0 /\ now \in Times
    BY RuleTypes DEF LimitInit, Times
  <1>2. ASSUME NEW i \in Rules, NEW t \in Times
        PROVE  /\ admitted[<<i, t>>] = 0 /\ InFlight(i, t) = {}
               /\ counter[<<i, t>>] = NoCounter
    BY <1>1, NoGuestFits DEF LimitInit, InFlight
  <1>3. ASSUME NEW i \in Rules, NEW t \in Times
        PROVE  /\ admitted[<<i, t>>] \in Nat /\ IsFiniteSet(InFlight(i, t))
               /\ admitted[<<i, t>>] + Cardinality(InFlight(i, t)) <= Limits[i].amount
               /\ CountsAll(i, t)
    <2>1. admitted[<<i, t>>] = 0 /\ InFlight(i, t) = {}
      BY <1>2
    <2>2. IsFiniteSet(InFlight(i, t)) /\ Cardinality(InFlight(i, t)) = 0
      BY <2>1, FS_EmptySet
    <2>3. counter[<<i, t>>].value = 0 /\ counter[<<i, t>>].expires = 0
      BY <1>2 DEF NoCounter
    <2> QED BY <2>1, <2>2, <2>3, RuleTypes DEF CountsAll, RowFits
  <1> QED BY <1>1, <1>3, NoGuestFits DEF LimitInv, LimitInit

(* A request of this kind is counted in the window that began at t.        *)
Counts(request, i, t) ==
  /\ i \in request.ontime /\ ~request.refused
  /\ WindowStart(i, request.at) = t

(* What one request that becomes new may do to a window.                   *)
GoesOn(g, new, i, t) ==
  /\ counter'[<<i, t>>].value >= counter[<<i, t>>].value
  /\ \/ /\ admitted'[<<i, t>>] = admitted[<<i, t>>]
        /\ Counts(new, i, t) => Counts(guest[g], i, t)
     \/ /\ admitted'[<<i, t>>] = admitted[<<i, t>>] + 1
        /\ Counts(guest[g], i, t) /\ ~Counts(new, i, t)

Enters(g, new, i, t) ==
  /\ ~Counts(guest[g], i, t) /\ now < t + Limits[i].window
  /\ counter'[<<i, t>>].value = counter[<<i, t>>].value + 1
  /\ counter'[<<i, t>>].value <= Limits[i].amount
  /\ Counts(new, i, t) => admitted'[<<i, t>>] = admitted[<<i, t>>]
  /\ ~Counts(new, i, t) => admitted'[<<i, t>>] = admitted[<<i, t>>] + 1

LEMMA GuestMoves ==
  ASSUME LimitInv, NEW g \in Guests, NEW new, GuestFits(new, now), now' = now,
         guest' = [guest EXCEPT ![g] = new],
         DOMAIN counter' = Rules \X Times, DOMAIN admitted' = Rules \X Times,
         \A i \in Rules, t \in Times :
           /\ RowFits(counter'[<<i, t>>], i, t)
           /\ GoesOn(g, new, i, t) \/ Enters(g, new, i, t)
  PROVE  LimitInv'
  <1>1. /\ guest'[g] = new /\ DOMAIN guest' = Guests
        /\ \A q \in Guests \ {g} : guest'[q] = guest[q]
    BY DEF LimitInv
  <1>2. \A q \in Guests : GuestFits(guest'[q], now')
    BY <1>1 DEF LimitInv
  <1>3. ASSUME NEW i \in Rules, NEW t \in Times
        PROVE  (/\ admitted[<<i, t>>] \in Nat /\ IsFiniteSet(InFlight(i, t))
                /\ admitted[<<i, t>>] + Cardinality(InFlight(i, t)) <= Limits[i].amount
                /\ CountsAll(i, t))'
    <2> DEFINE S == InFlight(i, t)
               T == InFlight(i, t)'
    <2>1. /\ S \ {g} = T \ {g}
          /\ g \in S <=> Counts(guest[g], i, t)
          /\ g \in T <=> Counts(new, i, t)
      BY <1>1 DEF InFlight, Counts, WindowStart
    <2>2. /\ admitted[<<i, t>>] \in Nat /\ IsFiniteSet(S)
          /\ admitted[<<i, t>>] + Cardinality(S) <= Limits[i].amount
          /\ counter[<<i, t>>].value \in Nat
          /\ now < t + Limits[i].window =>
               counter[<<i, t>>].value >= admitted[<<i, t>>] + Cardinality(S)
      BY DEF LimitInv, CountsAll, RowFits
    <2>3. /\ IsFiniteSet(T) /\ Cardinality(S) \in Nat /\ Cardinality(T) \in Nat
          /\ (g \in T => g \in S) => Cardinality(T) <= Cardinality(S)
          /\ g \in S /\ g \notin T => Cardinality(T) + 1 = Cardinality(S)
          /\ g \notin S /\ g \in T => Cardinality(T) = Cardinality(S) + 1
      BY <2>1, <2>2, OneMoves
    <2>4. Limits[i].amount \in Nat /\ Limits[i].window \in Nat /\ t \in Nat
      BY RuleTypes DEF Times
    <2> HIDE DEF S, T
    <2>5. /\ admitted'[<<i, t>>] \in Nat
          /\ admitted'[<<i, t>>] + Cardinality(T) <= Limits[i].amount
          /\ now < t + Limits[i].window =>
               counter'[<<i, t>>].value >= admitted'[<<i, t>>] + Cardinality(T)
      <3> DEFINE a == admitted[<<i, t>>]
                 b == admitted'[<<i, t>>]
                 c == counter[<<i, t>>].value
                 d == counter'[<<i, t>>].value
                 m == Cardinality(S)
                 n == Cardinality(T)
      <3>1. /\ a \in Nat /\ m \in Nat /\ n \in Nat /\ c \in Nat /\ d \in Nat
            /\ a + m <= Limits[i].amount
            /\ now < t + Limits[i].window => c >= a + m
        <4>1. RowFits(counter'[<<i, t>>], i, t)
          BY Zenon
        <4>2. d \in Nat
          BY <4>1 DEF RowFits
        <4> QED BY <2>2, <2>3, <4>2
      <3>2. \/ b = a /\ n <= m /\ d >= c
            \/ b = a + 1 /\ n + 1 = m /\ d >= c
            \/ /\ \/ b = a /\ n = m + 1
                  \/ b = a + 1 /\ n <= m
               /\ now < t + Limits[i].window
               /\ d = c + 1 /\ d <= Limits[i].amount
        <4>1. GoesOn(g, new, i, t) \/ Enters(g, new, i, t)
          BY Zenon
        <4>2. CASE GoesOn(g, new, i, t)
          BY <2>1, <2>3, <4>2 DEF GoesOn
        <4>3. CASE Enters(g, new, i, t)
          <5>1. /\ ~Counts(guest[g], i, t) /\ now < t + Limits[i].window
                /\ d = c + 1 /\ d <= Limits[i].amount
                /\ Counts(new, i, t) => b = a
                /\ ~Counts(new, i, t) => b = a + 1
            BY <4>3, Zenon DEF Enters
          <5> HIDE DEF a, b, c, d, m, n
          <5>2. \/ b = a /\ n = m + 1
                \/ b = a + 1 /\ n <= m
            BY <2>1, <2>3, <5>1, Zenon DEF m, n
          <5> QED BY <5>1, <5>2
        <4> QED BY <4>1, <4>2, <4>3
      <3> HIDE DEF a, b, c, d, m, n
      <3>3. /\ b \in Nat /\ b + n <= Limits[i].amount
            /\ now < t + Limits[i].window => d >= b + n
        BY <2>4, <3>1, <3>2
      <3> QED BY <3>3 DEF b, d, n
    <2> QED BY <2>3, <2>5 DEF T, CountsAll
  <1> QED BY <1>1, <1>2, <1>3 DEF LimitInv

(* What is left of a request after a rule that it passes with ontime.      *)
Half(request, refused, ontime, i, t) ==
  i \in ontime /\ ~refused /\ WindowStart(i, request.at) = t

Passes(g, new, refused, ontime, i, t) ==
  \/ /\ admitted'[<<i, t>>] = admitted[<<i, t>>]
     /\ Counts(new, i, t) <=> Half(guest[g], refused, ontime, i, t)
  \/ /\ admitted'[<<i, t>>] = admitted[<<i, t>>] + 1
     /\ ~Counts(new, i, t) /\ Half(guest[g], refused, ontime, i, t)

LEMMA AfterRule ==
  ASSUME LimitInv, NEW g \in Guests, guest[g].pc # "free",
         NEW refused \in BOOLEAN, NEW ontime \in SUBSET (1..guest[g].rule),
         NextRule(g, refused, ontime)
  PROVE  \E new :
           /\ GuestFits(new, now) /\ guest' = [guest EXCEPT ![g] = new]
           /\ DOMAIN admitted' = Rules \X Times
           /\ \A i \in Rules, t \in Times :
                Passes(g, new, refused, ontime, i, t)
  <1>0. /\ now \in Times /\ GuestFits(guest[g], now)
        /\ DOMAIN admitted = Rules \X Times
        /\ Len(Limits) \in Nat /\ Rules = 1..Len(Limits)
    BY RuleTypes DEF LimitInv
  <1>1. CASE guest[g].rule < Len(Limits)
    <2> DEFINE new == [guest[g] EXCEPT !.pc = "incr", !.rule = @ + 1,
                                       !.refused = refused, !.ontime = ontime]
    <2>1. guest' = [guest EXCEPT ![g] = new] /\ admitted' = admitted
      BY <1>1 DEF NextRule
    <2>2. /\ new.pc = "incr" /\ new.at = guest[g].at
          /\ new.rule = guest[g].rule + 1
          /\ new.refused = refused /\ new.ontime = ontime
      OBVIOUS
    <2> HIDE DEF new
    <2>3. GuestFits(new, now)
      BY <1>0, <1>1, <2>2 DEF GuestFits
    <2>4. \A i, t : Counts(new, i, t) <=> Half(guest[g], refused, ontime, i, t)
      BY <2>2 DEF Counts, Half
    <2> QED BY <1>0, <2>1, <2>3, <2>4 DEF Passes
  <1>2. CASE ~(guest[g].rule < Len(Limits))
    <2>1. /\ guest' = [guest EXCEPT ![g] = NoGuest]
          /\ admitted' = [k \in Rules \X Times |->
               IF ~refused /\ k[1] \in ontime
                    /\ k[2] = WindowStart(k[1], guest[g].at)
               THEN admitted[k] + 1 ELSE admitted[k]]
      BY <1>2 DEF NextRule
    <2>2. \A i \in Rules, t \in Times :
            Passes(g, NoGuest, refused, ontime, i, t)
      BY <1>0, <2>1, NoGuestFits DEF Counts, Half, Passes
    <2> QED BY <1>0, <2>1, <2>2, NoGuestFits
  <1> QED BY <1>1, <1>2

LEMMA LimitInvNext == LimitInv /\ [LimitNext]_limitVars => LimitInv'
  <1> SUFFICES ASSUME LimitInv, [LimitNext]_limitVars PROVE LimitInv'
    OBVIOUS
  <1>0. /\ now \in Times /\ now \in Nat /\ now <= MaxNow
        /\ \A g \in Guests : GuestFits(guest[g], now)
    BY RuleTypes DEF LimitInv, Times
  <1>1. NoGuest.pc = "free" /\ GuestFits(NoGuest, now)
        /\ \A i \in Rules, t \in Times : ~Counts(NoGuest, i, t)
    BY <1>0, NoGuestFits DEF Counts
  (* The counters as they are.                                             *)
  <1>2. ASSUME NEW i \in Rules, NEW t \in Times
        PROVE  /\ RowFits(counter[<<i, t>>], i, t)
               /\ counter[<<i, t>>].value >= counter[<<i, t>>].value
               /\ admitted[<<i, t>>] \in Nat
    BY DEF LimitInv, CountsAll, RowFits
  <1>3. DOMAIN counter = Rules \X Times /\ DOMAIN admitted = Rules \X Times
    BY DEF LimitInv
  <1>4. ASSUME NEW g \in Guests, Arrive(g) PROVE LimitInv'
    <2> DEFINE new == [NoGuest EXCEPT !.pc = "incr", !.at = now]
    <2>1. guest' = [guest EXCEPT ![g] = new] /\ UNCHANGED <<now, counter, admitted>>
      BY <1>4 DEF Arrive
    <2>2. GuestFits(new, now) /\ new.ontime = {}
      BY <1>0, RuleTypes DEF NoGuest, GuestFits
    <2> HIDE DEF new
    <2>3. \A i \in Rules, t \in Times : GoesOn(g, new, i, t)
      BY <1>2, <2>1, <2>2 DEF GoesOn, Counts
    <2> QED BY <1>2, <1>3, <2>1, <2>2, <2>3, GuestMoves
  <1>5. ASSUME NEW g \in Guests, GuestDies(g) PROVE LimitInv'
    <2>1. /\ guest' = [guest EXCEPT ![g] = NoGuest]
          /\ UNCHANGED <<now, counter, admitted>>
      BY <1>5 DEF GuestDies
    <2>2. \A i \in Rules, t \in Times : GoesOn(g, NoGuest, i, t)
      BY <1>1, <1>2, <2>1 DEF GoesOn
    <2> QED BY <1>1, <1>2, <1>3, <2>1, <2>2, GuestMoves
  <1>6. ASSUME NEW g \in Guests, Expire(g) PROVE LimitInv'
    <2> DEFINE key == Key(g)
    <2>1. /\ guest[g].pc = "expire" /\ now' = now
          /\ counter' = [counter EXCEPT ![key] =
               IF @.value = 0 THEN @
               ELSE [@ EXCEPT !.expires = now + TimeToLive(key[1])]]
          /\ NextRule(g, guest[g].refused, guest[g].ontime)
      BY <1>6 DEF Expire
    <2>2. /\ guest[g].refused \in BOOLEAN /\ guest[g].rule \in Rules
          /\ guest[g].ontime \in SUBSET (1..guest[g].rule)
          /\ guest[g].at \in Times /\ guest[g].at <= now
      BY <1>0 DEF GuestFits
    <2>3. PICK new :
            /\ GuestFits(new, now) /\ guest' = [guest EXCEPT ![g] = new]
            /\ DOMAIN admitted' = Rules \X Times
            /\ \A i \in Rules, t \in Times :
                 Passes(g, new, guest[g].refused, guest[g].ontime, i, t)
      <3> DEFINE R == guest[g].refused
                 O == guest[g].ontime
      <3>1. guest[g].pc # "free" /\ R \in BOOLEAN /\ O \in SUBSET (1..guest[g].rule)
            /\ NextRule(g, R, O)
        BY <2>1, <2>2
      <3> HIDE DEF R, O
      <3>2. \E new :
              /\ GuestFits(new, now) /\ guest' = [guest EXCEPT ![g] = new]
              /\ DOMAIN admitted' = Rules \X Times
              /\ \A i \in Rules, t \in Times : Passes(g, new, R, O, i, t)
        BY <3>1, AfterRule, Zenon
      <3> QED BY <3>2, Zenon DEF R, O
    <2>4. ASSUME NEW i \in Rules, NEW t \in Times
          PROVE  /\ RowFits(counter'[<<i, t>>], i, t)
                 /\ counter'[<<i, t>>].value >= counter[<<i, t>>].value
      <3>1. CASE counter'[<<i, t>>] = counter[<<i, t>>]
        BY <1>2, <3>1
      <3>2. CASE /\ <<i, t>> = key
                 /\ counter'[<<i, t>>] = [counter[<<i, t>>] EXCEPT
                                            !.expires = now + TimeToLive(key[1])]
        <4> DEFINE r == guest[g].rule
                   a == guest[g].at
        <4>1. i = r /\ t = WindowStart(r, a) /\ key[1] = r
          BY <3>2 DEF Key
        <4>2. r \in Rules /\ a \in Times /\ a <= now
          BY <2>2
        <4> HIDE DEF r, a
        <4>3. WindowStart(r, a) <= a
          BY <4>2, WindowStartType
        <4>4. /\ t \in Nat /\ now \in Nat /\ a \in Nat /\ Limits[i].window \in Nat
          BY <1>0, <4>2, RuleTypes DEF Times
        <4>5. t <= now
          BY <4>1, <4>2, <4>3, <4>4
        <4>6. /\ counter'[<<i, t>>].value = counter[<<i, t>>].value
              /\ counter'[<<i, t>>].expires = now + Limits[i].window
          BY <3>2, <4>1 DEF TimeToLive
        <4>7. RowFits(counter[<<i, t>>], i, t)
          BY <1>2
        <4> QED BY <4>4, <4>5, <4>6, <4>7 DEF RowFits
      <3> QED BY <1>3, <2>1, <3>1, <3>2
    <2>5. DOMAIN counter' = Rules \X Times
      BY <1>3, <2>1
    <2> HIDE DEF key
    <2>6. \A i \in Rules, t \in Times : GoesOn(g, new, i, t)
      BY <2>3, <2>4 DEF GoesOn, Passes, Half, Counts
    <2>7. now' = now
      BY <2>1
    <2> QED BY <2>3, <2>4, <2>5, <2>6, <2>7, GuestMoves
  <1>7. ASSUME NEW g \in Guests, Incr(g) PROVE LimitInv'
    <2> DEFINE key == Key(g)
               row == Incremented(counter[key])
               R == Refuses(g, row.value)
               O == IF now < key[2] + Limits[key[1]].window
                    THEN guest[g].ontime \cup {key[1]} ELSE guest[g].ontime
               r == guest[g].rule
               s == WindowStart(r, guest[g].at)
    <2>1. /\ guest[g].pc = "incr" /\ now' = now
          /\ counter' = [counter EXCEPT ![key] = row]
          /\ \/ /\ guest' = [guest EXCEPT ![g].pc = "expire", ![g].ontime = O,
                                          ![g].refused = R]
                /\ UNCHANGED admitted
             \/ NextRule(g, R, O)
      BY <1>7 DEF Incr
    <2>2. /\ r \in Rules /\ guest[g].refused \in BOOLEAN
          /\ guest[g].ontime \subseteq 1..r /\ r \notin guest[g].ontime
          /\ guest[g].at \in Times /\ guest[g].at <= now
      BY <1>0, <2>1 DEF GuestFits
    <2>3. /\ key = <<r, s>> /\ key[1] = r /\ key[2] = s
          /\ s \in Times
      BY <2>2, WindowStartType DEF Key
    <2>4. /\ R \in BOOLEAN /\ O \in SUBSET (1..r)
          /\ O = IF now < s + Limits[r].window
                 THEN guest[g].ontime \cup {r} ELSE guest[g].ontime
          /\ R <=> guest[g].refused \/ row.value > Limits[r].amount
      BY <2>2, <2>3, RuleTypes DEF Refuses
    <2>5. /\ RowFits(row, r, s) /\ row.value = counter[key].value + 1
          /\ row.value \in Nat /\ counter[key].value \in Nat
      <3>1. RowFits(counter[key], r, s)
        BY <1>2, <2>2, <2>3
      <3>2. counter[key].value \in Nat /\ counter[key].expires \in Nat
        BY <3>1 DEF RowFits
      <3>3. /\ row.value = counter[key].value + 1
            /\ row.expires = IF counter[key].value = 0 THEN Never
                             ELSE counter[key].expires
        BY <3>2 DEF Incremented
      <3>4. Never \in Nat
        BY RuleTypes
      <3> HIDE DEF row
      <3> QED BY <3>1, <3>2, <3>3, <3>4 DEF RowFits
    <2>6. /\ counter'[<<r, s>>] = row
          /\ DOMAIN counter' = Rules \X Times
          /\ \A i \in Rules, t \in Times :
               <<i, t>> # <<r, s>> => counter'[<<i, t>>] = counter[<<i, t>>]
      BY <1>3, <2>1, <2>2, <2>3
    <2> HIDE DEF key, row, R, O, r, s
    <2>7. PICK new :
            /\ GuestFits(new, now) /\ guest' = [guest EXCEPT ![g] = new]
            /\ DOMAIN admitted' = Rules \X Times
            /\ \A i \in Rules, t \in Times : Passes(g, new, R, O, i, t)
      <3>1. CASE /\ guest' = [guest EXCEPT ![g].pc = "expire", ![g].ontime = O,
                                          ![g].refused = R]
                 /\ UNCHANGED admitted
        <4> DEFINE new == [guest[g] EXCEPT !.pc = "expire", !.ontime = O,
                                           !.refused = R]
        <4>1. guest' = [guest EXCEPT ![g] = new]
          BY <3>1 DEF LimitInv
        <4>2. /\ new.pc = "expire" /\ new.at = guest[g].at
              /\ new.rule = guest[g].rule
              /\ new.refused = R /\ new.ontime = O
          OBVIOUS
        <4> HIDE DEF new
        <4>3. GuestFits(new, now)
          BY <1>0, <2>4, <4>2 DEF GuestFits, r
        <4>4. \A i \in Rules, t \in Times : Passes(g, new, R, O, i, t)
          BY <3>1, <4>2 DEF Passes, Counts, Half
        <4> QED BY <1>3, <3>1, <4>1, <4>3, <4>4
      <3>2. CASE NextRule(g, R, O)
        <4>1. guest[g].pc # "free" /\ O \in SUBSET (1..guest[g].rule)
          BY <2>1, <2>4 DEF r
        <4> QED BY <2>4, <3>2, <4>1, AfterRule, Zenon
      <3> QED BY <2>1, <3>1, <3>2
    <2>8. ASSUME NEW i \in Rules, NEW t \in Times
          PROVE  /\ RowFits(counter'[<<i, t>>], i, t)
                 /\ GoesOn(g, new, i, t) \/ Enters(g, new, i, t)
      <3>1. CASE i = r /\ t = s
        <4>1. /\ counter'[<<i, t>>] = row /\ RowFits(row, i, t)
              /\ row.value = counter[<<i, t>>].value + 1
              /\ row.value >= counter[<<i, t>>].value
          BY <2>3, <2>5, <2>6, <3>1
        <4>2. ~Counts(guest[g], i, t) /\ Passes(g, new, R, O, i, t)
          BY <2>2, <2>7, <3>1 DEF Counts
        <4>3. CASE Half(guest[g], R, O, i, t)
          <5>1. now < t + Limits[i].window /\ ~R
            BY <2>2, <2>4, <3>1, <4>3 DEF Half
          <5>2. row.value <= Limits[i].amount
            BY <2>4, <2>5, <3>1, <5>1, RuleTypes
          <5> QED BY <4>1, <4>2, <4>3, <5>1, <5>2 DEF Enters, Passes
        <4>4. CASE ~Half(guest[g], R, O, i, t)
          BY <4>1, <4>2, <4>4 DEF GoesOn, Passes
        <4> QED BY <4>1, <4>3, <4>4
      <3>2. CASE ~(i = r /\ t = s)
        <4>1. counter'[<<i, t>>] = counter[<<i, t>>]
          BY <2>6, <3>2
        <4>2. Half(guest[g], R, O, i, t) => Counts(guest[g], i, t)
          BY <2>4, <3>2 DEF Half, Counts, s
        <4>3. Passes(g, new, R, O, i, t)
          BY <2>7
        <4> QED BY <1>2, <4>1, <4>2, <4>3 DEF GoesOn, Passes
      <3> QED BY <3>1, <3>2
    <2> QED BY <2>1, <2>6, <2>7, <2>8, GuestMoves
  <1>8. ASSUME ClockTicks PROVE LimitInv'
    <2>1. /\ now < MaxNow /\ now' = now + 1 /\ UNCHANGED <<guest, came, admitted>>
          /\ counter' = [k \in Rules \X Times |->
               IF counter[k].expires <= now' THEN NoCounter ELSE counter[k]]
      BY <1>8 DEF ClockTicks
    <2>2. now' \in Times
      BY <1>0, <2>1, RuleTypes DEF Times
    <2>3. \A g \in Guests : GuestFits(guest'[g], now')
      BY <1>0, <2>1, RuleTypes DEF GuestFits, Times
    <2>4. ASSUME NEW i \in Rules, NEW t \in Times
          PROVE  /\ InFlight(i, t)' = InFlight(i, t)
                 /\ CountsAll(i, t)'
      <3>1. InFlight(i, t)' = InFlight(i, t)
        BY <2>1 DEF InFlight, WindowStart
      <3> DEFINE k == <<i, t>>
                 n == admitted[k] + Cardinality(InFlight(i, t))
      <3>2. /\ counter'[k] = (IF counter[k].expires <= now' THEN NoCounter ELSE counter[k])
            /\ NoCounter.value = 0 /\ NoCounter.expires = 0
        BY <2>1 DEF NoCounter
      <3>3. /\ counter[k].value \in Nat /\ counter[k].expires \in Nat
            /\ counter[k].value # 0 =>
                 \/ counter[k].expires = Never
                 \/ counter[k].expires >= t + Limits[i].window
            /\ now < t + Limits[i].window => counter[k].value >= n
        BY DEF LimitInv, CountsAll, RowFits
      <3>4. t \in Nat /\ Limits[i].window \in Nat /\ Never > MaxNow
            /\ Never \in Nat /\ MaxNow \in Nat
        BY RuleTypes DEF Times
      <3>5. n \in Nat
        BY FS_CardinalityType DEF LimitInv
      <3> DEFINE v == counter[k].value
                 e == counter[k].expires
                 w == Limits[i].window
                 x == counter'[k].value
                 y == counter'[k].expires
      <3>6. /\ v \in Nat /\ e \in Nat /\ w \in Nat
            /\ v # 0 => e = Never \/ e >= t + w
            /\ now < t + w => v >= n
            /\ \/ e <= now' /\ x = 0 /\ y = 0
               \/ ~(e <= now') /\ x = v /\ y = e
        BY <3>2, <3>3, <3>4
      <3> HIDE DEF n, v, e, w, x, y
      <3>7. /\ x \in Nat /\ y \in Nat
            /\ x # 0 => y = Never \/ y >= t + w
            /\ now' < t + w => x >= n
        BY <1>0, <2>1, <3>4, <3>5, <3>6
      <3>8. CountsAll(i, t)'
        BY <2>1, <3>1, <3>7 DEF CountsAll, RowFits, n, w, x, y, Never
      <3> QED BY <3>1, <3>8
    <2> QED BY <2>1, <2>2, <2>3, <2>4 DEF LimitInv
  <1>9. CASE UNCHANGED limitVars
    BY <1>9 DEF limitVars, LimitInv, CountsAll, RowFits, InFlight, GuestFits, WindowStart
  <1> QED BY <1>4, <1>5, <1>6, <1>7, <1>8, <1>9 DEF LimitNext

(* Types.  A request increments every counter once at most and is let      *)
(* through once: no number exceeds that of the requests so far.            *)

Around == {g \in Guests : guest[g].pc # "free"}

YetToCount(request, i) ==
  \/ request.pc = "incr" /\ request.rule <= i
  \/ request.pc = "expire" /\ request.rule < i

Ahead(i) == {g \in Guests : YetToCount(guest[g], i)}

NumbersFit ==
  /\ came \in 0..MaxGuests
  /\ IsFiniteSet(Around)
  /\ \A i \in Rules : IsFiniteSet(Ahead(i))
  /\ \A i \in Rules, t \in Times :
       /\ counter[<<i, t>>].value + Cardinality(Ahead(i)) <= came
       /\ admitted[<<i, t>>] + Cardinality(Around) <= came

LimitTypes ==
  /\ now \in Times
  /\ counter \in [Rules \X Times -> [value : Nat, expires : Nat]]
  /\ guest \in [Guests -> Guest]
  /\ admitted \in [Rules \X Times -> Nat]
  /\ NumbersFit

LEMMA LimitTypesMean == LimitTypes => LimitTypeOK
  <1> SUFFICES ASSUME LimitTypes PROVE LimitTypeOK
    OBVIOUS
  <1>1. came \in Nat /\ came <= MaxGuests /\ MaxGuests \in Nat
    BY LimitBoundsAssumption DEF LimitTypes, NumbersFit
  <1>2. ASSUME NEW k \in Rules \X Times
        PROVE  /\ counter[k] \in Counter
               /\ admitted[k] \in 0..MaxGuests
    <2>1. PICK i \in Rules, t \in Times : k = <<i, t>>
      OBVIOUS
    <2>2. /\ counter[k] \in [value : Nat, expires : Nat] /\ admitted[k] \in Nat
          /\ IsFiniteSet(Ahead(i)) /\ IsFiniteSet(Around)
          /\ counter[k].value + Cardinality(Ahead(i)) <= came
          /\ admitted[k] + Cardinality(Around) <= came
      BY <2>1 DEF LimitTypes, NumbersFit
    <2>3. Cardinality(Ahead(i)) \in Nat /\ Cardinality(Around) \in Nat
      BY <2>2, FS_CardinalityType
    <2>4. counter[k].value \in 0..MaxGuests /\ counter[k].expires \in Nat
      BY <1>1, <2>2, <2>3
    <2> QED BY <1>1, <2>2, <2>3, <2>4 DEF Counter
  <1> QED BY <1>1, <1>2 DEF LimitTypes, LimitTypeOK, NumbersFit

LEMMA NoGuestType ==
  /\ NoGuest \in Guest /\ NoGuest.pc = "free"
  /\ \A i : ~YetToCount(NoGuest, i)
  <1>1. 0 \in Times /\ 1 \in Rules
    BY RuleTypes DEF Times
  <1> QED BY <1>1 DEF NoGuest, Guest, YetToCount

LEMMA LimitInitTypes == LimitInit => LimitTypes
  <1> SUFFICES ASSUME LimitInit PROVE LimitTypes
    OBVIOUS
  <1>1. /\ now \in Times /\ came = 0 /\ came \in 0..MaxGuests
        /\ guest \in [Guests -> Guest]
        /\ counter \in [Rules \X Times -> [value : Nat, expires : Nat]]
        /\ admitted \in [Rules \X Times -> Nat]
    BY RuleTypes, NoGuestType, LimitBoundsAssumption
       DEF LimitInit, Times, NoCounter
  <1>2. Around = {} /\ \A i \in Rules : Ahead(i) = {}
    BY NoGuestType DEF LimitInit, Around, Ahead
  <1>3. \A i \in Rules, t \in Times :
          counter[<<i, t>>].value = 0 /\ admitted[<<i, t>>] = 0
    BY DEF LimitInit, NoCounter
  <1>4. IsFiniteSet({}) /\ Cardinality({}) = 0
    BY FS_EmptySet
  <1>5. /\ IsFiniteSet(Around)
        /\ \A i \in Rules : IsFiniteSet(Ahead(i)) /\ Cardinality(Ahead(i)) = 0
        /\ Cardinality(Around) = 0
    BY <1>2, <1>4
  <1>6. \A i \in Rules, t \in Times :
          /\ counter[<<i, t>>].value + Cardinality(Ahead(i)) <= came
          /\ admitted[<<i, t>>] + Cardinality(Around) <= came
    <2> SUFFICES ASSUME NEW i \in Rules, NEW t \in Times
                 PROVE  /\ counter[<<i, t>>].value + Cardinality(Ahead(i)) <= came
                        /\ admitted[<<i, t>>] + Cardinality(Around) <= came
      OBVIOUS
    <2>1. /\ counter[<<i, t>>].value = 0 /\ Cardinality(Ahead(i)) = 0
          /\ admitted[<<i, t>>] = 0 /\ Cardinality(Around) = 0 /\ came = 0
      BY <1>1, <1>3, <1>5
    <2> QED BY <2>1
  <1> QED BY <1>1, <1>5, <1>6 DEF LimitTypes, NumbersFit

LEMMA SumKept ==
  ASSUME NEW a \in Nat, NEW b \in Nat, NEW m \in Nat, NEW n \in Nat,
         NEW bound \in Nat, a + m <= bound, n <= m,
         b <= a \/ (b = a + 1 /\ n + 1 = m)
  PROVE  b + n <= bound
  OBVIOUS

(* One request becomes new, and no number outgrows what it gives up.       *)
LEMMA GuestCounts ==
  ASSUME LimitTypes, NEW g \in Guests, NEW new \in Guest, now' = now,
         guest' = [guest EXCEPT ![g] = new], came' = came,
         guest[g].pc # "free",
         \A i \in Rules : YetToCount(new, i) => YetToCount(guest[g], i),
         counter' \in [Rules \X Times -> [value : Nat, expires : Nat]],
         admitted' \in [Rules \X Times -> Nat],
         \A i \in Rules, t \in Times :
           /\ \/ counter'[<<i, t>>].value <= counter[<<i, t>>].value
              \/ /\ counter'[<<i, t>>].value = counter[<<i, t>>].value + 1
                 /\ YetToCount(guest[g], i) /\ ~YetToCount(new, i)
           /\ \/ admitted'[<<i, t>>] = admitted[<<i, t>>]
              \/ admitted'[<<i, t>>] = admitted[<<i, t>>] + 1 /\ new.pc = "free"
  PROVE  LimitTypes'
  <1>1. /\ guest'[g] = new /\ guest' \in [Guests -> Guest]
        /\ \A q \in Guests \ {g} : guest'[q] = guest[q]
    BY DEF LimitTypes
  <1>2. /\ Around \ {g} = Around' \ {g} /\ g \in Around
        /\ g \in Around' <=> new.pc # "free"
    BY <1>1 DEF Around
  <1>3. /\ IsFiniteSet(Around')
        /\ Cardinality(Around) \in Nat /\ Cardinality(Around') \in Nat
        /\ Cardinality(Around') <= Cardinality(Around)
        /\ new.pc = "free" => Cardinality(Around') + 1 = Cardinality(Around)
    <2>1. IsFiniteSet(Around)
      BY DEF LimitTypes, NumbersFit
    <2> QED BY <1>2, <2>1, OneMoves, Zenon
  <1>4. ASSUME NEW i \in Rules
        PROVE  /\ IsFiniteSet(Ahead(i)')
               /\ Cardinality(Ahead(i)) \in Nat /\ Cardinality(Ahead(i)') \in Nat
               /\ Cardinality(Ahead(i)') <= Cardinality(Ahead(i))
               /\ YetToCount(guest[g], i) /\ ~YetToCount(new, i) =>
                    Cardinality(Ahead(i)') + 1 = Cardinality(Ahead(i))
    <2>1. /\ Ahead(i) \ {g} = Ahead(i)' \ {g}
          /\ g \in Ahead(i) <=> YetToCount(guest[g], i)
          /\ g \in Ahead(i)' <=> YetToCount(new, i)
      BY <1>1 DEF Ahead, YetToCount
    <2>2. IsFiniteSet(Ahead(i))
      BY DEF LimitTypes, NumbersFit
    <2> QED BY <2>1, <2>2, OneMoves, Zenon
  <1>5. ASSUME NEW i \in Rules, NEW t \in Times
        PROVE  /\ counter'[<<i, t>>].value + Cardinality(Ahead(i)') <= came
               /\ admitted'[<<i, t>>] + Cardinality(Around') <= came
    <2>0. /\ \/ counter'[<<i, t>>].value <= counter[<<i, t>>].value
             \/ /\ counter'[<<i, t>>].value = counter[<<i, t>>].value + 1
                /\ Cardinality(Ahead(i)') + 1 = Cardinality(Ahead(i))
          /\ \/ admitted'[<<i, t>>] = admitted[<<i, t>>]
             \/ /\ admitted'[<<i, t>>] = admitted[<<i, t>>] + 1
                /\ Cardinality(Around') + 1 = Cardinality(Around)
      BY <1>3, <1>4, Zenon
    <2>1. /\ counter[<<i, t>>].value \in Nat /\ counter'[<<i, t>>].value \in Nat
          /\ admitted[<<i, t>>] \in Nat /\ admitted'[<<i, t>>] \in Nat
      <3>1. /\ counter[<<i, t>>] \in [value : Nat, expires : Nat]
            /\ counter'[<<i, t>>] \in [value : Nat, expires : Nat]
            /\ admitted[<<i, t>>] \in Nat /\ admitted'[<<i, t>>] \in Nat
        BY DEF LimitTypes
      <3> QED BY <3>1
    <2>2. /\ came \in Nat
          /\ counter[<<i, t>>].value + Cardinality(Ahead(i)) <= came
          /\ admitted[<<i, t>>] + Cardinality(Around) <= came
      BY LimitBoundsAssumption DEF LimitTypes, NumbersFit
    <2>3. counter'[<<i, t>>].value + Cardinality(Ahead(i)') <= came
      BY <1>4, <2>0, <2>1, <2>2, SumKept
    <2>4. admitted'[<<i, t>>] + Cardinality(Around') <= came
      <3>1. /\ admitted'[<<i, t>>] = admitted[<<i, t>>]
                 => admitted'[<<i, t>>] <= admitted[<<i, t>>]
        BY <2>1
      <3> QED BY <1>3, <2>0, <2>1, <2>2, <3>1, SumKept
    <2> QED BY <2>3, <2>4
  <1>6. came' \in 0..MaxGuests /\ now' \in Times
    BY DEF LimitTypes, NumbersFit
  <1> QED BY <1>1, <1>3, <1>4, <1>5, <1>6 DEF LimitTypes, NumbersFit

LEMMA RuleBehind ==
  ASSUME LimitTypes, NEW g \in Guests
  PROVE  /\ guest[g] \in Guest /\ guest[g].rule \in Rules /\ guest[g].rule \in Nat
         /\ \A i \in Rules : i \in Nat
         /\ Len(Limits) \in Nat /\ Rules = 1..Len(Limits)
  BY RuleTypes DEF LimitTypes, Guest

(* What a rule that has been looked at leaves of a request.                *)
LEMMA RulePasses ==
  ASSUME LimitTypes, NEW g \in Guests, guest[g].pc \in {"incr", "expire"},
         NEW refused \in BOOLEAN, NEW ontime \in SUBSET Rules,
         NextRule(g, refused, ontime)
  PROVE  \E new \in Guest :
           /\ guest' = [guest EXCEPT ![g] = new]
           /\ \A i \in Rules : YetToCount(new, i) => YetToCount(guest[g], i)
           /\ ~YetToCount(new, guest[g].rule)
           /\ admitted' \in [Rules \X Times -> Nat]
           /\ \A i \in Rules, t \in Times :
                \/ admitted'[<<i, t>>] = admitted[<<i, t>>]
                \/ /\ admitted'[<<i, t>>] = admitted[<<i, t>>] + 1
                   /\ new.pc = "free"
  <1>1. CASE guest[g].rule < Len(Limits)
    <2> DEFINE new == [guest[g] EXCEPT !.pc = "incr", !.rule = @ + 1,
                                       !.refused = refused, !.ontime = ontime]
    <2>1. guest' = [guest EXCEPT ![g] = new] /\ admitted' = admitted
      BY <1>1 DEF NextRule
    <2>2. /\ new \in Guest /\ new.pc = "incr" /\ new.rule = guest[g].rule + 1
      <3>1. guest[g].rule + 1 \in Rules /\ guest[g] \in Guest
        BY <1>1, RuleBehind
      <3> QED BY <3>1 DEF Guest
    <2> HIDE DEF new
    <2>3. /\ \A i \in Rules : YetToCount(new, i) => YetToCount(guest[g], i)
          /\ ~YetToCount(new, guest[g].rule)
      BY <2>2, RuleBehind DEF YetToCount
    <2> QED BY <2>1, <2>2, <2>3 DEF LimitTypes
  <1>2. CASE ~(guest[g].rule < Len(Limits))
    <2>1. /\ guest' = [guest EXCEPT ![g] = NoGuest]
          /\ admitted' = [k \in Rules \X Times |->
               IF ~refused /\ k[1] \in ontime
                    /\ k[2] = WindowStart(k[1], guest[g].at)
               THEN admitted[k] + 1 ELSE admitted[k]]
      BY <1>2 DEF NextRule
    <2>2. admitted' \in [Rules \X Times -> Nat]
      BY <2>1 DEF LimitTypes
    <2>3. \A i \in Rules, t \in Times :
            \/ admitted'[<<i, t>>] = admitted[<<i, t>>]
            \/ admitted'[<<i, t>>] = admitted[<<i, t>>] + 1
      BY <2>1
    <2> QED BY <2>1, <2>2, <2>3, NoGuestType
  <1> QED BY <1>1, <1>2

LEMMA LimitTypesNext == LimitTypes /\ [LimitNext]_limitVars => LimitTypes'
  <1> SUFFICES ASSUME LimitTypes, [LimitNext]_limitVars PROVE LimitTypes'
    OBVIOUS
  <1>0. /\ came \in Nat /\ MaxGuests \in Nat /\ now \in Nat
        /\ counter \in [Rules \X Times -> [value : Nat, expires : Nat]]
        /\ admitted \in [Rules \X Times -> Nat]
    BY RuleTypes, LimitBoundsAssumption DEF LimitTypes, NumbersFit, Times
  <1>1. ASSUME NEW i \in Rules, NEW t \in Times
        PROVE  /\ counter[<<i, t>>] \in [value : Nat, expires : Nat]
               /\ counter[<<i, t>>].value \in Nat
               /\ counter[<<i, t>>].value <= counter[<<i, t>>].value
               /\ admitted[<<i, t>>] \in Nat
    BY <1>0
  <1>2. ASSUME NEW g \in Guests, Arrive(g) PROVE LimitTypes'
    <2> DEFINE new == [NoGuest EXCEPT !.pc = "incr", !.at = now]
    <2>1. /\ guest[g].pc = "free" /\ came < MaxGuests /\ came' = came + 1
          /\ guest' = [guest EXCEPT ![g] = new] /\ UNCHANGED <<now, counter, admitted>>
      BY <1>2 DEF Arrive
    <2>2. new \in Guest /\ new.pc = "incr"
      BY NoGuestType DEF Guest, LimitTypes
    <2> HIDE DEF new
    <2>3. /\ guest'[g] = new /\ guest' \in [Guests -> Guest]
          /\ \A q \in Guests \ {g} : guest'[q] = guest[q]
      BY <2>1, <2>2 DEF LimitTypes
    <2>4. Around \ {g} = Around' \ {g} /\ g \notin Around /\ g \in Around'
      BY <2>1, <2>2, <2>3 DEF Around
    <2>5. /\ IsFiniteSet(Around') /\ Cardinality(Around) \in Nat
          /\ Cardinality(Around') = Cardinality(Around) + 1
      <3>1. IsFiniteSet(Around)
        BY DEF LimitTypes, NumbersFit
      <3> QED BY <2>4, <3>1, OneMoves, Zenon
    <2>6. ASSUME NEW i \in Rules
          PROVE  /\ IsFiniteSet(Ahead(i)') /\ Cardinality(Ahead(i)) \in Nat
                 /\ Cardinality(Ahead(i)') \in Nat
                 /\ Cardinality(Ahead(i)') <= Cardinality(Ahead(i)) + 1
      <3>1. Ahead(i) \ {g} = Ahead(i)' \ {g} /\ g \notin Ahead(i)
        BY <2>1, <2>3 DEF Ahead, YetToCount
      <3>2. IsFiniteSet(Ahead(i))
        BY DEF LimitTypes, NumbersFit
      <3>3. /\ IsFiniteSet(Ahead(i)') /\ Cardinality(Ahead(i)) \in Nat
            /\ Cardinality(Ahead(i)') \in Nat
            /\ (g \in Ahead(i)' => g \in Ahead(i)) =>
                 Cardinality(Ahead(i)') <= Cardinality(Ahead(i))
            /\ g \notin Ahead(i) /\ g \in Ahead(i)' =>
                 Cardinality(Ahead(i)') = Cardinality(Ahead(i)) + 1
        BY <3>1, <3>2, OneMoves, Zenon
      <3> QED BY <3>1, <3>3
    <2>7. ASSUME NEW i \in Rules, NEW t \in Times
          PROVE  /\ counter'[<<i, t>>].value + Cardinality(Ahead(i)') <= came'
                 /\ admitted'[<<i, t>>] + Cardinality(Around') <= came'
      <3>1. /\ counter[<<i, t>>].value + Cardinality(Ahead(i)) <= came
            /\ admitted[<<i, t>>] + Cardinality(Around) <= came
        BY DEF LimitTypes, NumbersFit
      <3>2. counter' = counter /\ admitted' = admitted
        BY <2>1
      <3> QED BY <1>0, <1>1, <2>1, <2>5, <2>6, <3>1, <3>2
    <2>8. came' \in 0..MaxGuests
      BY <1>0, <2>1
    <2> QED BY <2>1, <2>3, <2>5, <2>6, <2>7, <2>8 DEF LimitTypes, NumbersFit
  <1>3. ASSUME NEW g \in Guests, GuestDies(g) PROVE LimitTypes'
    <2>1. /\ guest[g].pc # "free" /\ guest' = [guest EXCEPT ![g] = NoGuest]
          /\ UNCHANGED <<now, counter, came, admitted>>
      BY <1>3 DEF GuestDies
    <2> QED BY <1>0, <1>1, <2>1, NoGuestType, GuestCounts
  <1>4. ASSUME NEW g \in Guests, Expire(g) PROVE LimitTypes'
    <2> DEFINE key == Key(g)
               R == guest[g].refused
               O == guest[g].ontime
    <2>1. /\ guest[g].pc = "expire" /\ now' = now /\ came' = came
          /\ counter' = [counter EXCEPT ![key] =
               IF @.value = 0 THEN @
               ELSE [@ EXCEPT !.expires = now + TimeToLive(key[1])]]
          /\ NextRule(g, R, O)
      BY <1>4 DEF Expire
    <2>2. R \in BOOLEAN /\ O \in SUBSET Rules /\ key[1] \in Rules
      BY RuleBehind DEF Guest, Key
    <2>3. now + TimeToLive(key[1]) \in Nat
      BY <1>0, <2>2, RuleTypes DEF TimeToLive
    <2> HIDE DEF key, R, O
    <2>4. PICK new \in Guest :
            /\ guest' = [guest EXCEPT ![g] = new]
            /\ \A i \in Rules : YetToCount(new, i) => YetToCount(guest[g], i)
            /\ admitted' \in [Rules \X Times -> Nat]
            /\ \A i \in Rules, t \in Times :
                 \/ admitted'[<<i, t>>] = admitted[<<i, t>>]
                 \/ /\ admitted'[<<i, t>>] = admitted[<<i, t>>] + 1
                    /\ new.pc = "free"
      <3>1. guest[g].pc \in {"incr", "expire"}
        BY <2>1
      <3> QED BY <2>1, <2>2, <3>1, RulePasses
    <2>5. counter' \in [Rules \X Times -> [value : Nat, expires : Nat]]
      BY <1>0, <2>1, <2>3
    <2>6. \A i \in Rules, t \in Times :
            counter'[<<i, t>>].value <= counter[<<i, t>>].value
      BY <1>0, <1>1, <2>1
    <2>7. guest[g].pc # "free"
      BY <2>1
    <2>8. now' = now /\ came' = came
      BY <2>1
    <2> QED BY <2>4, <2>5, <2>6, <2>7, <2>8, GuestCounts, Zenon
  <1>5. ASSUME NEW g \in Guests, Incr(g) PROVE LimitTypes'
    <2> DEFINE key == Key(g)
               r == guest[g].rule
               new1 == Incremented(counter[key])
               R == Refuses(g, new1.value)
               O == IF now < key[2] + Limits[key[1]].window
                    THEN guest[g].ontime \cup {key[1]} ELSE guest[g].ontime
    <2>1. /\ guest[g].pc = "incr" /\ now' = now /\ came' = came
          /\ counter' = [counter EXCEPT ![key] = new1]
          /\ \/ /\ guest' = [guest EXCEPT ![g].pc = "expire", ![g].ontime = O,
                                          ![g].refused = R]
                /\ UNCHANGED admitted
             \/ NextRule(g, R, O)
      BY <1>5 DEF Incr
    <2>2. /\ r \in Rules /\ guest[g] \in Guest /\ guest[g].at \in Times
          /\ key = <<r, WindowStart(r, guest[g].at)>> /\ key[1] = r
          /\ WindowStart(r, guest[g].at) \in Times
      BY RuleBehind, WindowStartType DEF Guest, Key
    <2>3. /\ counter[key] \in [value : Nat, expires : Nat]
          /\ key \in Rules \X Times
      BY <1>0, <2>2
    <2>4. /\ new1 \in [value : Nat, expires : Nat]
          /\ new1.value = counter[key].value + 1
      <3>1. Never \in Nat /\ counter[key].value \in Nat
        BY <2>3, RuleTypes
      <3>2. CASE counter[key].value = 0
        BY <3>1, <3>2 DEF Incremented
      <3>3. CASE counter[key].value # 0
        BY <2>3, <3>1, <3>3 DEF Incremented
      <3> QED BY <3>2, <3>3
    <2>5. R \in BOOLEAN /\ O \in SUBSET Rules
      BY <2>2, <2>4, RuleTypes DEF Refuses, Guest
    <2> HIDE DEF key, new1, R, O
    <2>6. PICK new \in Guest :
            /\ guest' = [guest EXCEPT ![g] = new]
            /\ \A i \in Rules : YetToCount(new, i) => YetToCount(guest[g], i)
            /\ ~YetToCount(new, r)
            /\ admitted' \in [Rules \X Times -> Nat]
            /\ \A i \in Rules, t \in Times :
                 \/ admitted'[<<i, t>>] = admitted[<<i, t>>]
                 \/ /\ admitted'[<<i, t>>] = admitted[<<i, t>>] + 1
                    /\ new.pc = "free"
      <3>1. CASE /\ guest' = [guest EXCEPT ![g].pc = "expire", ![g].ontime = O,
                                          ![g].refused = R]
                 /\ UNCHANGED admitted
        <4> DEFINE new == [guest[g] EXCEPT !.pc = "expire", !.ontime = O,
                                           !.refused = R]
        <4>1. guest' = [guest EXCEPT ![g] = new]
          BY <3>1 DEF LimitTypes
        <4>2. new \in Guest /\ new.pc = "expire" /\ new.rule = r
          BY <2>2, <2>5 DEF Guest
        <4> HIDE DEF new
        <4>3. /\ \A i \in Rules : YetToCount(new, i) => YetToCount(guest[g], i)
              /\ ~YetToCount(new, r)
          BY <2>1, <4>2, RuleBehind DEF YetToCount
        <4>4. admitted' = admitted
          BY <3>1
        <4> QED BY <1>0, <4>1, <4>2, <4>3, <4>4
      <3>2. CASE NextRule(g, R, O)
        <4>1. guest[g].pc \in {"incr", "expire"}
          BY <2>1
        <4> QED BY <2>5, <3>2, <4>1, RulePasses
      <3> QED BY <2>1, <3>1, <3>2
    <2>7. counter' \in [Rules \X Times -> [value : Nat, expires : Nat]]
      BY <1>0, <2>1, <2>4
    <2>8. ASSUME NEW i \in Rules, NEW t \in Times
          PROVE  \/ counter'[<<i, t>>].value <= counter[<<i, t>>].value
                 \/ /\ counter'[<<i, t>>].value = counter[<<i, t>>].value + 1
                    /\ YetToCount(guest[g], i) /\ ~YetToCount(new, i)
      <3>1. CASE <<i, t>> = key
        <4>1. i = r
          BY <2>2, <3>1
        <4>2. YetToCount(guest[g], i)
          BY <2>1, <4>1, RuleBehind DEF YetToCount
        <4>3. counter'[<<i, t>>] = new1
          BY <1>0, <2>1, <2>3, <3>1
        <4> QED BY <2>4, <2>6, <3>1, <4>1, <4>2, <4>3
      <3>2. CASE <<i, t>> # key
        BY <1>0, <1>1, <2>1, <3>2
      <3> QED BY <3>1, <3>2
    <2>9. guest[g].pc # "free"
      BY <2>1
    <2>10. now' = now /\ came' = came
      BY <2>1
    <2> QED BY <2>6, <2>7, <2>8, <2>9, <2>10, GuestCounts, Zenon
  <1>6. ASSUME ClockTicks PROVE LimitTypes'
    <2>1. /\ now < MaxNow /\ now' = now + 1 /\ UNCHANGED <<guest, came, admitted>>
          /\ counter' = [k \in Rules \X Times |->
               IF counter[k].expires <= now' THEN NoCounter ELSE counter[k]]
      BY <1>6 DEF ClockTicks
    <2>2. now' \in Times
      BY <1>0, <2>1, RuleTypes DEF Times
    <2>3. counter' \in [Rules \X Times -> [value : Nat, expires : Nat]]
      BY <1>0, <2>1 DEF NoCounter
    <2>4. ASSUME NEW i \in Rules, NEW t \in Times
          PROVE  counter'[<<i, t>>].value + Cardinality(Ahead(i)) <= came
      <3>1. /\ counter'[<<i, t>>].value = 0
              \/ counter'[<<i, t>>].value = counter[<<i, t>>].value
        BY <2>1 DEF NoCounter
      <3>2. /\ counter[<<i, t>>].value + Cardinality(Ahead(i)) <= came
            /\ Cardinality(Ahead(i)) \in Nat
        BY FS_CardinalityType DEF LimitTypes, NumbersFit
      <3> QED BY <1>0, <1>1, <3>1, <3>2
    <2>5. Around' = Around /\ \A i : Ahead(i)' = Ahead(i)
      BY <2>1 DEF Around, Ahead
    <2> QED BY <2>1, <2>2, <2>3, <2>4, <2>5 DEF LimitTypes, NumbersFit
  <1>7. CASE UNCHANGED limitVars
    BY <1>7 DEF limitVars, LimitTypes, NumbersFit, Around, Ahead
  <1> QED BY <1>2, <1>3, <1>4, <1>5, <1>6, <1>7 DEF LimitNext

(* Every number is in the range the bounds of an instance leave it.        *)
THEOREM LimitTyping == LimitSpec => []LimitTypeOK
  BY LimitInitTypes, LimitTypesNext, LimitTypesMean, PTL DEF LimitSpec

(* A window never lets more through than its rule allows.                  *)
THEOREM NeverOverTheLimit == LimitSpec => []WithinLimits
  <1>1. ASSUME LimitInv PROVE WithinLimits
    <2> SUFFICES ASSUME NEW i \in Rules, NEW t \in Times
                 PROVE  admitted[<<i, t>>] <= Limits[i].amount
      BY DEF WithinLimits
    <2>1. /\ admitted[<<i, t>>] \in Nat /\ IsFiniteSet(InFlight(i, t))
          /\ admitted[<<i, t>>] + Cardinality(InFlight(i, t)) <= Limits[i].amount
      BY <1>1 DEF LimitInv
    <2>2. Cardinality(InFlight(i, t)) \in Nat
      BY <2>1, FS_CardinalityType
    <2> QED BY <2>1, <2>2, RuleTypes
  <1> QED BY <1>1, LimitInitInv, LimitInvNext, PTL DEF LimitSpec

----------------------------------------------------------------------------
(* Circuit breaker.                                                        *)

LEMMA LeastNumber ==
  ASSUME NEW T, T \subseteq Nat, T # {}
  PROVE  \E n \in T : \A m \in T : n <= m
  <1>1. PICK n \in T : \A m \in T : ~(<<m, n>> \in OpToRel(<, Nat))
    BY WFMin, NatLessThanWellFounded
  <1>2. \A m \in Nat : m < n => <<m, n>> \in OpToRel(<, Nat)
    BY DEF OpToRel
  <1>3. \A m \in T : ~(m < n) /\ m \in Nat /\ n \in Nat
    BY <1>1, <1>2, Zenon
  <1>4. \A m \in T : n <= m
    BY <1>3
  <1> QED BY <1>4

Lives == 0..FullLife

(* The list is in the order of time.                                       *)
Ordered(list) == \A i, j \in 1..Len(list) : i <= j => list[i] <= list[j]

(* One list is the end of another.                                         *)
EndOf(list, long) ==
  /\ Len(list) <= Len(long)
  /\ \A i \in 1..Len(list) : list[i] = long[(Len(long) - Len(list)) + i]

(* The breaker counts only failures in a row, of which failed is history.  *)
BreakerInv ==
  /\ BreakerTypeOK
  /\ Ordered(failures)
  /\ EndOf(failures, failed)

LEMMA BreakerNumbers ==
  /\ Threshold \in Nat /\ Threshold > 0 /\ OpenTime \in Nat /\ OpenTime > 0
  /\ Retries \in Nat /\ FullLife \in Nat /\ FullLife > 0
  /\ FullLife \in Lives /\ \A n \in Lives : n \in Nat /\ n <= FullLife
  BY BreakerAssumption DEF FullLife, Lives

(* The failures that are over come first in a list that is in order.       *)
LEMMA OverComeFirst ==
  ASSUME NEW list \in Seq(Lives), Ordered(list)
  PROVE  \E n \in 0..Len(list) : \A i \in 1..Len(list) : list[i] > 0 <=> i > n
  <1> DEFINE len == Len(list)
             T == {n \in 0..len : n < len => list[n + 1] > 0}
  <1>1. len \in Nat /\ \A i \in 1..len : list[i] \in Lives
    OBVIOUS
  <1>2. \A i \in 1..len : list[i] \in Nat
    BY <1>1, BreakerNumbers
  <1>3. T \subseteq Nat /\ len \in T
    BY <1>1
  <1>4. PICK n \in T : \A m \in T : n <= m
    <2> HIDE DEF T
    <2> QED BY <1>3, LeastNumber
  <1>5. n \in Nat /\ n <= len /\ n \in 0..len
    BY <1>1, <1>4
  <1>6. ASSUME NEW i \in 1..len PROVE list[i] > 0 <=> i > n
    <2> HIDE DEF len
    <2>1. i \in Nat /\ list[i] \in Nat
      BY <1>1, <1>2
    <2>2. CASE i <= n
      <3>1. i - 1 \in 0..len /\ ~(n <= i - 1) /\ (i - 1) + 1 = i /\ i - 1 < len
        BY <1>1, <1>5, <2>1, <2>2
      <3>2. i - 1 \notin T
        BY <1>4, <3>1
      <3>3. ~(list[i] > 0)
        BY <3>1, <3>2
      <3> QED BY <1>5, <2>1, <2>2, <3>3
    <2>3. CASE i > n
      <3>1. n < len /\ n + 1 \in 1..len /\ n + 1 <= i
        BY <1>1, <1>5, <2>1, <2>3
      <3>2. list[n + 1] > 0
        BY <1>4, <3>1
      <3>3. list[n + 1] <= list[i]
        BY <3>1 DEF Ordered, len
      <3>4. list[n + 1] \in Nat
        BY <1>2, <3>1
      <3> QED BY <2>1, <2>3, <3>2, <3>3, <3>4
    <2> QED BY <1>5, <2>1, <2>2, <2>3
  <1> QED BY <1>5, <1>6

(* What pruning leaves is the end of the list, and all of it counts.       *)
LEMMA PrunedKeeps ==
  ASSUME NEW list \in Seq(Lives), Ordered(list)
  PROVE  \E n \in 0..Len(list) :
           /\ Pruned(list) \in Seq(Lives) /\ Len(Pruned(list)) = Len(list) - n
           /\ \A i \in 1..(Len(list) - n) :
                Pruned(list)[i] = list[n + i] /\ list[n + i] > 0
  <1> DEFINE len == Len(list)
             Splits(n) == \A i \in DOMAIN list : list[i] > 0 <=> i > n
  <1>1. len \in Nat /\ DOMAIN list = 1..len
    OBVIOUS
  <1>2. \E n \in 0..len : Splits(n)
    BY <1>1, OverComeFirst
  <1> HIDE DEF Splits
  <1>3. PICK n \in 0..len : n = CHOOSE k \in 0..len : Splits(k)
    BY <1>2
  <1>4. Splits(n)
    BY <1>2, <1>3
  <1>5. Pruned(list) = SubSeq(list, n + 1, len)
    BY <1>3 DEF Pruned, Splits
  <1> HIDE DEF len
  <1>6. n \in Nat /\ n <= len
    BY <1>1, <1>3
  <1>7. /\ Pruned(list) \in Seq(Lives) /\ Len(Pruned(list)) = len - n
        /\ \A i \in 1..(len - n) : Pruned(list)[i] = list[n + i]
    <2>1. n + 1 \in Int /\ len \in Int /\ \A i \in (n + 1)..len : i \in 1..len
      BY <1>1, <1>6
    <2>2. \A i \in (n + 1)..len : list[i] \in Lives
      BY <1>1, <2>1
    <2>3. /\ SubSeq(list, n + 1, len) \in Seq(Lives)
          /\ Len(SubSeq(list, n + 1, len)) =
               IF n + 1 <= len THEN len - (n + 1) + 1 ELSE 0
          /\ \A i \in 1..(len - (n + 1) + 1) :
               SubSeq(list, n + 1, len)[i] = list[(n + 1) + i - 1]
      BY <2>1, <2>2, SubSeqProperties
    <2>4. /\ (IF n + 1 <= len THEN len - (n + 1) + 1 ELSE 0) = len - n
          /\ len - (n + 1) + 1 = len - n
          /\ \A i \in 1..(len - n) : (n + 1) + i - 1 = n + i
      BY <1>1, <1>6
    <2> QED BY <1>5, <2>3, <2>4
  <1>8. ASSUME NEW i \in 1..(len - n) PROVE list[n + i] > 0
    <2>1. n + i \in DOMAIN list /\ n + i > n
      BY <1>1, <1>6
    <2> QED BY <1>4, <2>1 DEF Splits
  <1> QED BY <1>3, <1>7, <1>8 DEF len

LEMMA BreakerHolds ==
  ASSUME BreakerInv
  PROVE  /\ failures \in Seq(Lives) /\ Len(failures) \in Nat
         /\ Len(failures) < Threshold
         /\ failed \in Seq(Lives) /\ Len(failed) \in Nat
         /\ Len(failed) <= Threshold
         /\ opened \in 0..OpenTime
  BY DEF BreakerInv, BreakerTypeOK, Lives

(* A failure that is counted: the history ends with what is counted now.   *)
LEMMA MarkKeeps ==
  ASSUME BreakerInv, MarkFailure
  PROVE  /\ failures' \in Seq(Lives) /\ Len(failures') < Threshold
         /\ failed' \in Seq(Lives) /\ Len(failed') <= Threshold
         /\ Ordered(failures') /\ EndOf(failures', failed')
         /\ \/ opened' = opened
            \/ /\ opened' = OpenTime /\ Len(failed') = Threshold
               /\ \A i \in 1..Threshold : failed'[i] > 0
  <1> DEFINE left == Pruned(failures)
             kept == Append(left, FullLife)
             long == Append(failed, FullLife)
             k    == Len(failures)
             f    == Len(failed)
             N    == Len(kept)
  <1>1. /\ failures \in Seq(Lives) /\ k \in Nat /\ k < Threshold
        /\ failed \in Seq(Lives) /\ f \in Nat /\ f <= Threshold
    BY BreakerHolds
  <1>2. Ordered(failures) /\ EndOf(failures, failed)
    BY DEF BreakerInv
  <1>3. /\ Threshold \in Nat /\ FullLife \in Lives /\ FullLife \in Nat
        /\ FullLife > 0 /\ Threshold > 0
    BY BreakerNumbers
  <1>4. PICK n \in 0..k :
          /\ left \in Seq(Lives) /\ Len(left) = k - n
          /\ \A i \in 1..(k - n) : left[i] = failures[n + i] /\ failures[n + i] > 0
    BY <1>1, <1>2, PrunedKeeps
  <1>5. n \in Nat /\ n <= k /\ k - n \in Nat
    BY <1>1, <1>4
  <1>6. /\ kept \in Seq(Lives) /\ N = (k - n) + 1
        /\ \A i \in 1..(k - n) : kept[i] = failures[n + i]
        /\ kept[(k - n) + 1] = FullLife
    BY <1>3, <1>4, AppendProperties
  <1>7. /\ long \in Seq(Lives) /\ Len(long) = f + 1
        /\ \A i \in 1..f : long[i] = failed[i]
        /\ long[f + 1] = FullLife
    BY <1>1, <1>3, AppendProperties
  <1>8. k <= f /\ \A i \in 1..k : failures[i] = failed[(f - k) + i]
    BY <1>2 DEF EndOf
  <1>9. /\ failed' = LastOf(long)
        /\ IF N >= Threshold THEN failures' = <<>> /\ opened' = OpenTime
                             ELSE failures' = kept /\ opened' = opened
    BY DEF MarkFailure
  <1> HIDE DEF left, kept, long, k, f, N
  <1>10. N \in Nat /\ N <= Threshold /\ N <= f + 1
    BY <1>1, <1>3, <1>5, <1>6, <1>8
  <1>11. ASSUME NEW i \in 1..N PROVE kept[i] = long[((f + 1) - N) + i]
    <2>1. CASE i = N
      <3>1. ((f + 1) - N) + i = f + 1 /\ i = (k - n) + 1
        BY <1>1, <1>6, <1>10, <2>1
      <3> QED BY <1>6, <1>7, <3>1
    <2>2. CASE i # N
      <3>1. /\ i \in 1..(k - n) /\ n + i \in 1..k
            /\ (f - k) + (n + i) \in 1..f
            /\ (f - k) + (n + i) = ((f + 1) - N) + i
        BY <1>1, <1>5, <1>6, <1>8, <1>10, <2>2
      <3>2. kept[i] = failures[n + i] /\ failures[n + i] = failed[(f - k) + (n + i)]
        BY <1>6, <1>8, <3>1
      <3>3. failed[(f - k) + (n + i)] = long[(f - k) + (n + i)]
        BY <1>7, <3>1
      <3> QED BY <3>1, <3>2, <3>3
    <2> QED BY <2>1, <2>2
  <1>12. /\ failed' \in Seq(Lives) /\ Len(failed') \in Nat
         /\ Len(failed') <= Threshold /\ N <= Len(failed')
         /\ \A i \in 1..N : kept[i] = failed'[(Len(failed') - N) + i]
    <2>1. CASE f + 1 > Threshold
      <3>1. failed' = Tail(long) /\ f = Threshold
        BY <1>1, <1>3, <1>7, <1>9, <2>1 DEF LastOf
      <3>2. long # <<>>
        BY <1>1, <1>7
      <3>3. /\ failed' \in Seq(Lives) /\ Len(failed') = (f + 1) - 1
            /\ \A i \in 1..Len(failed') : failed'[i] = long[i + 1]
        BY <1>7, <3>1, <3>2, HeadTailProperties
      <3>4. Len(failed') = f
        BY <1>1, <3>3
      <3>5. ASSUME NEW i \in 1..N PROVE kept[i] = failed'[(f - N) + i]
        <4>1. (f - N) + i \in 1..f /\ ((f - N) + i) + 1 = ((f + 1) - N) + i
          BY <1>1, <1>10, <3>1
        <4>2. failed'[(f - N) + i] = long[((f - N) + i) + 1]
          BY <3>3, <3>4, <4>1
        <4> QED BY <1>11, <4>1, <4>2
      <3> QED BY <1>1, <1>10, <3>1, <3>3, <3>4, <3>5
    <2>2. CASE ~(f + 1 > Threshold)
      <3>1. failed' = long /\ f + 1 <= Threshold
        BY <1>1, <1>3, <1>7, <1>9, <2>2 DEF LastOf
      <3>2. Len(failed') = f + 1 /\ failed' \in Seq(Lives)
        BY <1>7, <3>1
      <3>3. f + 1 \in Nat /\ N <= f + 1
        BY <1>1, <1>10
      <3>4. \A i \in 1..N : kept[i] = failed'[((f + 1) - N) + i]
        BY <1>11, <3>1
      <3> QED BY <3>1, <3>2, <3>3, <3>4
    <2> QED BY <2>1, <2>2
  <1>13. CASE N >= Threshold
    <2>1. failures' = <<>> /\ opened' = OpenTime
      BY <1>9, <1>13
    <2>2. /\ failures' \in Seq(Lives) /\ Len(failures') = 0
          /\ Ordered(failures') /\ EndOf(failures', failed')
      BY <1>12, <2>1 DEF Ordered, EndOf
    <2>3. Len(failed') = Threshold /\ N = Threshold
      BY <1>3, <1>10, <1>12, <1>13
    <2>4. ASSUME NEW i \in 1..Threshold PROVE failed'[i] > 0
      <3>1. (Len(failed') - N) + i = i /\ i \in 1..N
        BY <1>3, <2>3
      <3>2. failed'[i] = kept[i]
        BY <1>12, <3>1
      <3>3. CASE i = N
        BY <1>3, <1>6, <3>2, <3>3
      <3>4. CASE i # N
        <4>1. i \in 1..(k - n)
          BY <1>5, <1>6, <1>10, <3>1, <3>4
        <4> QED BY <1>4, <1>6, <3>2, <4>1
      <3> QED BY <3>3, <3>4
    <2> QED BY <1>3, <1>12, <2>1, <2>2, <2>3, <2>4
  <1>14. CASE ~(N >= Threshold)
    <2>1. failures' = kept /\ opened' = opened
      BY <1>9, <1>14
    <2>2. Len(failures') = N /\ N < Threshold
      BY <1>3, <1>10, <1>14, <2>1 DEF N
    <2>3. EndOf(failures', failed')
      BY <1>12, <2>1, <2>2 DEF EndOf
    <2>4. ASSUME NEW i \in 1..N, NEW j \in 1..N, i <= j
          PROVE  kept[i] <= kept[j]
      <3>1. CASE j = N
        <4>1. kept[j] = FullLife
          BY <1>6, <3>1
        <4>2. kept[i] \in Lives
          BY <1>6 DEF N
        <4> QED BY <4>1, <4>2, BreakerNumbers
      <3>2. CASE j # N
        <4>1. /\ i \in 1..(k - n) /\ j \in 1..(k - n)
              /\ n + i \in 1..k /\ n + j \in 1..k /\ n + i <= n + j
          BY <1>1, <1>5, <1>6, <1>10, <2>4, <3>2
        <4>2. failures[n + i] <= failures[n + j]
          BY <1>2, <4>1 DEF Ordered, k
        <4> QED BY <1>6, <4>1, <4>2
      <3> QED BY <3>1, <3>2
    <2>5. Ordered(failures')
      BY <2>1, <2>2, <2>4 DEF Ordered
    <2> QED BY <1>6, <1>12, <2>1, <2>2, <2>3, <2>5
  <1> QED BY <1>13, <1>14

LEMMA OneLessOrder ==
  \A a, b \in Nat : /\ OneLess(a) \in Nat /\ OneLess(a) <= a
                   /\ a <= b => OneLess(a) <= OneLess(b)
  BY DEF OneLess

LEMMA OlderKeeps ==
  ASSUME NEW list \in Seq(Lives)
  PROVE  /\ Older(list) \in Seq(Lives) /\ Len(Older(list)) = Len(list)
         /\ \A i \in 1..Len(list) : Older(list)[i] = OneLess(list[i])
  <1>1. DOMAIN list = 1..Len(list) /\ Len(list) \in Nat
    OBVIOUS
  <1>2. Older(list) = [i \in 1..Len(list) |-> OneLess(list[i])]
    BY <1>1 DEF Older
  <1>3. ASSUME NEW i \in 1..Len(list) PROVE OneLess(list[i]) \in Lives
    <2>1. list[i] \in Lives
      BY <1>1
    <2>2. list[i] \in 0..FullLife /\ FullLife \in Nat
      BY <2>1, BreakerNumbers DEF Lives
    <2>3. OneLess(list[i]) \in 0..FullLife
      BY <2>2 DEF OneLess
    <2> QED BY <2>3 DEF Lives
  <1> QED BY <1>1, <1>2, <1>3

LEMMA BreakerInitInv == BreakerInit => BreakerInv
  <1> SUFFICES ASSUME BreakerInit PROVE BreakerInv
    OBVIOUS
  <1>1. NoAttempt \in Attempt
    BY BreakerNumbers DEF NoAttempt, Attempt
  <1>2. failures = <<>> /\ failed = <<>> /\ opened = 0
    BY DEF BreakerInit
  <1>3. /\ failures \in Seq(0..FullLife) /\ Len(failures) = 0
        /\ failed \in Seq(0..FullLife) /\ Len(failed) = 0
    BY <1>2
  <1>4. BreakerTypeOK
    BY <1>1, <1>2, <1>3, BreakerNumbers DEF BreakerTypeOK, BreakerInit
  <1>5. Ordered(failures) /\ EndOf(failures, failed)
    BY <1>3 DEF Ordered, EndOf
  <1> QED BY <1>4, <1>5 DEF BreakerInv

(* What a step does to the circuit.                                        *)
Cause ==
  \/ opened' = opened \/ opened' < opened
  \/ Len(failed') = Threshold /\ \A i \in 1..Threshold : failed'[i] > 0

LEMMA BreakerStep ==
  ASSUME BreakerInv, [BreakerNext]_breakerVars
  PROVE  BreakerInv' /\ Cause
  <1>1. /\ BreakerTypeOK /\ Ordered(failures) /\ EndOf(failures, failed)
        /\ attempt \in [Callers -> Attempt] /\ opened \in 0..OpenTime
    BY DEF BreakerInv, BreakerTypeOK
  <1>2. ASSUME attempt' \in [Callers -> Attempt],
               UNCHANGED <<failures, opened, failed>>
        PROVE  BreakerInv' /\ Cause
    BY <1>1, <1>2 DEF BreakerInv, BreakerTypeOK, Ordered, EndOf, Cause
  <1>3. ASSUME NEW c \in Callers, StartCall(c) PROVE BreakerInv' /\ Cause
    <2>1. attempt' \in [Callers -> Attempt]
      BY <1>1, <1>3, BreakerNumbers DEF StartCall, Attempt
    <2> QED BY <1>2, <1>3, <2>1 DEF StartCall
  <1>4. ASSUME NEW c \in Callers, RetryCall(c) PROVE BreakerInv' /\ Cause
    <2>1. attempt[c] \in Attempt
      BY <1>1
    <2>2. [attempt[c] EXCEPT !.pc = "trying"] \in Attempt
      BY <2>1 DEF Attempt
    <2>3. attempt' \in [Callers -> Attempt]
      BY <1>1, <1>4, <2>2 DEF RetryCall
    <2> QED BY <1>2, <1>4, <2>3 DEF RetryCall
  <1>5. ASSUME NEW c \in Callers, CallSucceeds(c) PROVE BreakerInv' /\ Cause
    <2>1. /\ failures' = <<>> /\ failed' = <<>> /\ opened' = 0
          /\ attempt' = [attempt EXCEPT ![c] = NoAttempt]
      BY <1>5 DEF CallSucceeds
    <2>2. NoAttempt \in Attempt
      BY BreakerNumbers DEF NoAttempt, Attempt
    <2>3. attempt' \in [Callers -> Attempt]
      BY <1>1, <2>1, <2>2
    <2>4. /\ failures' \in Seq(0..FullLife) /\ Len(failures') = 0
          /\ failed' \in Seq(0..FullLife) /\ Len(failed') = 0
      BY <2>1
    <2>5. BreakerTypeOK'
      BY <2>1, <2>3, <2>4, BreakerNumbers DEF BreakerTypeOK
    <2>6. Ordered(failures)' /\ EndOf(failures, failed)'
      BY <2>4 DEF Ordered, EndOf
    <2>7. opened \in Nat
      BY <1>1, BreakerNumbers
    <2>8. Cause
      BY <2>1, <2>7 DEF Cause
    <2> QED BY <2>5, <2>6, <2>8 DEF BreakerInv
  <1>6. ASSUME NEW c \in Callers, CallFails(c) PROVE BreakerInv' /\ Cause
    <2>1. MarkFailure
      BY <1>6 DEF CallFails
    <2>2. /\ failures' \in Seq(Lives) /\ Len(failures') < Threshold
          /\ failed' \in Seq(Lives) /\ Len(failed') <= Threshold
          /\ Ordered(failures') /\ EndOf(failures', failed')
          /\ \/ opened' = opened
             \/ /\ opened' = OpenTime /\ Len(failed') = Threshold
                /\ \A i \in 1..Threshold : failed'[i] > 0
      BY <2>1, MarkKeeps
    <2>3. opened' \in 0..OpenTime
      BY <1>1, <2>2, BreakerNumbers
    <2>4. attempt' \in [Callers -> Attempt]
      <3>1. attempt[c] \in Attempt /\ NoAttempt \in Attempt
        BY <1>1, BreakerNumbers DEF NoAttempt, Attempt
      <3>2. CASE attempt[c].left = 0
        BY <1>1, <1>6, <3>1, <3>2 DEF CallFails
      <3>3. CASE attempt[c].left # 0
        <4>1. attempt[c].left \in 0..Retries /\ Retries \in Nat
          BY <3>1, BreakerNumbers DEF Attempt
        <4>2. attempt[c].left - 1 \in 0..Retries
          BY <3>3, <4>1
        <4>3. [pc |-> "waiting", left |-> attempt[c].left - 1] \in Attempt
          BY <4>2 DEF Attempt
        <4>4. attempt' = [attempt EXCEPT ![c] =
                            [pc |-> "waiting", left |-> attempt[c].left - 1]]
          BY <1>6, <3>3 DEF CallFails
        <4> QED BY <1>1, <4>3, <4>4
      <3> QED BY <3>2, <3>3
    <2>5. BreakerTypeOK'
      BY <2>2, <2>3, <2>4 DEF BreakerTypeOK, Lives
    <2>6. Cause
      BY <2>2 DEF Cause
    <2> QED BY <2>2, <2>5, <2>6 DEF BreakerInv
  <1>7. ASSUME Elapse PROVE BreakerInv' /\ Cause
    <2>1. /\ opened' = OneLess(opened) /\ attempt' = attempt
          /\ failures' = Older(failures) /\ failed' = Older(failed)
      BY <1>7 DEF Elapse
    <2>2. /\ failures \in Seq(Lives) /\ Len(failures) \in Nat
          /\ Len(failures) < Threshold
          /\ failed \in Seq(Lives) /\ Len(failed) \in Nat
          /\ Len(failed) <= Threshold
      BY BreakerHolds
    <2>3. /\ failures' \in Seq(Lives) /\ Len(failures') = Len(failures)
          /\ \A i \in 1..Len(failures) : failures'[i] = OneLess(failures[i])
      BY <2>1, <2>2, OlderKeeps
    <2>4. /\ failed' \in Seq(Lives) /\ Len(failed') = Len(failed)
          /\ \A i \in 1..Len(failed) : failed'[i] = OneLess(failed[i])
      BY <2>1, <2>2, OlderKeeps
    <2>5. opened' \in 0..OpenTime /\ (opened' = opened \/ opened' < opened)
      BY <1>1, <2>1, BreakerNumbers DEF OneLess
    <2>6. BreakerTypeOK'
      BY <1>1, <2>1, <2>2, <2>3, <2>4, <2>5 DEF BreakerTypeOK, Lives
    <2>7. \A i \in 1..Len(failures) : failures[i] \in Nat
      <3>1. \A i \in 1..Len(failures) : failures[i] \in Lives
        BY <2>2
      <3> QED BY <3>1, BreakerNumbers
    <2>8. Ordered(failures')
      <3>1. ASSUME NEW i \in 1..Len(failures), NEW j \in 1..Len(failures), i <= j
            PROVE  failures'[i] <= failures'[j]
        <4>1. failures[i] <= failures[j]
          BY <1>1, <3>1 DEF Ordered
        <4>2. failures[i] \in Nat /\ failures[j] \in Nat
          BY <2>7
        <4>3. OneLess(failures[i]) <= OneLess(failures[j])
          BY <4>1, <4>2 DEF OneLess
        <4> QED BY <2>3, <4>3
      <3> QED BY <2>3, <3>1 DEF Ordered
    <2>9. EndOf(failures', failed')
      <3>1. Len(failures) <= Len(failed)
        BY <1>1 DEF EndOf
      <3>2. ASSUME NEW i \in 1..Len(failures)
            PROVE  failures'[i] = failed'[(Len(failed) - Len(failures)) + i]
        <4> DEFINE j == (Len(failed) - Len(failures)) + i
        <4>1. j \in 1..Len(failed)
          BY <2>2, <3>1
        <4>2. failures[i] = failed[j]
          BY <1>1 DEF EndOf
        <4> QED BY <2>3, <2>4, <4>1, <4>2
      <3> QED BY <2>3, <2>4, <3>1, <3>2 DEF EndOf
    <2> QED BY <2>5, <2>6, <2>8, <2>9 DEF BreakerInv, Cause
  <1>8. CASE UNCHANGED breakerVars
    BY <1>1, <1>2, <1>8 DEF breakerVars
  <1>9. CASE \E c \in Callers :
               StartCall(c) \/ CallSucceeds(c) \/ CallFails(c) \/ RetryCall(c)
    <2>1. PICK c \in Callers :
            StartCall(c) \/ CallSucceeds(c) \/ CallFails(c) \/ RetryCall(c)
      BY <1>9
    <2> QED BY <1>3, <1>4, <1>5, <1>6, <2>1
  <1> QED BY <1>7, <1>8, <1>9, Zenon DEF BreakerNext

(* CircuitBreaker.OpensForCause: _mark_failure opens the circuit only after*)
(* as many failures in a row, all within the window, as the threshold      *)
(* says, for any number of callers whose attempts and retries mix.         *)
THEOREM OpenedForCause == BreakerSpec => OpensForCause
  <1>1. BreakerInv /\ [BreakerNext]_breakerVars => BreakerInv'
    BY BreakerStep
  <1>2. ASSUME BreakerInv, [BreakerNext]_breakerVars
        PROVE  [opened' > opened =>
                  Len(failed') = Threshold /\ \A i \in 1..Threshold : failed'[i] > 0
               ]_breakerVars
    <2>1. opened \in Nat /\ BreakerInv'
      BY <1>2, BreakerHolds, BreakerNumbers, BreakerStep
    <2>2. opened' \in Nat
      BY <2>1, BreakerNumbers DEF BreakerInv, BreakerTypeOK
    <2>3. \/ opened' = opened \/ opened' < opened
          \/ /\ Len(failed') = Threshold
             /\ \A i \in 1..Threshold : failed'[i] > 0
      BY <1>2, BreakerStep DEF Cause
    <2> QED BY <2>1, <2>2, <2>3
  <1> QED BY <1>1, <1>2, BreakerInitInv, PTL DEF BreakerSpec, OpensForCause
=============================================================================
