------------------------------ MODULE Sessions ------------------------------
(***************************************************************************)
(* The accounts of one e-mail address and their sessions (app/user_auth.py,*)
(* app/auth_context.py): registration, login with its failure counter and  *)
(* lock, rotation of refresh tokens, logout, revocation, password reset    *)
(* and deletion, and the check every other request begins with.            *)
(*                                                                         *)
(* Time is what is left: a lock, a session and a reset token count down    *)
(* with Tick and 0 is "expired".  A refresh token is a pair of a session   *)
(* and the number of its rotation; a session has one client, which sends   *)
(* the token it holds and may lose an answer.                              *)
(***************************************************************************)
EXTENDS Naturals, FiniteSets

CONSTANTS
  Accounts,       \* ids the rows of users may take
  SessionIds,     \* ids the rows of user_sessions may take
  ResetIds,       \* ids the rows of password_reset_tokens may take
  Calls,          \* server threads that execute requests
  LockThreshold,  \* LOGIN_LOCK_THRESHOLD
  LockDuration,   \* LOGIN_LOCK_DURATION_MINUTES
  SessionLife,    \* USER_REFRESH_EXPIRE_DAYS
  ResetLife,      \* PASSWORD_RESET_EXPIRE_MINUTES
  Refreshing,     \* the sessions whose clients ask for a refresh
  MaxRotations,   \* bound on the rotations of a token
  MaxLost         \* bound on the answers that get lost

ASSUME LifeAssumption ==
  {LockThreshold, LockDuration, SessionLife, ResetLife} \subseteq Nat \ {0}
ASSUME IdsAreThere == Accounts # {} /\ SessionIds # {}
ASSUME RotationAssumption ==
  Refreshing \subseteq SessionIds /\ MaxRotations \in Nat /\ MaxLost \in Nat

VARIABLES
  user,      \* users
  session,   \* user_sessions
  reset,     \* password_reset_tokens
  held,      \* per session: the rotation its client holds
  call,      \* per server thread: the request and what it has read
  lost       \* answers lost so far

sessionsVars == <<user, session, reset, held, call, lost>>

----------------------------------------------------------------------------
(* Rows.                                                                   *)

NotLocked == LockDuration + 1                 \* locked_until IS NULL

UserRow ==
  [status : {"absent", "live", "deleted"},
   failed : 0..LockThreshold,                 \* failed_login_attempts, capped
   lock   : 0..NotLocked]                     \* locked_until

NewUser == [status |-> "live", failed |-> 0, lock |-> NotLocked]

SessionRow ==
  [status : {"absent", "live", "revoked", "erased"},
   owner  : Accounts,
   token  : 0..MaxRotations,                  \* refresh_token_hash
   life   : 0..SessionLife]                   \* expires_at

ResetRow ==
  [status : {"absent", "open", "closed"},     \* closed: used or erased
   owner  : Accounts,
   life   : 0..ResetLife]

Closed(row) == [row EXCEPT !.status = "closed", !.life = 0]

Alive(s) ==                  \* revoked_at IS NULL AND expires_at > now()
  session[s].status = "live" /\ session[s].life > 0

Accepted(s) == Alive(s) /\ user[session[s].owner].status = "live"

Capped_Not(n) == n           \* mutant: the count goes on beyond the lock

Capped(n) == IF n > LockThreshold THEN LockThreshold ELSE n

----------------------------------------------------------------------------
(* Requests.                                                               *)

AnyAccount == CHOOSE u \in Accounts : TRUE
AnySession == CHOOSE s \in SessionIds : TRUE

CallPC == {"free", "register", "fail", "succeed", "refresh", "answer",
           "logout", "check session", "admitted"}

Call ==
  [pc    : CallPC,
   u     : Accounts,
   s     : SessionIds,
   token : 0..MaxRotations,
   late  : BOOLEAN]    \* the session was over before the request began

IdleCall == [pc |-> "free", u |-> AnyAccount, s |-> AnySession, token |-> 0,
             late |-> FALSE]

SessionsTypeOK ==
  /\ user \in [Accounts -> UserRow]
  /\ session \in [SessionIds -> SessionRow]
  /\ reset \in [ResetIds -> ResetRow]
  /\ held \in [SessionIds -> 0..MaxRotations]
  /\ call \in [Calls -> Call]
  /\ lost \in 0..MaxLost

SessionsInit ==
  /\ user = [u \in Accounts |->
               [status |-> "absent", failed |-> 0, lock |-> NotLocked]]
  /\ session = [s \in SessionIds |->
       [status |-> "absent", owner |-> AnyAccount, token |-> 0, life |-> 0]]
  /\ reset = [t \in ResetIds |->
       [status |-> "absent", owner |-> AnyAccount, life |-> 0]]
  /\ held = [s \in SessionIds |-> 0]
  /\ call = [r \in Calls |-> IdleCall]
  /\ lost = 0

BeginCall(r, request) ==
  /\ call[r].pc = "free"
  /\ call' = [call EXCEPT ![r] = request]

AtCall(r, pc) == call[r].pc = pc
CallGoes(r, pc) == call' = [call EXCEPT ![r].pc = pc]
EndCall(r) == call' = [call EXCEPT ![r] = IdleCall]

----------------------------------------------------------------------------
(* Registration and login.                                                 *)

IndexAllowsUser == \A u \in Accounts : user[u].status # "live"

(* _issue_user_session, with the credentials handed to the client.         *)
IssueSession(u) ==
  \E s \in SessionIds :
    /\ session[s].status = "absent"
    /\ session' = [session EXCEPT ![s] =
         [status |-> "live", owner |-> u, token |-> 0, life |-> SessionLife]]
    /\ held' = [held EXCEPT ![s] = 0]

ReadRegister(r) ==
  /\ IndexAllowsUser
  /\ BeginCall(r, [IdleCall EXCEPT !.pc = "register"])
  /\ UNCHANGED <<user, session, reset, held, lost>>

InsertUser(r) ==             \* one transaction; the index may refuse it
  /\ AtCall(r, "register")
  /\ \/ /\ IndexAllowsUser
        /\ \E u \in Accounts :
             /\ user[u].status = "absent"
             /\ user' = [user EXCEPT ![u] = NewUser]
             /\ IssueSession(u)
     \/ /\ ~IndexAllowsUser
        /\ UNCHANGED <<user, session, held>>
  /\ EndCall(r)
  /\ UNCHANGED <<reset, lost>>

ReadLogin_Unlocked(r) ==     \* mutant: the lock is not looked at
  /\ \E u \in Accounts, right \in BOOLEAN :
       /\ user[u].status = "live"
       /\ BeginCall(r, [IdleCall EXCEPT !.u = u,
                          !.pc = IF right THEN "succeed" ELSE "fail"])
  /\ UNCHANGED <<user, session, reset, held, lost>>

(* A locked account is refused and left as it is.                          *)
ReadLogin(r) ==
  /\ \E u \in Accounts, right \in BOOLEAN :
       /\ user[u].status = "live"
       /\ user[u].lock \in {0, NotLocked}
       /\ BeginCall(r, [IdleCall EXCEPT !.u = u,
                          !.pc = IF right THEN "succeed" ELSE "fail"])
  /\ UNCHANGED <<user, session, reset, held, lost>>

(* failed_login_attempts + 1, and the lock from the threshold on.          *)
Failed(row) ==
  [row EXCEPT !.failed = Capped(row.failed + 1),
              !.lock = IF row.failed + 1 >= LockThreshold
                       THEN LockDuration ELSE row.lock]

FailLogin(r) ==
  /\ AtCall(r, "fail")
  /\ user' = [user EXCEPT ![call[r].u] = Failed(@)]
  /\ EndCall(r)
  /\ UNCHANGED <<session, reset, held, lost>>

Unlocked(row) == [row EXCEPT !.failed = 0, !.lock = NotLocked]

SucceedLogin(r) ==           \* one transaction
  /\ AtCall(r, "succeed")
  /\ user' = [user EXCEPT ![call[r].u] = Unlocked(@)]
  /\ IssueSession(call[r].u)
  /\ EndCall(r)
  /\ UNCHANGED <<reset, lost>>

----------------------------------------------------------------------------
(* Refresh and logout: the client sends the token it holds.                *)

SendToken(r, s, pc) ==
  /\ session[s].status # "absent"
  /\ BeginCall(r, [IdleCall EXCEPT !.pc = pc, !.s = s, !.token = held[s]])
  /\ UNCHANGED <<user, session, reset, held, lost>>

SendRefresh(r) == \E s \in Refreshing : SendToken(r, s, "refresh")
SendLogout(r) == \E s \in SessionIds : SendToken(r, s, "logout")

Found_AnyToken(r) == Accepted(call[r].s)      \* mutant: whatever the token

(* The row the refresh locks: FOR UPDATE reads it again after waiting.     *)
Found(r) ==
  Accepted(call[r].s) /\ session[call[r].s].token = call[r].token

Rotate(r) ==                 \* refresh_user_credentials, one transaction
  LET s == call[r].s IN
  /\ AtCall(r, "refresh")
  /\ \/ /\ Found(r)
        /\ session[s].token < MaxRotations
        /\ session' = [session EXCEPT ![s].token = @ + 1]
        /\ call' = [call EXCEPT ![r].pc = "answer",
                                ![r].token = session[s].token + 1]
     \/ /\ ~Found(r)                          \* 401
        /\ EndCall(r)
        /\ UNCHANGED session
  /\ UNCHANGED <<user, reset, held, lost>>

DeliverAnswer(r) ==
  /\ AtCall(r, "answer")
  /\ held' = [held EXCEPT ![call[r].s] = call[r].token]
  /\ EndCall(r)
  /\ UNCHANGED <<user, session, reset, lost>>

LoseAnswer(r) ==
  /\ AtCall(r, "answer")
  /\ lost < MaxLost
  /\ lost' = lost + 1
  /\ EndCall(r)
  /\ UNCHANGED <<user, session, reset, held>>

(* revoked_at = COALESCE(revoked_at, now()) for the rows chosen.           *)
Revoked(ids) ==
  [s \in SessionIds |->
     IF s \in ids /\ session[s].status = "live"
     THEN [session[s] EXCEPT !.status = "revoked"] ELSE session[s]]

Logout(r) ==                 \* revoke_user_refresh_token
  /\ AtCall(r, "logout")
  /\ session' = Revoked({s \in {call[r].s} : session[s].token = call[r].token})
  /\ EndCall(r)
  /\ UNCHANGED <<user, reset, held, lost>>

----------------------------------------------------------------------------
(* user_from_token reads users, then user_sessions; what is admitted may   *)
(* be one of the requests of this module that need a user.                 *)

ReadUser(r) ==
  /\ \E s \in SessionIds :
       /\ session[s].status # "absent"
       /\ user[session[s].owner].status = "live"
       /\ BeginCall(r, [IdleCall EXCEPT !.pc = "check session", !.s = s,
                          !.u = session[s].owner, !.late = ~Accepted(s)])
  /\ UNCHANGED <<user, session, reset, held, lost>>

Admits_ByUser(s) == TRUE     \* mutant: the session row is not asked

Admits(s) == Alive(s)

ReadSession(r) ==
  /\ AtCall(r, "check session")
  /\ IF Admits(call[r].s) THEN CallGoes(r, "admitted") ELSE EndCall(r)
  /\ UNCHANGED <<user, session, reset, held, lost>>

OwnSessions(u) == {s \in SessionIds : session[s].owner = u}

RevokeSession(r) ==
  /\ AtCall(r, "admitted")
  /\ \E s \in OwnSessions(call[r].u) : session' = Revoked({s})
  /\ EndCall(r)
  /\ UNCHANGED <<user, reset, held, lost>>

RevokeAll(r) ==
  /\ AtCall(r, "admitted")
  /\ session' = Revoked(OwnSessions(call[r].u))
  /\ EndCall(r)
  /\ UNCHANGED <<user, reset, held, lost>>

OtherRequest(r) ==           \* any endpoint of another module
  /\ AtCall(r, "admitted")
  /\ EndCall(r)
  /\ UNCHANGED <<user, session, reset, held, lost>>

(* _delete_device_and_session_data, alone or with the account.             *)
EraseData(r) ==
  LET u == call[r].u IN
  /\ AtCall(r, "admitted")
  /\ user[u].status = "live"
  /\ session' = [s \in SessionIds |->
       IF s \in OwnSessions(u) /\ session[s].status # "absent"
       THEN [session[s] EXCEPT !.status = "erased", !.life = 0]
       ELSE session[s]]
  /\ reset' = [t \in ResetIds |->
       IF reset[t].owner = u /\ reset[t].status # "absent"
       THEN Closed(reset[t]) ELSE reset[t]]
  /\ \/ user' = [user EXCEPT ![u] = [Unlocked(@) EXCEPT !.status = "deleted"]]
     \/ UNCHANGED user
  /\ EndCall(r)
  /\ UNCHANGED <<held, lost>>

----------------------------------------------------------------------------
(* Password reset and time.                                                *)

RequestReset ==
  /\ \E u \in Accounts, t \in ResetIds :
       /\ user[u].status = "live"
       /\ reset[t].status = "absent"
       /\ reset' = [reset EXCEPT ![t] =
            [status |-> "open", owner |-> u, life |-> ResetLife]]
  /\ UNCHANGED <<user, session, held, call, lost>>

ConfirmReset ==              \* one transaction, the token FOR UPDATE
  /\ \E t \in ResetIds :
       LET u == reset[t].owner IN
       /\ reset[t].status = "open"
       /\ reset[t].life > 0
       /\ user[u].status = "live"
       /\ user' = [user EXCEPT ![u] = Unlocked(@)]
       /\ reset' = [reset EXCEPT ![t] = Closed(@)]
       /\ session' = Revoked(OwnSessions(u))
  /\ UNCHANGED <<held, call, lost>>

Less(n) == IF n = 0 THEN 0 ELSE n - 1

Tick ==
  /\ user' = [u \in Accounts |->
       IF user[u].lock = NotLocked THEN user[u]
       ELSE [user[u] EXCEPT !.lock = Less(@)]]
  /\ session' = [s \in SessionIds |-> [session[s] EXCEPT !.life = Less(@)]]
  /\ reset' = [t \in ResetIds |-> [reset[t] EXCEPT !.life = Less(@)]]
  /\ <<user', session', reset'>> # <<user, session, reset>>
  /\ UNCHANGED <<held, call, lost>>

SessionsCall(r) ==
  \/ ReadRegister(r) \/ InsertUser(r)
  \/ ReadLogin(r) \/ FailLogin(r) \/ SucceedLogin(r)
  \/ SendRefresh(r) \/ Rotate(r) \/ DeliverAnswer(r) \/ LoseAnswer(r)
  \/ SendLogout(r) \/ Logout(r)
  \/ ReadUser(r) \/ ReadSession(r)
  \/ RevokeSession(r) \/ RevokeAll(r) \/ OtherRequest(r) \/ EraseData(r)

SessionsNext ==
  \/ \E r \in Calls : SessionsCall(r)
  \/ RequestReset
  \/ ConfirmReset
  \/ Tick

SessionsSpec == SessionsInit /\ [][SessionsNext]_sessionsVars

----------------------------------------------------------------------------
(* Properties.                                                             *)

(* However failed and successful logins overlap, an account is locked, or  *)
(* has a lock that has run out, exactly when its failures have reached the *)
(* threshold: no failure gets past the lock and no reset leaves one behind.*)
LockFollowsCount ==
  \A u \in Accounts :
    (user[u].failed = LockThreshold) <=> (user[u].lock # NotLocked)

(* As long as no answer got lost, the client of a session holds the token  *)
(* the server expects next, or the answer with it is on its way: a refresh *)
(* the client sent twice, or two at once, do not log it out.               *)
ClientKeepsUp ==
  lost = 0 =>
    \A s \in SessionIds :
      \/ held[s] = session[s].token
      \/ \E r \in Calls : /\ AtCall(r, "answer")
                          /\ call[r].s = s
                          /\ call[r].token = session[s].token

(* A request that begins after its session was revoked, erased or expired, *)
(* or its account deleted, is not admitted, whatever logins, refreshes and *)
(* resets go on meanwhile: sessions do not come back to life.              *)
NoLateAdmission ==
  \A r \in Calls : AtCall(r, "admitted") => ~call[r].late
=============================================================================
