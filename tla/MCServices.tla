----------------------------- MODULE MCServices -----------------------------
(***************************************************************************)
(* The components of the backend that share no tables, for TLC: one of     *)
(* them, the focus of the behaviour, moves while the others stand still.   *)
(***************************************************************************)
EXTENDS Sessions, AdminAccess, Restrictions, ChatHub, ChatReads, Support,
        AccountData, Reviews, OfferThread, Moderators, CircuitBreaker,
        RateLimit, TLC

CONSTANTS
  Focuses,                       \* the components a run looks at
  u1, u2, u3, s1, s2, t1, r1, r2, a1, a2, w1, w2, f1, f2, j1, j2, x1, x2

VARIABLE focus

servicesVars == <<focus, sessionsVars, adminVars, restrictVars, hubVars,
                  readsVars, supportVars, accountVars, reviewVars, threadVars,
                  moderatorVars, breakerVars, limitVars>>

(* u1 and u2 are the parties of j1, u2 and u3 those of j2.                 *)
MCCustomer == (j1 :> u1) @@ (j2 :> u2)
MCPerformer == (j1 :> u2) @@ (j2 :> u3)

MCLimits == <<[amount |-> 1, window |-> 1], [amount |-> 2, window |-> 3]>>

MCCategories == {{"announcements"}, {"messages", "offers"}}

ServicesInit ==
  /\ focus \in Focuses
  /\ SessionsInit /\ AdminInit /\ RestrictInit /\ HubInit
  /\ ReadsInit /\ SupportInit /\ AccountInit /\ ReviewsInit /\ ThreadInit
  /\ ModeratorsInit /\ BreakerInit /\ LimitInit
  /\ focus # "support" => recent = <<>>

Only(f) ==
  /\ focus = f
  /\ f \notin {"refreshes", "resets"} => UNCHANGED sessionsVars
  /\ f # "admins" => UNCHANGED adminVars
  /\ f # "restrictions" => UNCHANGED restrictVars
  /\ f # "hub" => UNCHANGED hubVars
  /\ f # "reads" => UNCHANGED readsVars
  /\ f # "support" => UNCHANGED supportVars
  /\ f # "account" => UNCHANGED accountVars
  /\ f # "reviews" => UNCHANGED reviewVars
  /\ f # "threads" => UNCHANGED threadVars
  /\ f # "moderators" => UNCHANGED moderatorVars
  /\ f # "breaker" => UNCHANGED breakerVars
  /\ f # "limiter" => UNCHANGED limitVars
  /\ UNCHANGED focus

(* Sessions is looked at twice: without resets and without refreshes.      *)
ServicesNext ==
  \/ Only("refreshes") /\ SessionsNext /\ UNCHANGED reset
  \/ Only("resets") /\ SessionsNext /\ \A r \in Calls : ~AtCall(r, "refresh")'
  \/ Only("admins") /\ AdminNext
  \/ Only("restrictions") /\ RestrictNext
  \/ Only("hub") /\ HubNext
  \/ Only("reads") /\ ReadsNext
  \/ Only("support") /\ SupportNext
  \/ Only("account") /\ AccountNext
  \/ Only("reviews") /\ ReviewsNext
  \/ Only("threads") /\ ThreadNext
  \/ Only("moderators") /\ ModeratorsNext
  \/ Only("breaker") /\ BreakerNext
  \/ Only("limiter") /\ LimitNext

(* Time passes; nothing else is fair.                                      *)
ServicesSpec ==
  /\ ServicesInit
  /\ [][ServicesNext]_servicesVars
  /\ WF_sessionsVars(Tick)
  /\ WF_breakerVars(Elapse)

ServicesTypeOK ==
  /\ focus \in Focuses
  /\ SessionsTypeOK /\ AdminTypeOK /\ RestrictTypeOK /\ HubTypeOK
  /\ ReadsTypeOK /\ SupportTypeOK /\ AccountTypeOK /\ ReviewsTypeOK
  /\ ThreadTypeOK /\ ModeratorsTypeOK /\ BreakerTypeOK /\ LimitTypeOK

(* Time heals.  The lock of an account ends, because attempts during it    *)
(* are refused without prolonging it, and an open circuit closes again,    *)
(* although calls begun before it opened may fail, and prolong it, for as  *)
(* long as they have retries.                                              *)
TimeHeals ==
  \A u \in Accounts :
    (user[u].lock \in 1..LockDuration \/ opened > 0)
      ~> (user[u].lock \notin 1..LockDuration /\ opened = 0)
=============================================================================
