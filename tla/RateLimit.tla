----------------------------- MODULE RateLimit -----------------------------
(***************************************************************************)
(* The limit on one kind of request from one user or address               *)
(* (app_rate_limit_middleware in app/main.py, enforce_rate_limit in        *)
(* app/rate_limit.py): for every rule a counter in Redis whose key names   *)
(* the window in which the request arrived, incremented by one command and *)
(* given its time to live by another.                                      *)
(*                                                                         *)
(* Requests overlap at every command, may be delayed past the end of their *)
(* window and may die between two commands.                                *)
(***************************************************************************)
EXTENDS Naturals, Sequences

CONSTANTS
  Limits,        \* the rules: amount and window of each
  Guests,        \* requests that may be under way at the same time
  MaxNow,        \* bound on the clock
  MaxGuests      \* bound on the requests

ASSUME LimitsAssumption ==
  /\ Limits \in Seq([amount : Nat \ {0}, window : Nat \ {0}])
  /\ Limits # <<>>
  /\ \A i, j \in DOMAIN Limits :      \* the window is a part of the key
       Limits[i].window = Limits[j].window => i = j
ASSUME LimitBoundsAssumption == MaxNow \in Nat /\ MaxGuests \in Nat

VARIABLES
  now,       \* time()
  counter,   \* the keys of Redis, per rule and start of a window
  guest,     \* per request: how far it is and what it has read
  came,      \* requests so far
  admitted   \* history: per rule and window, the requests let through that
             \* were counted while the window lasted

limitVars == <<now, counter, guest, came, admitted>>

Rules == DOMAIN Limits
Times == 0..MaxNow

Counter == [value : 0..MaxGuests, expires : Nat]
Never == 2 * MaxNow + 1                       \* no time to live
NoCounter == [value |-> 0, expires |-> 0]     \* the key is not there

Guest ==
  [pc      : {"free", "incr", "expire"},
   at      : Times,                           \* now_ts
   rule    : Rules,
   refused : BOOLEAN,                         \* worst_retry_after > 0
   ontime  : SUBSET Rules]                    \* counted within the window

NoGuest == [pc |-> "free", at |-> 0, rule |-> 1, refused |-> FALSE,
            ontime |-> {}]

LimitTypeOK ==
  /\ now \in Times
  /\ counter \in [Rules \X Times -> Counter]
  /\ guest \in [Guests -> Guest]
  /\ came \in 0..MaxGuests
  /\ admitted \in [Rules \X Times -> 0..MaxGuests]

LimitInit ==
  /\ now = 0
  /\ counter = [k \in Rules \X Times |-> NoCounter]
  /\ guest = [g \in Guests |-> NoGuest]
  /\ came = 0
  /\ admitted = [k \in Rules \X Times |-> 0]

WindowStart(i, t) == t - (t % Limits[i].window)    \* _window_bucket

Key(g) == <<guest[g].rule, WindowStart(guest[g].rule, guest[g].at)>>

(* Mutant: the loop goes on after the last rule.                           *)
NextRule_Past(g, refused, ontime) ==
  /\ guest' = [guest EXCEPT ![g].pc = "incr", ![g].rule = @ + 1,
                            ![g].refused = refused, ![g].ontime = ontime]
  /\ UNCHANGED admitted

(* What happens after a rule: the next one, or the answer.                 *)
NextRule(g, refused, ontime) ==
  IF guest[g].rule < Len(Limits)
  THEN /\ guest' = [guest EXCEPT ![g].pc = "incr", ![g].rule = @ + 1,
                                 ![g].refused = refused, ![g].ontime = ontime]
       /\ UNCHANGED admitted
  ELSE /\ guest' = [guest EXCEPT ![g] = NoGuest]
       /\ admitted' = [k \in Rules \X Times |->
            IF ~refused /\ k[1] \in ontime
                 /\ k[2] = WindowStart(k[1], guest[g].at)
            THEN admitted[k] + 1 ELSE admitted[k]]

----------------------------------------------------------------------------

Arrive(g) ==
  /\ guest[g].pc = "free"
  /\ came < MaxGuests
  /\ came' = came + 1
  /\ guest' = [guest EXCEPT ![g] = [NoGuest EXCEPT !.pc = "incr", !.at = now]]
  /\ UNCHANGED <<now, counter, admitted>>

Refuses(g, value) == guest[g].refused \/ value > Limits[guest[g].rule].amount

Incremented(row) ==                \* INCR: a new key has no time to live
  IF row.value = 0 THEN [value |-> 1, expires |-> Never]
  ELSE [row EXCEPT !.value = @ + 1]

Incr(g) ==
  LET key    == Key(g)
      row    == Incremented(counter[key])
      ontime == IF now < key[2] + Limits[key[1]].window
                THEN guest[g].ontime \cup {key[1]} ELSE guest[g].ontime
  IN
  /\ guest[g].pc = "incr"
  /\ counter' = [counter EXCEPT ![key] = row]
  /\ IF row.value = 1
     THEN /\ guest' = [guest EXCEPT ![g].pc = "expire", ![g].ontime = ontime,
                                    ![g].refused = Refuses(g, row.value)]
          /\ UNCHANGED admitted
     ELSE NextRule(g, Refuses(g, row.value), ontime)
  /\ UNCHANGED <<now, came>>

TimeToLive_First(i) == Limits[1].window       \* mutant: of the first rule

TimeToLive(i) == Limits[i].window

Expire(g) ==                       \* EXPIRE; a key that is gone stays gone
  LET key == Key(g) IN
  /\ guest[g].pc = "expire"
  /\ counter' = [counter EXCEPT ![key] =
       IF @.value = 0 THEN @ ELSE [@ EXCEPT !.expires = now + TimeToLive(key[1])]]
  /\ NextRule(g, guest[g].refused, guest[g].ontime)
  /\ UNCHANGED <<now, came>>

GuestDies(g) ==
  /\ guest[g].pc # "free"
  /\ guest' = [guest EXCEPT ![g] = NoGuest]
  /\ UNCHANGED <<now, counter, came, admitted>>

ClockTicks ==                      \* Redis drops what has expired
  /\ now < MaxNow
  /\ now' = now + 1
  /\ counter' = [k \in Rules \X Times |->
       IF counter[k].expires <= now' THEN NoCounter ELSE counter[k]]
  /\ UNCHANGED <<guest, came, admitted>>

LimitNext ==
  \/ \E g \in Guests : Arrive(g) \/ Incr(g) \/ Expire(g) \/ GuestDies(g)
  \/ ClockTicks

LimitSpec == LimitInit /\ [][LimitNext]_limitVars

----------------------------------------------------------------------------
(* Of the requests that arrive in a window and are counted before it ends, *)
(* no more are let through than the rule allows, for every rule at once:   *)
(* no counter is lost or starts anew within its window, although it is     *)
(* given its time to live by a second command that may never come.         *)
WithinLimits ==
  \A i \in Rules, t \in Times : admitted[<<i, t>>] <= Limits[i].amount
=============================================================================
