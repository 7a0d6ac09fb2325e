--------------------------- MODULE CircuitBreaker ---------------------------
(***************************************************************************)
(* The breaker in front of one external service (call_external_sync in     *)
(* app/external.py): the language model and the text classifier are called *)
(* through it from several threads, which look at the circuit once, before *)
(* their first attempt, and go on with their retries whatever it does      *)
(* meanwhile.                                                              *)
(*                                                                         *)
(* Time is what is left: of the window a failure counts in, and of the     *)
(* time the circuit stays open.  A call that finds the circuit open        *)
(* returns the fallback and changes nothing.                               *)
(***************************************************************************)
EXTENDS Naturals, Sequences

CONSTANTS
  Callers,       \* threads
  Threshold,     \* CB_FAILURE_THRESHOLD
  Window,        \* CB_WINDOW_SECONDS
  OpenTime,      \* CB_OPEN_SECONDS
  Retries        \* retries of a call

ASSUME BreakerAssumption ==
  {Threshold, Window, OpenTime} \subseteq Nat \ {0} /\ Retries \in Nat

VARIABLES
  failures,  \* _CircuitState.failures, what is left of their window
  opened,    \* _CircuitState.opened_until, what is left
  attempt,   \* per thread: its call
  failed     \* history: the last failures since a success

breakerVars == <<failures, opened, attempt, failed>>

FullLife == Window + 1             \* a failure as old as the window counts

Attempt == [pc : {"free", "trying", "waiting"}, left : 0..Retries]
NoAttempt == [pc |-> "free", left |-> 0]

BreakerTypeOK ==
  /\ failures \in Seq(0..FullLife) /\ Len(failures) < Threshold
  /\ opened \in 0..OpenTime
  /\ attempt \in [Callers -> Attempt]
  /\ failed \in Seq(0..FullLife) /\ Len(failed) <= Threshold

BreakerInit ==
  /\ failures = <<>>
  /\ opened = 0
  /\ attempt = [c \in Callers |-> NoAttempt]
  /\ failed = <<>>

Trying(c) == attempt[c].pc = "trying"

Pruned_All(list) == list           \* mutant: old failures count as well

(* _prune_failures keeps the failures of the window: as the list is in the *)
(* order of time, what follows the first few.                              *)
Pruned(list) ==
  LET over == CHOOSE n \in 0..Len(list) :
                \A i \in DOMAIN list : list[i] > 0 <=> i > n
  IN SubSeq(list, over + 1, Len(list))

LastOf(list) ==
  IF Len(list) > Threshold THEN Tail(list) ELSE list

----------------------------------------------------------------------------

MayCall == opened = 0              \* _is_circuit_open

StartCall(c) ==
  /\ attempt[c].pc = "free"
  /\ MayCall
  /\ attempt' = [attempt EXCEPT ![c] = [pc |-> "trying", left |-> Retries]]
  /\ UNCHANGED <<failures, opened, failed>>

CallSucceeds(c) ==                 \* _mark_success
  /\ Trying(c)
  /\ failures' = <<>>
  /\ opened' = 0
  /\ failed' = <<>>
  /\ attempt' = [attempt EXCEPT ![c] = NoAttempt]

MarkFailure ==                     \* _mark_failure, under the lock
  LET kept == Append(Pruned(failures), FullLife) IN
  /\ failed' = LastOf(Append(failed, FullLife))
  /\ IF Len(kept) >= Threshold
     THEN failures' = <<>> /\ opened' = OpenTime
     ELSE failures' = kept /\ UNCHANGED opened

CallFails(c) ==
  /\ Trying(c)
  /\ MarkFailure
  /\ attempt' = [attempt EXCEPT ![c] =
       IF attempt[c].left = 0 THEN NoAttempt
       ELSE [pc |-> "waiting", left |-> attempt[c].left - 1]]

RetryCall(c) ==                    \* after the backoff
  /\ attempt[c].pc = "waiting"
  /\ attempt' = [attempt EXCEPT ![c].pc = "trying"]
  /\ UNCHANGED <<failures, opened, failed>>

OneLess(n) == IF n = 0 THEN 0 ELSE n - 1
Older(list) == [i \in DOMAIN list |-> OneLess(list[i])]

Elapse ==
  /\ opened' = OneLess(opened)
  /\ failures' = Older(failures)
  /\ failed' = Older(failed)
  /\ <<opened', failures', failed'>> # <<opened, failures, failed>>
  /\ UNCHANGED attempt

BreakerNext ==
  \/ \E c \in Callers :
       StartCall(c) \/ CallSucceeds(c) \/ CallFails(c) \/ RetryCall(c)
  \/ Elapse

BreakerSpec == BreakerInit /\ [][BreakerNext]_breakerVars

----------------------------------------------------------------------------
(* The circuit opens, or stays open for longer, only when the service has  *)
(* failed Threshold times within the window and not once succeeded in      *)
(* between, however calls and retries of several threads mix.              *)
OpensForCause ==
  [][opened' > opened =>
       Len(failed') = Threshold /\ \A i \in 1..Threshold : failed'[i] > 0
    ]_breakerVars
=============================================================================
