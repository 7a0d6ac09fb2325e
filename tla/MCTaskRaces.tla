----------------------------- MODULE MCTaskRaces -----------------------------
(* An instance of TaskRaces for TLC.                                       *)
EXTENDS TaskRaces, MCTask

(* A bound of the run: of the three users two at most have a request under *)
(* way.  A race is one request between two statements of another.          *)
TwoAtOnce == \E s \in Slots : loc[s].pc = Free
=============================================================================
