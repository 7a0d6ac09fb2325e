---------------------------- MODULE MCSettlement ----------------------------
(* Instances of Settlement for TLC.                                        *)
EXTENDS Settlement

MCForms ==
  [initiator : Party, requested : {0, 300}, percent : {0, 70, 90}]

Opt(n, lean, rub, percent) ==
  [id |-> <<"opt", n>>, lean |-> lean, rub |-> rub, percent |-> percent]

MCAnswers ==
  { <<>>,
    << Opt(1, "compromise", 200, 20), Opt(2, "initiator_favor", 300, 30) >>,
    << Opt(1, "initiator_favor", 500, 50), Opt(2, "counterparty_favor", 100, 10),
       Opt(3, "compromise", 250, 25) >>,
    << Opt(1, "compromise", NoAmount, 30), Opt(2, "compromise", 0, 0),
       Opt(3, "initiator_favor", NoAmount, NoAmount),
       Opt(4, "compromise", 120, NoAmount) >>,
    << Opt(1, "compromise", 0, 0), Opt(2, "counterparty_favor", NoAmount, 0),
       Opt(3, "compromise", NoAmount, NoAmount) >>,
    << Opt(1, "compromise", 0, 0), Opt(2, "counterparty_favor", 1, 0),
       Opt(3, "initiator_favor", 0, 0) >> }

NoAsk == [k \in {} |-> 0]
AnyBallot ==
  {[picks |-> <<k>>, asked |-> NoAsk] : k \in 1..3}
  \cup {[picks |-> <<1>>, asked |-> [j \in {1} |-> n]] : n \in {133, 1000}}
  \cup {[picks |-> <<1, 3>>, asked |-> [j \in {1, 3} |-> 75]],
        [picks |-> <<3, 2, 4>>, asked |-> NoAsk]}

MCBallots == [p \in Party |-> AnyBallot]

(* Close positions, no answer of the model, and a customer who would take  *)
(* the middle where the performer would pay what it declared.              *)
CloseForms == [initiator : {"customer"}, requested : {300}, percent : {90}]
NoAnswers == {<<>>}
Pick(k) == {[picks |-> <<k>>, asked |-> NoAsk]}
PlainBallots == [customer |-> Pick(3), performer |-> Pick(2)]
=============================================================================
