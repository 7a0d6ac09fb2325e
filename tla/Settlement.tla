----------------------------- MODULE Settlement -----------------------------
(***************************************************************************)
(* The amounts of a dispute (app/disputes.py): which options the two sides *)
(* are offered in each round, how their adjustments of an amount are       *)
(* limited, which common option is taken and what is paid in the end.      *)
(* A handler is one step here: what overlapping requests do to the columns *)
(* is the subject of Dispute.  The source computes with Python floats and  *)
(* round(), which rounds halves to even; on whole roubles of the sizes     *)
(* considered its products by 0.1, 0.2, 0.6, 0.65 and its quotients by a   *)
(* small integer round as the exact fractions below do.                    *)
(***************************************************************************)
EXTENDS Integers, FiniteSets, Sequences, SequencesExt

CONSTANTS
  Forms,       \* what the sides may have filled in when the dispute is opened
  Answers,     \* the options the model may answer with, <<>> if it has none
  Ballots      \* per side: the positions it may pick, and amounts it may ask

ASSUME FormsAssumption ==
  Forms \subseteq [initiator : {"customer", "performer"},
                   requested : Nat, percent : 0..100]
ASSUME AnswersAssumption ==       \* _normalize_options leaves five at most, and
  \A answer \in Answers :         \* an answer does not reuse an id
    /\ answer \in Seq([id : {"opt"} \X (1..5),
                      lean : {"initiator_favor", "counterparty_favor", "compromise"},
                      rub : Nat \cup {-1}, percent : (0..100) \cup {-1}])
    /\ Len(answer) <= 5
    /\ \A i, j \in DOMAIN answer : answer[i].id = answer[j].id => i = j
ASSUME BallotsAssumption ==
  \A p \in {"customer", "performer"} : \A b \in Ballots[p] :
    /\ b.picks \in Seq(1..5) /\ b.picks # <<>>
    /\ DOMAIN b.asked \subseteq ToSet(b.picks)
    /\ \A k \in DOMAIN b.asked : b.asked[k] \in Nat

VARIABLES
  form,        \* initiator_form and counterparty_form
  phase,       \* the part of the status the amounts depend on
  round,       \* active_round
  offered,     \* round1_options, round2_options
  votes,       \* round1_votes, round2_votes
  selected     \* selected_option_id, {} is NULL

vars == <<form, phase, round, offered, votes, selected>>

----------------------------------------------------------------------------
(* Arithmetic.                                                             *)

(* round(n / d) for d > 0.                                                 *)
Round(n, d) ==
  LET down == n \div d
      rest == 2 * (n % d)
  IN IF rest < d \/ (rest = d /\ down % 2 = 0) THEN down ELSE down + 1

Clamp(n, low, high) == IF n < low THEN low ELSE IF n > high THEN high ELSE n

ToStep(n) == 50 * Round(n, 50)                \* _round_to_step

Distance(a, b) == IF a < b THEN b - a ELSE a - b

PercentOf(amount, percent) == Round(amount * percent, 100)

----------------------------------------------------------------------------
(* Options.                                                                *)

Party == {"customer", "performer"}
Other(p) == IF p = "customer" THEN "performer" ELSE "customer"

Leans == <<"initiator_favor", "counterparty_favor", "compromise">>

NoAmount == -1                                \* compensation_rub is NULL

(* An option keeps a percentage only until it has an amount: no code reads *)
(* it afterwards.                                                          *)
Option(id, lean, rub) ==
  [id |-> id, lean |-> lean, rub |-> rub, percent |-> NoAmount]

Effective(option) ==                          \* _option_effective_compensation
  IF option.rub # NoAmount THEN option.rub
  ELSE IF option.percent # NoAmount /\ form.requested > 0
       THEN PercentOf(form.requested, option.percent)
       ELSE 0

Ids(options) == {options[i].id : i \in DOMAIN options}
Rubs(options) == {options[i].rub : i \in DOMAIN options} \ {NoAmount}

Find(options, id) ==                          \* _find_option_by_id
  options[Min({i \in DOMAIN options : options[i].id = id})]

----------------------------------------------------------------------------
(* What is offered.                                                        *)

Trio(origin, high, low, middle) ==
  << Option(<<origin, 1>>, "initiator_favor", high),
     Option(<<origin, 2>>, "counterparty_favor", low),
     Option(<<origin, 3>>, "compromise", middle) >>

(* A percentage of the order never exceeds it, so the request is "high".   *)
FallbackRound1 ==
  LET order == IF form.requested = 0 THEN 100 ELSE form.requested
      acceptable == PercentOf(order, form.percent)
  IN Trio("r1", order, acceptable, Round(order + acceptable, 2))

FallbackRound2 ==
  LET rubs == Rubs(offered[1])
      low == IF rubs = {} THEN 0 ELSE Min(rubs)
      high == IF rubs = {} THEN 100 ELSE Max(rubs)
      middle == Round(low + high, 2)
  IN Trio("r2", Round(5 * middle + 3 * (high - middle), 5),
                Round(5 * middle - 3 * (middle - low), 5), middle)

Fallback == IF round = 1 THEN FallbackRound1 ELSE FallbackRound2

(* _enforce_round2_compromise: amounts move towards the middle of round 1, *)
(* and the option that favours a side gives way against the option this    *)
(* side put first in round 1.                                              *)
Squeeze(rub, middle) == Round(20 * middle + 13 * (rub - middle), 20)

Tenth(rub) == Max({1, Round(Max({rub, 1}), 10)})

GiveWay(p, rub, liked, middle) ==
  IF p = "customer"
  THEN Min({rub, Max({0, liked - Tenth(liked)})})
  ELSE Max({rub, Min({liked + Tenth(liked), middle})})

Favoured(lean) ==
  IF lean = "initiator_favor" THEN form.initiator ELSE Other(form.initiator)

Compromised(option) ==
  LET rubs == Rubs(offered[1])
      middle == Round(Min(rubs) + Max(rubs), 2)
      p == Favoured(option.lean)
      liked == Find(offered[1], votes[1][p].ids[1]).rub
      squeezed == Squeeze(option.rub, middle)
      moved == CASE option.lean = "compromise" -> middle
                 [] option.lean # "compromise" /\ liked = NoAmount -> squeezed
                 [] OTHER -> GiveWay(p, squeezed, liked, middle)
  IN IF rubs = {} \/ option.rub = NoAmount THEN option
     ELSE [option EXCEPT !.rub = Max({0, moved})]

Closer(options) ==
  IF round = 1 THEN options
  ELSE [i \in DOMAIN options |-> Compromised(options[i])]

(* _target_option_count: more options for a wider gap.                     *)
Grade(gap, whole) ==
  IF 2 * gap >= whole THEN 5 ELSE IF 4 * gap >= whole THEN 4 ELSE 3

TargetCount(unsure) ==
  LET acceptable == PercentOf(form.requested, form.percent)
      paid == {i \in DOMAIN offered[1] : Effective(offered[1][i]) > 0}
      amounts == {Effective(offered[1][i]) : i \in paid}
      asked == IF form.requested = 0 THEN 3
               ELSE Grade(form.requested - acceptable, form.requested)
      spread == IF round = 1 \/ Cardinality(paid) < 2 THEN 3
                ELSE Grade(Max(amounts) - Min(amounts), Max(amounts))
  IN IF asked > 3 THEN asked
     ELSE IF spread > 3 THEN spread
     ELSE IF unsure THEN 4 ELSE 3

(* _expand_options_to_target: steps of 50 between the least and the        *)
(* greatest amount, those that are 50 away from every amount so far.       *)
Positive(options) == {Effective(options[i]) : i \in DOMAIN options} \ {0}

AutoId_Same(list) == <<"auto", 1>>           \* mutant: not counted on
AutoId(list) == <<"auto", Len(list) + 1>>

Graded(amount, low, high) ==
  LET middle == Round(low + high, 2)
      fifth == Round(high - low, 5)
  IN IF amount >= middle + fifth THEN "initiator_favor"
     ELSE IF amount <= middle - fifth THEN "counterparty_favor"
     ELSE "compromise"

AddAmount(acc, i, low, high, target) ==
  LET amount == ToStep(Round(low * (target - 1) + (high - low) * i, target - 1))
      new == Option(AutoId(acc.list), Graded(amount, low, high), amount)
  IN IF \/ i >= target \/ Len(acc.list) >= target
        \/ \E a \in acc.taken : Distance(amount, a) < 50
     THEN acc
     ELSE [list |-> Append(acc.list, new), taken |-> acc.taken \cup {amount}]

Fill(options, low, high, target) ==           \* target is at most 5
  LET Add(acc, i) == AddAmount(acc, i, low, high, target)
      start == [list |-> options, taken |-> Positive(options)]
  IN Add(Add(Add(Add(Add(start, 0), 1), 2), 3), 4).list

AddNew(list, option) ==
  IF option \in ToSet(list) THEN list ELSE Append(list, option)

WithFallback(options) ==
  LET fallback == Fallback
  IN AddNew(AddNew(AddNew(options, fallback[1]), fallback[2]), fallback[3])

Upto(options, n) == SubSeq(options, 1, IF Len(options) < n THEN Len(options) ELSE n)

Expand(options, target) ==
  LET all == IF Positive(options) # {} THEN options ELSE WithFallback(options)
      amounts == Positive(all)
      flat == Max(amounts) = Min(amounts)
      low == IF flat THEN 0 ELSE Min(amounts)
      high == IF flat THEN Max({Max(amounts), form.requested, 100}) ELSE Max(amounts)
  IN IF Len(options) >= target THEN Upto(options, target)
     ELSE IF amounts = {} THEN Upto(all, target)
     ELSE Upto(Fill(all, low, high, target), target)

(* The first option of each lean, then the others in their order, and the  *)
(* fallback options when the model repeated itself.                        *)
AddFirst(list, options, lean) ==
  LET those == {i \in DOMAIN options : options[i].lean = lean}
  IN IF those = {} THEN list ELSE Append(list, options[Min(those)])

AddNext(list, i, options, target) ==
  IF \/ i > Len(options) \/ Len(list) >= Len(options) \/ Len(list) >= target
  THEN list ELSE AddNew(list, options[i])

Arrange(options, target) ==                   \* there are five options at most
  LET First(list, k) == AddFirst(list, options, Leans[k])
      Add(list, i) == AddNext(list, i, options, target)
      firsts == First(First(First(<<>>, 1), 2), 3)
      listed == Add(Add(Add(Add(Add(firsts, 1), 2), 3), 4), 5)
  IN Upto(IF Len(listed) < 3 THEN listed \o Fallback ELSE listed, target)

(* _normalize_llm_response, when it does not ask questions.                *)
Proposed(answer, unsure) ==
  LET target == TargetCount(unsure)
      usable == IF Len(answer) < 3 THEN Fallback ELSE answer
  IN Arrange(Expand(Closer(usable), target), target)

----------------------------------------------------------------------------
(* What a vote says, and what two votes settle on.                         *)

Delta(base) == Max({50, ToStep(Round(base, 10))})
Lowest(base) == IF base <= 0 THEN 0 ELSE Max({0, base - Delta(base)})
Highest(base) == IF base <= 0 THEN 0 ELSE base + Delta(base)

Adjusted(base, amount) == Clamp(ToStep(amount), Lowest(base), Highest(base))

NoVote == [ids |-> <<>>, rub |-> <<>>]

(* _normalize_option_adjustments: an amount is kept for a picked option    *)
(* that has an amount, when it differs from it.  The options are looked up *)
(* in a dict, where the last one of an id replaces the others.             *)
FindLast(options, id) ==                      \* option_by_id
  options[Max({i \in DOMAIN options : options[i].id = id})]

Vote(options, ballot) ==
  LET Base(k) == Effective(FindLast(options, options[k].id))
      kept == {k \in DOMAIN ballot.asked :
                 Base(k) > 0 /\ Adjusted(Base(k), ballot.asked[k]) # Base(k)}
      Position(id) == CHOOSE k \in kept : options[k].id = id
  IN [ids |-> [n \in DOMAIN ballot.picks |-> options[ballot.picks[n]].id],
      rub |-> [id \in {options[k].id : k \in kept} |->
                 LET k == Position(id) IN Adjusted(Base(k), ballot.asked[k])]]

Common(options, pair) ==                      \* _ordered_intersection
  Ids(options) \cap ToSet(pair["customer"].ids) \cap ToSet(pair["performer"].ids)

Choose_First(options, common) ==              \* mutant: the first one offered
  options[Min({i \in DOMAIN options : options[i].id \in common})].id

(* _choose_compromise_option_id: of the common options, at the positions   *)
(* cand, the one closest to the middle of the two positions.               *)
Median(options, cand) ==
  LET Amount(i) == Effective(options[i])
      UpTo(i) == {j \in cand : Amount(j) <= Amount(i)}
  IN Min({Amount(i) : i \in
            {i \in cand : Cardinality(UpTo(i)) > Cardinality(cand) \div 2}})

Goal(options, cand) ==
  LET amounts == {Effective(options[i]) : i \in cand}
      acceptable == PercentOf(Max(amounts \cup {form.requested, 1}), form.percent)
  IN IF form.requested > 0 \/ form.percent > 0
     THEN Round(form.requested + acceptable, 2)
     ELSE Median(options, cand)

Score(options, cand, i) ==
  << Distance(Effective(options[i]), Goal(options, cand)),
     IF options[i].lean = "compromise" THEN 0 ELSE 1,
     Distance(Effective(options[i]), Median(options, cand)),
     Max({j \in DOMAIN options : options[j].id = options[i].id}), \* order_index
     i >>                                     \* min() takes the first of equals

Better(s, t) == \E n \in 1..5 : s[n] < t[n] /\ \A m \in 1..(n - 1) : s[m] = t[m]

Choose(options, common) ==
  LET cand == {i \in DOMAIN options : options[i].id \in common}
  IN options[CHOOSE i \in cand : \A j \in cand \ {i} :
               Better(Score(options, cand, i), Score(options, cand, j))].id

(* _apply_final_compensation_adjustment: what is paid for an option of     *)
(* this amount when the two sides put a and b to it.                       *)
FinalAmount_Unlimited(base, a, b) == ToStep(Round(a + b, 2))  \* mutant
FinalAmount(base, a, b) ==
  Clamp(ToStep(Round(a + b, 2)), Lowest(base), Highest(base))

Named(vote, option) ==
  IF option.id \in DOMAIN vote.rub THEN vote.rub[option.id] ELSE Effective(option)

Final(options, id, pair) ==
  LET chosen == Find(options, id)
      base == Effective(chosen)
      a == Named(pair["customer"], chosen)
      b == Named(pair["performer"], chosen)
  IN IF base <= 0 \/ (a = base /\ b = base) THEN options
     ELSE [i \in DOMAIN options |->
             IF options[i].id = id
             THEN [options[i] EXCEPT !.rub = FinalAmount(base, a, b)]
             ELSE options[i]]

----------------------------------------------------------------------------
Init ==
  /\ form \in Forms
  /\ phase = "model_thinking"
  /\ round = 1
  /\ offered = <<(<<>>), (<<>>)>>
  /\ votes = [r \in 1..2 |-> [p \in Party |-> NoVote]]
  /\ selected = {}

(* process_dispute_model_turn writes the options of the round.             *)
Propose(answer, unsure) ==
  /\ phase = "model_thinking"
  /\ offered' = [offered EXCEPT ![round] = Proposed(answer, unsure)]
  /\ phase' = "waiting_votes"
  /\ UNCHANGED <<form, round, votes, selected>>

(* select_settlement_option: the vote is stored, replacing an earlier one, *)
(* and the two votes are compared as soon as there are two.                *)
Cast(p, ballot) ==
  /\ phase = "waiting_votes"
  /\ ToSet(ballot.picks) \subseteq DOMAIN offered[round]
  /\ votes' = [votes EXCEPT ![round][p] = Vote(offered[round], ballot)]
  /\ UNCHANGED form

Await(p, ballot) ==
  /\ Cast(p, ballot)
  /\ votes[round][Other(p)] = NoVote
  /\ UNCHANGED <<phase, round, offered, selected>>

Agree(p, ballot) ==
  /\ Cast(p, ballot)
  /\ votes[round][Other(p)] # NoVote
  /\ LET common == Common(offered[round], votes'[round])
     IN /\ common # {}
        /\ selected' = {Choose(offered[round], common)}
  /\ offered' = [offered EXCEPT ![round] =
                   Final(@, CHOOSE id \in selected' : TRUE, votes'[round])]
  /\ phase' = "waiting_final_acceptance"
  /\ UNCHANGED round

Differ_Always(p, ballot) ==                   \* mutant: rounds never end
  /\ Cast(p, ballot)
  /\ votes[round][Other(p)] # NoVote
  /\ Common(offered[round], votes'[round]) = {}
  /\ phase' = "model_thinking" /\ round' = round + 1
  /\ UNCHANGED <<offered, selected>>

Differ(p, ballot) ==
  /\ Cast(p, ballot)
  /\ votes[round][Other(p)] # NoVote
  /\ Common(offered[round], votes'[round]) = {}
  /\ IF round = 1 THEN phase' = "model_thinking" /\ round' = 2
                  ELSE phase' = "awaiting_moderator" /\ UNCHANGED round
  /\ UNCHANGED <<offered, selected>>

Next ==
  \/ \E answer \in Answers, unsure \in BOOLEAN : Propose(answer, unsure)
  \/ \E p \in Party : \E ballot \in Ballots[p] :
       Await(p, ballot) \/ Agree(p, ballot) \/ Differ(p, ballot)

Spec == Init /\ [][Next]_vars

----------------------------------------------------------------------------
(* Properties.                                                             *)

OptionType ==
  [id : {"opt", "r1", "r2", "auto"} \X (1..6), lean : ToSet(Leans),
   rub : Nat \cup {NoAmount}, percent : (0..100) \cup {NoAmount}]

TypeOK ==
  /\ form \in Forms
  /\ phase \in {"model_thinking", "waiting_votes", "waiting_final_acceptance",
                "awaiting_moderator"}
  /\ round \in 1..2
  /\ offered \in [1..2 -> Seq(OptionType)]
  /\ selected \subseteq Ids(offered[round]) /\ Cardinality(selected) <= 1
  /\ \A r \in 1..2, p \in Party :
       LET vote == votes[r][p]
       IN ToSet(vote.ids) \subseteq Ids(offered[r]) /\ DOMAIN vote.rub \subseteq ToSet(vote.ids)

(* "3..5 options" (_normalize_llm_response): whatever the model answers,   *)
(* the sides have three to five options to choose from, each under an id   *)
(* of its own, so a vote for an id is a vote for one option.  In round 2   *)
(* this fails when round 1 offered 0 and 1 rouble and nothing else: the    *)
(* fallback is squeezed to 0 and then added to itself once more.           *)
EnoughToChoose ==
  phase = "waiting_votes" =>
    LET options == offered[round]
    IN /\ Len(options) \in 3..5
       /\ \/ round = 2 /\ Rubs(offered[1]) = {0, 1}
          \/ \A i, j \in DOMAIN options : options[i].id = options[j].id => i = j

(* What two votes settle on: both sides picked it, no other option         *)
(* changed, and its amount is within half a step of the middle of the two  *)
(* amounts and no farther from the offered one than a side may go.  This   *)
(* fails where EnoughToChoose does: amounts are kept for the last option   *)
(* of an id, the one worth 1, and the agreement finds the first, worth 0,  *)
(* and leaves it, so both may name 50 and settle on 0.                     *)
Settled ==
  phase' = "waiting_final_acceptance" /\ phase = "waiting_votes" =>
    \A i \in DOMAIN offered[round] :
      LET was == offered[round][i]
          now == offered'[round][i]
          base == Effective(was)
          a == Named(votes'[round]["customer"], was)
          b == Named(votes'[round]["performer"], was)
          twice == \E j \in DOMAIN offered[round] \ {i} : offered[round][j].id = was.id
      IN /\ was.id \in selected' =>
              \A p \in Party : was.id \in ToSet(votes'[round][p].ids)
         /\ was.id \notin selected' \/ twice => now = was
         /\ was.id \in selected' /\ ~twice =>
              /\ Distance(2 * Effective(now), a + b) <= 51
              /\ Effective(now) \in Lowest(base)..Highest(base)
              /\ a \in Lowest(base)..Highest(base) /\ b \in Lowest(base)..Highest(base)
FairSettlement == [][Settled]_vars

(* _final_option_prompt_text: "of several matches the most compromise one  *)
(* was taken": as long as nobody is offered more than the initiator asked  *)
(* for, no other common option is closer to this request and also closer   *)
(* to what the other side declared acceptable.                             *)
BestTaken ==
  phase' = "waiting_final_acceptance" /\ phase = "waiting_votes" =>
    LET common == Common(offered[round], votes'[round])
        Amount(id) == Effective(Find(offered[round], id))
        acceptable == PercentOf(form.requested, form.percent)
    IN (\A id \in common : Amount(id) <= form.requested) =>
         \A id \in common, best \in selected' :
           \/ Distance(Amount(id), form.requested) >= Distance(Amount(best), form.requested)
           \/ Distance(Amount(id), acceptable) >= Distance(Amount(best), acceptable)
MostCompromise == [][BestTaken]_vars

(* select_settlement_option announces "a second, more compromise round":   *)
(* its amounts lie between the least and the greatest of round 1.          *)
SecondRoundCloser ==
  phase = "waiting_votes" /\ round = 2 =>
    \A rub \in Rubs(offered[2]) :
      rub \in Min(Rubs(offered[1]))..Max(Rubs(offered[1]))
=============================================================================
