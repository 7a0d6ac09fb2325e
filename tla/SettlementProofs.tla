-------------------------- MODULE SettlementProofs --------------------------
(***************************************************************************)
(* Proofs about the amounts of Settlement, for forms, answers, ballots and *)
(* amounts of any size: that three to five options are offered under ids   *)
(* of their own, what the sides may ask for an option, which option two    *)
(* votes settle on and what is paid in the end, and that the second round  *)
(* moves every amount towards the middle of the first before the options   *)
(* that favour a side give way.                                            *)
(***************************************************************************)
EXTENDS Settlement, FiniteSetTheorems, WellFoundedInduction, TLAPS

(* Rounding stays within half a unit: the multiple of d taken is no        *)
(* farther than d / 2 from n.                                              *)
LEMMA RoundHalves ==
  ASSUME NEW n \in Int
  PROVE  /\ Round(n, 2) \in Int
         /\ 2 * Round(n, 2) - n \in -1..1
  BY DEF Round

LEMMA RoundTens ==
  ASSUME NEW n \in Nat
  PROVE  Round(n, 10) \in Nat
  BY DEF Round

LEMMA StepNear ==
  ASSUME NEW n \in Int
  PROVE  /\ ToStep(n) \in Int
         /\ ToStep(n) - n \in -25..25
  BY DEF ToStep, Round

(* An amount that is a multiple of 50 already is kept.                     *)
LEMMA StepKeeps ==
  ASSUME NEW k \in Int
  PROVE  ToStep(50 * k) = 50 * k
  BY DEF ToStep, Round

LEMMA DeltaType ==
  ASSUME NEW base \in Nat
  PROVE  Delta(base) \in Nat /\ Delta(base) >= 50
  <1> DEFINE step == ToStep(Round(base, 10))
  <1>1. step \in Int
    BY RoundTens, StepNear
  <1> HIDE DEF step
  <1>2. Max({50, step}) = IF step > 50 THEN step ELSE 50
    BY <1>1 DEF Max
  <1>3. Delta(base) = Max({50, step})
    BY DEF Delta, step
  <1> QED BY <1>1, <1>2, <1>3

(* The range of an option contains its own amount and is not negative.     *)
LEMMA RangeType ==
  ASSUME NEW base \in Nat
  PROVE  /\ Lowest(base) \in Nat /\ Highest(base) \in Nat
         /\ Lowest(base) <= base /\ base <= Highest(base)
  <1>1. Delta(base) \in Nat
    BY DeltaType
  <1>2. Max({0, base - Delta(base)})
          = IF base - Delta(base) > 0 THEN base - Delta(base) ELSE 0
    BY <1>1 DEF Max
  <1> QED BY <1>1, <1>2 DEF Lowest, Highest

LEMMA RangeHas ==
  ASSUME NEW base \in Nat
  PROVE  base \in Lowest(base)..Highest(base)
  <1>1. /\ Lowest(base) \in Nat /\ Highest(base) \in Nat
        /\ Lowest(base) <= base /\ base <= Highest(base)
    BY RangeType
  <1>2. \A l, h \in Nat : l <= base /\ base <= h => base \in l..h
    OBVIOUS
  <1> QED BY <1>1, <1>2, Zenon

(* _normalize_option_adjustments: whatever a side asks, its vote carries   *)
(* an amount in the range of the option.                                   *)
THEOREM AdjustedInRange ==
  ASSUME NEW base \in Nat, NEW amount \in Int
  PROVE  Adjusted(base, amount) \in Lowest(base)..Highest(base)
  BY RangeType, StepNear DEF Adjusted, Clamp

(* _apply_final_compensation_adjustment: when the two sides put amounts of *)
(* the range of an option to it, what is paid lies in the range too, and   *)
(* within half a step (and half a rouble) of the middle of the two.        *)
THEOREM FinalAmountFair ==
  ASSUME NEW base \in Nat,
         NEW a \in Lowest(base)..Highest(base),
         NEW b \in Lowest(base)..Highest(base)
  PROVE  /\ FinalAmount(base, a, b) \in Lowest(base)..Highest(base)
         /\ Distance(2 * FinalAmount(base, a, b), a + b) <= 51
  <1> DEFINE low == Lowest(base)
             high == Highest(base)
             half == Round(a + b, 2)
             step == ToStep(half)
  <1>1. low \in Nat /\ high \in Nat /\ low <= high
    BY RangeType
  <1>2. a \in Int /\ b \in Int /\ low <= a /\ a <= high /\ low <= b /\ b <= high
    BY <1>1
  <1>3. half \in Int /\ 2 * half - (a + b) \in -1..1
    BY <1>2, RoundHalves
  <1>4. step \in Int /\ step - half \in -25..25
    BY <1>3, StepNear
  <1>5. FinalAmount(base, a, b) = Clamp(step, low, high)
    BY DEF FinalAmount
  <1> HIDE DEF low, high, half, step
  <1>6. low <= half /\ half <= high
    BY <1>1, <1>2, <1>3
  <1>7. Clamp(step, low, high) \in low..high /\ Clamp(step, low, high) - half \in -25..25
    BY <1>1, <1>3, <1>4, <1>6 DEF Clamp
  <1>8. Distance(2 * Clamp(step, low, high), a + b) <= 51
    BY <1>1, <1>2, <1>3, <1>7 DEF Distance
  <1> QED BY <1>5, <1>7, <1>8 DEF low, high

(* Two sides that name the same multiple of 50 are taken at their word.    *)
THEOREM SameAmountKept ==
  ASSUME NEW base \in Nat, NEW k \in Int,
         50 * k \in Lowest(base)..Highest(base)
  PROVE  FinalAmount(base, 50 * k, 50 * k) = 50 * k
  <1>1. Lowest(base) \in Nat /\ Highest(base) \in Nat
    BY RangeType
  <1>2. Round(50 * k + 50 * k, 2) = 50 * k
    BY DEF Round
  <1> QED BY <1>1, <1>2, StepKeeps DEF FinalAmount, Clamp

(* _enforce_round2_compromise: on its own the squeeze takes no amount      *)
(* farther from the middle of round 1, nor to the other side of it.  What  *)
(* SecondRoundCloser finds comes from GiveWay.                             *)
THEOREM SqueezeNarrows ==
  ASSUME NEW rub \in Int, NEW middle \in Int
  PROVE  /\ Distance(Squeeze(rub, middle), middle) <= Distance(rub, middle)
         /\ rub >= middle => Squeeze(rub, middle) >= middle
         /\ rub <= middle => Squeeze(rub, middle) <= middle
  BY DEF Squeeze, Round, Distance

----------------------------------------------------------------------------
(* Least and greatest numbers.                                             *)

LEMMA LeastNumber ==
  ASSUME NEW T, T \subseteq Nat, T # {}
  PROVE  \E n \in T : \A m \in T : n <= m
  <1>1. PICK n \in T : \A m \in T : ~(<<m, n>> \in OpToRel(<, Nat))
    BY WFMin, NatLessThanWellFounded
  <1>2. \A m \in Nat : m < n => <<m, n>> \in OpToRel(<, Nat)
    BY DEF OpToRel
  <1>3. \A m \in T : ~(m < n) /\ m \in Nat /\ n \in Nat
    BY <1>1, <1>2, Zenon
  <1>4. \A m \in T : n <= m
    BY <1>3
  <1> QED BY <1>4

LEMMA MinIs ==
  ASSUME NEW T, T \subseteq Nat, T # {}
  PROVE  Min(T) \in T /\ Min(T) \in Nat /\ \A m \in T : Min(T) <= m
  <1>1. PICK n \in T : \A m \in T : n <= m
    BY LeastNumber
  <1>2. Min(T) \in T /\ \A m \in T : Min(T) <= m
    BY <1>1 DEF Min
  <1> QED BY <1>2

Bounded(T) == \E b \in Nat : \A m \in T : m <= b

LEMMA MaxIs ==
  ASSUME NEW T, T \subseteq Nat, T # {}, Bounded(T)
  PROVE  Max(T) \in T /\ Max(T) \in Nat /\ \A m \in T : m <= Max(T)
  <1> DEFINE U == {b \in Nat : \A m \in T : m <= b}
  <1>1. U \subseteq Nat /\ U # {}
    BY DEF Bounded
  <1>2. PICK b \in U : \A c \in U : b <= c
    <2> HIDE DEF U
    <2> QED BY <1>1, LeastNumber
  <1>3. PICK n \in T : TRUE
    OBVIOUS
  <1>4. b \in T
    <2>1. SUFFICES ASSUME b \notin T PROVE FALSE
      OBVIOUS
    <2>2. \A m \in T : m \in Nat /\ m <= b /\ m # b
      BY <2>1, <1>2
    <2>3. b \in Nat /\ b - 1 \in Nat /\ \A m \in T : m <= b - 1
      BY <2>2, <1>2, <1>3
    <2>4. b - 1 \in U
      BY <2>3
    <2> QED BY <2>3, <2>4, <1>2
  <1>5. \A m \in T : b >= m
    BY <1>2
  <1>6. Max(T) \in T /\ \A m \in T : Max(T) >= m
    BY <1>4, <1>5 DEF Max
  <1> QED BY <1>6

(* The values of a list are bounded.                                       *)
LEMMA ListBounded ==
  ASSUME NEW n \in Nat, NEW f, \A i \in 1..n : f[i] \in Nat
  PROVE  \E b \in Nat : \A i \in 1..n : f[i] <= b
  <1> DEFINE Fits(m) == \E b \in Nat : \A i \in 1..m : f[i] <= b
             Bad == {m \in 0..n : ~Fits(m)}
  <1>1. SUFFICES ASSUME ~Fits(n) PROVE FALSE
    OBVIOUS
  <1>2. Bad \subseteq Nat /\ n \in Bad
    BY <1>1
  <1>3. PICK m \in Bad : \A k \in Bad : m <= k
    <2> HIDE DEF Bad
    <2> QED BY <1>2, LeastNumber
  <1>4. m # 0
    <2>1. Fits(0)
      OBVIOUS
    <2> QED BY <2>1
  <1>5. m - 1 \in 0..n /\ m - 1 \notin Bad
    <2>1. m \in 0..n
      BY <1>3
    <2>2. m - 1 \in 0..n /\ ~(m <= m - 1)
      BY <2>1, <1>4
    <2> HIDE DEF Bad
    <2> QED BY <2>2, <1>3
  <1>6. PICK b \in Nat : \A i \in 1..(m - 1) : f[i] <= b
    BY <1>5
  <1>7. m \in 1..n /\ f[m] \in Nat
    BY <1>4
  <1>8. \A i \in 1..m : f[i] <= b + f[m]
    <2>1. ASSUME NEW i \in 1..m PROVE f[i] <= b + f[m]
      <3>1. CASE i = m
        BY <3>1, <1>7
      <3>2. CASE i # m
        BY <3>2, <1>6, <1>7
      <3> QED BY <3>1, <3>2
    <2> QED BY <2>1
  <1>9. Fits(m)
    BY <1>7, <1>8
  <1> QED BY <1>9

----------------------------------------------------------------------------
(* Options and what they come to.                                          *)

LEMMA FormType ==
  ASSUME form \in Forms
  PROVE  form.initiator \in Party /\ form.requested \in Nat /\ form.percent \in 0..100
  BY FormsAssumption DEF Party

LEMMA ElementType ==
  ASSUME NEW T, NEW list \in Seq(T)
  PROVE  \A i \in DOMAIN list : list[i] \in T
  OBVIOUS

LEMMA PercentOfType ==
  ASSUME NEW amount \in Nat, NEW percent \in Nat
  PROVE  PercentOf(amount, percent) \in Nat
  <1>1. amount * percent \in Nat
    OBVIOUS
  <1>2. \A n \in Nat : Round(n, 100) \in Nat
    BY DEF Round
  <1> QED BY <1>1, <1>2 DEF PercentOf

LEMMA EffectiveType ==
  ASSUME form \in Forms, NEW option \in OptionType
  PROVE  Effective(option) \in Nat
  <1>1. option.rub \in Nat \cup {NoAmount} /\ option.percent \in (0..100) \cup {NoAmount}
    BY DEF OptionType
  <1>2. form.requested \in Nat
    BY FormType
  <1>3. ASSUME NEW n \in 0..100 PROVE PercentOf(form.requested, n) \in Nat
    <2>1. n \in Nat
      OBVIOUS
    <2> QED BY <1>2, <2>1, PercentOfType
  <1> QED BY <1>1, <1>3 DEF Effective

LEMMA PositiveType ==
  ASSUME form \in Forms, NEW list \in Seq(OptionType)
  PROVE  Positive(list) \subseteq Nat \ {0} /\ Bounded(Positive(list))
  <1> DEFINE f == [i \in DOMAIN list |-> Effective(list[i])]
  <1>1. \A i \in DOMAIN list : Effective(list[i]) \in Nat
    BY EffectiveType
  <1>2. Len(list) \in Nat /\ DOMAIN list = 1..Len(list)
    OBVIOUS
  <1>3. \E b \in Nat : \A i \in 1..Len(list) : f[i] <= b
    <2>1. \A i \in 1..Len(list) : f[i] \in Nat
      BY <1>1, <1>2
    <2> HIDE DEF f
    <2> QED BY <2>1, <1>2, ListBounded
  <1>4. Bounded(Positive(list))
    BY <1>2, <1>3 DEF Bounded, Positive
  <1> QED BY <1>1, <1>4 DEF Positive

LEMMA RubsType ==
  ASSUME NEW list \in Seq(OptionType)
  PROVE  Rubs(list) \subseteq Nat /\ Bounded(Rubs(list))
  <1> DEFINE f == [i \in DOMAIN list |-> IF list[i].rub = NoAmount THEN 0 ELSE list[i].rub]
  <1>1. \A i \in DOMAIN list : list[i].rub \in Nat \cup {NoAmount}
    <2>1. \A i \in DOMAIN list : list[i] \in OptionType
      OBVIOUS
    <2> QED BY <2>1 DEF OptionType
  <1>2. Len(list) \in Nat /\ DOMAIN list = 1..Len(list)
    OBVIOUS
  <1>3. \E b \in Nat : \A i \in 1..Len(list) : f[i] <= b
    <2>1. \A i \in 1..Len(list) : f[i] \in Nat
      BY <1>1, <1>2
    <2> HIDE DEF f
    <2> QED BY <2>1, <1>2, ListBounded
  <1>4. Bounded(Rubs(list))
    BY <1>2, <1>3 DEF Bounded, Rubs
  <1> QED BY <1>1, <1>4 DEF Rubs

(* An id leads to the first option that has it.                            *)
LEMMA FindIs ==
  ASSUME NEW list \in Seq(OptionType), NEW id \in Ids(list)
  PROVE  \E k \in DOMAIN list :
           /\ Find(list, id) = list[k] /\ list[k].id = id
           /\ \A j \in DOMAIN list : list[j].id = id => k <= j
  <1> DEFINE T == {i \in DOMAIN list : list[i].id = id}
  <1>1. T \subseteq Nat /\ T # {}
    BY DEF Ids
  <1>2. Min(T) \in T /\ \A m \in T : Min(T) <= m
    <2> HIDE DEF T
    <2> QED BY <1>1, MinIs
  <1> QED BY <1>2 DEF Find

LEMMA FindType ==
  ASSUME NEW list \in Seq(OptionType), NEW id \in Ids(list)
  PROVE  Find(list, id) \in OptionType /\ Find(list, id).id = id
  BY FindIs

LEMMA FindLastIs ==
  ASSUME NEW list \in Seq(OptionType), NEW id \in Ids(list)
  PROVE  /\ FindLast(list, id) \in OptionType
         /\ \E k \in DOMAIN list : FindLast(list, id) = list[k] /\ list[k].id = id
  <1> DEFINE T == {i \in DOMAIN list : list[i].id = id}
  <1>1. T \subseteq Nat /\ T # {}
    BY DEF Ids
  <1>2. Bounded(T)
    <2>1. Len(list) \in Nat /\ \A m \in T : m <= Len(list)
      OBVIOUS
    <2> QED BY <2>1 DEF Bounded
  <1>3. Max(T) \in T
    <2> HIDE DEF T
    <2> QED BY <1>1, <1>2, MaxIs
  <1>4. FindLast(list, id) = list[Max(T)]
    BY DEF FindLast
  <1> QED BY <1>3, <1>4, ElementType

LEMMA FaceType ==
  ASSUME NEW id \in {"opt", "r1", "r2", "auto"} \X (1..6), NEW rub \in Nat,
         NEW lean \in {"initiator_favor", "counterparty_favor", "compromise"}
  PROVE  /\ Option(id, lean, rub) \in OptionType
         /\ Option(id, lean, rub).id = id /\ Option(id, lean, rub).rub = rub
         /\ Option(id, lean, rub).lean = lean
  BY DEF Option, OptionType, ToSet, Leans, NoAmount

----------------------------------------------------------------------------
(* What is offered when the model has no answer.                           *)

AnyId == {"opt", "r1", "r2", "auto"} \X (1..6)

(* What a model turn finds: its round, and if this is the second one,      *)
(* options of the first with a vote of either side.                        *)
Proposing ==
  /\ form \in Forms /\ round \in 1..2
  /\ offered \in [1..2 -> Seq(OptionType)]
  /\ round = 2 => \A p \in Party : votes[1][p].ids[1] \in Ids(offered[1])

(* Round 1 offered 0 and 1 rouble and nothing else.                        *)
Corner == round = 2 /\ Rubs(offered[1]) = {0, 1}

LEMMA HalfType ==
  ASSUME NEW a \in Nat, NEW b \in Nat
  PROVE  /\ Round(a + b, 2) \in Nat
         /\ a <= b => a <= Round(a + b, 2) /\ Round(a + b, 2) <= b
         /\ Round(a + b, 2) = 0 => a + b <= 1
  BY DEF Round

LEMMA FifthType ==
  ASSUME NEW n \in Nat
  PROVE  Round(n, 5) \in Nat
  BY DEF Round

TrioFits(trio, origin, high, low, middle) ==
  /\ trio \in Seq(OptionType) /\ Len(trio) = 3 /\ DOMAIN trio = 1..3
  /\ \A i \in 1..3 : /\ trio[i].id = <<origin, i>> /\ trio[i].lean = Leans[i]
                     /\ trio[i].percent = NoAmount
  /\ trio[1].rub = high /\ trio[2].rub = low /\ trio[3].rub = middle

LEMMA TrioType ==
  ASSUME NEW origin \in {"r1", "r2"},
         NEW high \in Nat, NEW low \in Nat, NEW middle \in Nat
  PROVE  TrioFits(Trio(origin, high, low, middle), origin, high, low, middle)
  <1> DEFINE a == Option(<<origin, 1>>, "initiator_favor", high)
             b == Option(<<origin, 2>>, "counterparty_favor", low)
             c == Option(<<origin, 3>>, "compromise", middle)
  <1>1. a \in OptionType /\ b \in OptionType /\ c \in OptionType
    BY FaceType
  <1>2. /\ a.id = <<origin, 1>> /\ b.id = <<origin, 2>> /\ c.id = <<origin, 3>>
        /\ a.rub = high /\ b.rub = low /\ c.rub = middle
        /\ a.lean = "initiator_favor" /\ b.lean = "counterparty_favor"
        /\ c.lean = "compromise"
        /\ a.percent = NoAmount /\ b.percent = NoAmount /\ c.percent = NoAmount
    BY DEF Option
  <1>3. Trio(origin, high, low, middle) = <<a, b, c>>
    BY DEF Trio
  <1> HIDE DEF a, b, c
  <1>4. /\ <<a, b, c>> \in Seq(OptionType) /\ Len(<<a, b, c>>) = 3
        /\ DOMAIN <<a, b, c>> = 1..3
    BY <1>1
  <1>5. \A i \in 1..3 : i = 1 \/ i = 2 \/ i = 3
    OBVIOUS
  <1>6. Leans[1] = "initiator_favor" /\ Leans[2] = "counterparty_favor"
        /\ Leans[3] = "compromise"
    BY DEF Leans
  <1> QED BY <1>2, <1>3, <1>4, <1>5, <1>6 DEF TrioFits

LEMMA Fallback1Type ==
  ASSUME Proposing, round = 1
  PROVE  \E high \in Nat, low \in Nat, middle \in Nat :
           /\ Fallback = Trio("r1", high, low, middle)
           /\ high > 0
  <1> DEFINE order == IF form.requested = 0 THEN 100 ELSE form.requested
             acceptable == PercentOf(order, form.percent)
  <1>1. order \in Nat /\ order > 0 /\ form.percent \in Nat
    <2>1. form.requested \in Nat /\ form.percent \in 0..100
      BY FormType DEF Proposing
    <2> QED BY <2>1
  <1>2. acceptable \in Nat
    BY <1>1, PercentOfType
  <1>3. Round(order + acceptable, 2) \in Nat
    BY <1>1, <1>2, HalfType
  <1>4. Fallback = Trio("r1", order, acceptable, Round(order + acceptable, 2))
    BY DEF Fallback, FallbackRound1
  <1> QED BY <1>1, <1>2, <1>3, <1>4

LEMMA Fallback2Type ==
  ASSUME Proposing, round = 2
  PROVE  \E high \in Nat, low \in Nat, middle \in Nat :
           /\ Fallback = Trio("r2", high, low, middle)
           /\ middle = 0 => /\ low = 0 /\ Rubs(offered[1]) # {}
                            /\ high = 0 \/ (high = 1 /\ Corner)
           /\ Rubs(offered[1]) # {} =>
                middle = Round(Min(Rubs(offered[1])) + Max(Rubs(offered[1])), 2)
  <1> DEFINE rubs == Rubs(offered[1])
             low == IF rubs = {} THEN 0 ELSE Min(rubs)
             high == IF rubs = {} THEN 100 ELSE Max(rubs)
             middle == Round(low + high, 2)
             up == Round(5 * middle + 3 * (high - middle), 5)
             down == Round(5 * middle - 3 * (middle - low), 5)
  <1>1. rubs \subseteq Nat /\ Bounded(rubs)
    BY RubsType DEF Proposing
  <1>2. /\ low \in Nat /\ high \in Nat /\ low <= high
        /\ rubs # {} => low \in rubs /\ high \in rubs
        /\ rubs # {} => \A m \in rubs : low <= m /\ m <= high
    <2>1. CASE rubs = {}
      BY <2>1
    <2>2. CASE rubs # {}
      <3> HIDE DEF rubs
      <3> QED BY <1>1, <2>2, MinIs, MaxIs
    <2> QED BY <2>1, <2>2
  <1>3. Fallback = Trio("r2", up, down, middle)
    BY DEF Fallback, FallbackRound2
  <1>4. rubs # {} => middle = Round(Min(rubs) + Max(rubs), 2)
    OBVIOUS
  <1>5. rubs = {} => middle = 50
    BY DEF Round
  <1>6. middle \in Nat /\ low <= middle /\ middle <= high /\ (middle = 0 => low + high <= 1)
    <2> HIDE DEF low, high
    <2> QED BY <1>2, HalfType
  <1>7. up \in Nat /\ down \in Nat
    <2>1. 5 * middle + 3 * (high - middle) \in Nat /\ 5 * middle - 3 * (middle - low) \in Nat
      <3> HIDE DEF low, high, middle
      <3> QED BY <1>2, <1>6
    <2> HIDE DEF low, high, middle
    <2> QED BY <2>1, FifthType
  <1>8. middle = 0 => down = 0 /\ (up = 0 \/ (up = 1 /\ Corner)) /\ rubs # {}
    <2> SUFFICES ASSUME middle = 0
                 PROVE  down = 0 /\ (up = 0 \/ (up = 1 /\ Corner)) /\ rubs # {}
      OBVIOUS
    <2>1. rubs # {} /\ low = 0 /\ (high = 0 \/ high = 1)
      <3> HIDE DEF low, high, middle, rubs
      <3> QED BY <1>2, <1>5, <1>6
    <2>2. down = 0 /\ (high = 0 => up = 0) /\ (high = 1 => up = 1)
      <3>1. /\ down = Round(5 * 0 - 3 * (0 - 0), 5)
            /\ high = 0 => up = Round(5 * 0 + 3 * (0 - 0), 5)
            /\ high = 1 => up = Round(5 * 0 + 3 * (1 - 0), 5)
        BY <2>1
      <3> HIDE DEF down, up
      <3> QED BY <3>1 DEF Round
    <2>3. ASSUME high = 1 PROVE rubs = {0, 1}
      <3>1. 0 \in rubs /\ 1 \in rubs /\ \A m \in rubs : 0 <= m /\ m <= 1 /\ m \in Nat
        BY <1>1, <1>2, <2>1, <2>3
      <3> HIDE DEF rubs
      <3>2. \A m \in rubs : m = 0 \/ m = 1
        BY <3>1
      <3> QED BY <3>1, <3>2
    <2> QED BY <2>1, <2>2, <2>3 DEF Corner
  <1> HIDE DEF up, down, middle
  <1> QED BY <1>3, <1>4, <1>6, <1>7, <1>8

----------------------------------------------------------------------------
(* What becomes of the options of a model turn.                            *)

(* Squeezed amounts are not negative, and only amounts change.             *)
LEMMA MaxZero ==
  ASSUME NEW n \in Int
  PROVE  Max({0, n}) = (IF n > 0 THEN n ELSE 0) /\ Max({0, n}) \in Nat
  BY DEF Max

LEMMA MaxTwo ==
  ASSUME NEW m \in Int, NEW n \in Int
  PROVE  /\ Max({m, n}) = (IF m > n THEN m ELSE n)
         /\ Min({m, n}) = (IF m < n THEN m ELSE n)
  BY DEF Max, Min

LEMMA TenthType ==
  ASSUME NEW rub \in Nat
  PROVE  Tenth(rub) \in Nat
  <1>1. Max({rub, 1}) \in Nat
    BY MaxTwo
  <1>2. Round(Max({rub, 1}), 10) \in Nat
    BY <1>1, RoundTens
  <1>3. Max({1, Round(Max({rub, 1}), 10)}) \in Nat
    BY <1>2, MaxTwo
  <1> QED BY <1>3 DEF Tenth

LEMMA GiveWayType ==
  ASSUME NEW p \in Party, NEW rub \in Int, NEW liked \in Nat, NEW middle \in Nat
  PROVE  GiveWay(p, rub, liked, middle) \in Int
  <1>1. Tenth(liked) \in Nat
    BY TenthType
  <1>2. Max({0, liked - Tenth(liked)}) \in Int
    BY <1>1, MaxZero
  <1>3. Min({rub, Max({0, liked - Tenth(liked)})}) \in Int
    BY <1>2, MaxTwo
  <1>4. Min({liked + Tenth(liked), middle}) \in Int
    BY <1>1, MaxTwo
  <1>5. Max({rub, Min({liked + Tenth(liked), middle})}) \in Int
    BY <1>4, MaxTwo
  <1> QED BY <1>3, <1>5 DEF GiveWay

LEMMA CompromisedType ==
  ASSUME Proposing, round = 2, NEW option \in OptionType
  PROVE  /\ Compromised(option) \in OptionType
         /\ Compromised(option).id = option.id /\ Compromised(option).lean = option.lean
         /\ Compromised(option).percent = option.percent
         /\ Rubs(offered[1]) = {} \/ option.rub = NoAmount => Compromised(option) = option
         /\ option.rub # NoAmount => Compromised(option).rub \in Nat
         /\ option.lean = "compromise" /\ option.rub # NoAmount /\ Rubs(offered[1]) # {} =>
              Compromised(option).rub
                = Round(Min(Rubs(offered[1])) + Max(Rubs(offered[1])), 2)
  <1> DEFINE rubs == Rubs(offered[1])
             middle == Round(Min(rubs) + Max(rubs), 2)
             p == Favoured(option.lean)
             liked == Find(offered[1], votes[1][p].ids[1]).rub
             squeezed == Squeeze(option.rub, middle)
             moved == CASE option.lean = "compromise" -> middle
                        [] option.lean # "compromise" /\ liked = NoAmount -> squeezed
                        [] OTHER -> GiveWay(p, squeezed, liked, middle)
  <1>1. Compromised(option)
          = IF rubs = {} \/ option.rub = NoAmount THEN option
            ELSE [option EXCEPT !.rub = Max({0, moved})]
    BY DEF Compromised
  <1>2. CASE rubs = {} \/ option.rub = NoAmount
    <2>1. option.rub \in Nat \cup {NoAmount}
      BY DEF OptionType
    <2>2. Compromised(option) = option
      BY <1>1, <1>2
    <2> QED BY <1>2, <2>1, <2>2
  <1>3. CASE rubs # {} /\ option.rub # NoAmount
    <2>1. option.rub \in Nat
      BY <1>3 DEF OptionType
    <2>2. middle \in Nat
      <3>1. rubs \subseteq Nat /\ Bounded(rubs)
        BY RubsType DEF Proposing
      <3>2. Min(rubs) \in Nat /\ Max(rubs) \in Nat
        <4> HIDE DEF rubs
        <4> QED BY <1>3, <3>1, MinIs, MaxIs
      <3> QED BY <3>2, HalfType
    <2>3. p \in Party
      BY FormType DEF Proposing, Favoured, Other, Party
    <2>4. liked \in Nat \cup {NoAmount}
      <3>1. votes[1][p].ids[1] \in Ids(offered[1]) /\ offered[1] \in Seq(OptionType)
        BY <2>3 DEF Proposing
      <3>2. Find(offered[1], votes[1][p].ids[1]) \in OptionType
        BY <3>1, FindType
      <3> QED BY <3>2 DEF OptionType
    <2>5. squeezed \in Int
      <3> HIDE DEF middle
      <3> QED BY <2>1, <2>2 DEF Squeeze, Round
    <2>6. moved \in Int
      <3> HIDE DEF middle, p, liked, squeezed
      <3>1. liked \in Nat => GiveWay(p, squeezed, liked, middle) \in Int
        BY <2>2, <2>3, <2>5, GiveWayType
      <3> QED BY <2>2, <2>4, <2>5, <3>1
    <2>7. Max({0, moved}) \in Nat /\ Max({0, moved}) = IF moved > 0 THEN moved ELSE 0
      <3> HIDE DEF moved
      <3> QED BY <2>6, MaxZero
    <2>8. option.lean = "compromise" => moved = middle
      OBVIOUS
    <2>9. option.lean = "compromise" => Max({0, moved}) = middle
      <3> HIDE DEF moved, middle
      <3> QED BY <2>2, <2>7, <2>8
    <2> HIDE DEF moved, rubs, middle
    <2>10. Compromised(option) = [option EXCEPT !.rub = Max({0, moved})]
      BY <1>1, <1>3
    <2>11. /\ Compromised(option).rub = Max({0, moved})
           /\ Compromised(option).id = option.id /\ Compromised(option).lean = option.lean
           /\ Compromised(option).percent = option.percent
           /\ Compromised(option) \in OptionType
      BY <2>7, <2>10 DEF OptionType
    <2> QED BY <1>3, <2>7, <2>9, <2>11 DEF rubs, middle
  <1> QED BY <1>2, <1>3

LEMMA CloserType ==
  ASSUME Proposing, NEW list \in Seq(OptionType)
  PROVE  /\ Closer(list) \in Seq(OptionType) /\ Len(Closer(list)) = Len(list)
         /\ \A i \in 1..Len(list) :
              /\ Closer(list)[i].id = list[i].id /\ Closer(list)[i].lean = list[i].lean
              /\ round = 1 => Closer(list)[i] = list[i]
              /\ round = 2 => Closer(list)[i] = Compromised(list[i])
  <1>1. CASE round = 1
    <2>1. Closer(list) = list
      BY <1>1 DEF Closer
    <2> QED BY <1>1, <2>1
  <1>2. CASE round = 2
    <2>1. Closer(list) = [i \in 1..Len(list) |-> Compromised(list[i])]
      BY <1>2 DEF Closer
    <2>2. \A i \in 1..Len(list) : list[i] \in OptionType
      OBVIOUS
    <2>3. \A i \in 1..Len(list) :
            /\ Compromised(list[i]) \in OptionType
            /\ Compromised(list[i]).id = list[i].id
            /\ Compromised(list[i]).lean = list[i].lean
      BY <1>2, <2>2, CompromisedType
    <2>4. Len(list) \in Nat
      OBVIOUS
    <2>5. [i \in 1..Len(list) |-> Compromised(list[i])] \in Seq(OptionType)
      BY <2>3, <2>4
    <2> QED BY <1>2, <2>1, <2>3, <2>4, <2>5
  <1> QED BY <1>1, <1>2 DEF Proposing

(* No two options have one id, but for the corner: there the first option  *)
(* is worth nothing and comes a second time with the amount of before.     *)
Unique(list) == \A i, j \in DOMAIN list : list[i].id = list[j].id => i = j

(* In the corner every other amount is 0 or a step at least.               *)
Steep(list) ==
  \A i \in DOMAIN list : \/ list[i].rub = 0 \/ list[i].rub >= 50
                         \/ list[i].rub = 1 /\ list[i].id = list[1].id

Sound(list) ==
  \A i, j \in DOMAIN list : i < j /\ list[i].id = list[j].id =>
    /\ Corner /\ i = 1 /\ list[1].lean = "initiator_favor" /\ list[1].rub = 0
    /\ list[j].rub = 1 /\ Steep(list)

(* Ids made for added options are their positions.                         *)
Numbered(list) == \A i \in DOMAIN list : list[i].id[1] = "auto" => list[i].id[2] = i
NoAuto(list) == \A i \in DOMAIN list : list[i].id[1] # "auto"

LEMMA UniqueIsSound ==
  ASSUME NEW list \in Seq(OptionType), Unique(list)
  PROVE  Sound(list)
  <1>1. \A i \in DOMAIN list : i \in Nat
    OBVIOUS
  <1> QED BY <1>1 DEF Unique, Sound

LEMMA AppendIs ==
  ASSUME NEW T, NEW list \in Seq(T), NEW o \in T
  PROVE  /\ Append(list, o) \in Seq(T) /\ Len(Append(list, o)) = Len(list) + 1
         /\ DOMAIN Append(list, o) = 1..(Len(list) + 1) /\ DOMAIN list = 1..Len(list)
         /\ Len(list) \in Nat
         /\ \A i \in 1..Len(list) : Append(list, o)[i] = list[i]
         /\ Append(list, o)[Len(list) + 1] = o
  OBVIOUS

LEMMA AddNewIs ==
  ASSUME NEW list \in Seq(OptionType), NEW o \in OptionType, o \notin ToSet(list)
  PROVE  /\ AddNew(list, o) \in Seq(OptionType)
         /\ Len(AddNew(list, o)) = Len(list) + 1
         /\ DOMAIN AddNew(list, o) = 1..(Len(list) + 1)
         /\ \A i \in 1..Len(list) : AddNew(list, o)[i] = list[i]
         /\ AddNew(list, o)[Len(list) + 1] = o
  <1>1. AddNew(list, o) = Append(list, o)
    BY DEF AddNew
  <1> QED BY <1>1, AppendIs

LEMMA AddFresh ==
  ASSUME NEW list \in Seq(OptionType), NEW o \in OptionType,
         Unique(list), NoAuto(list), o.id \notin Ids(list), o.id[1] # "auto"
  PROVE  /\ AddNew(list, o) \in Seq(OptionType)
         /\ Unique(AddNew(list, o)) /\ NoAuto(AddNew(list, o))
         /\ Ids(AddNew(list, o)) = Ids(list) \cup {o.id}
         /\ Len(AddNew(list, o)) >= Len(list)
  <1>1. o \notin ToSet(list)
    BY DEF ToSet, Ids
  <1> DEFINE more == Append(list, o)
  <1>2. AddNew(list, o) = more
    BY <1>1 DEF AddNew
  <1>3. /\ more \in Seq(OptionType) /\ Len(more) = Len(list) + 1
        /\ DOMAIN more = 1..(Len(list) + 1) /\ DOMAIN list = 1..Len(list)
        /\ Len(list) \in Nat
        /\ \A i \in 1..Len(list) : more[i] = list[i]
        /\ more[Len(list) + 1] = o
    BY AppendIs
  <1> HIDE DEF more
  <1>4. \A i \in DOMAIN more : i \in DOMAIN list \/ i = Len(list) + 1
    BY <1>3
  <1>5. Unique(more) /\ NoAuto(more)
    <2>1. ASSUME NEW i \in DOMAIN more, NEW j \in DOMAIN more, more[i].id = more[j].id
          PROVE  i = j
      <3>1. CASE i \in DOMAIN list /\ j \in DOMAIN list
        BY <1>3, <2>1, <3>1 DEF Unique
      <3>2. CASE i \in DOMAIN list /\ j = Len(list) + 1
        BY <1>3, <2>1, <3>2 DEF Ids
      <3>3. CASE i = Len(list) + 1 /\ j \in DOMAIN list
        BY <1>3, <2>1, <3>3 DEF Ids
      <3> QED BY <1>4, <3>1, <3>2, <3>3
    <2>2. NoAuto(more)
      BY <1>3, <1>4 DEF NoAuto
    <2> QED BY <2>1, <2>2 DEF Unique
  <1>6. Ids(more) = Ids(list) \cup {o.id}
    <2>1. Ids(more) \subseteq Ids(list) \cup {o.id}
      BY <1>3, <1>4 DEF Ids
    <2>2. o.id \in Ids(more) /\ Ids(list) \subseteq Ids(more)
      <3>1. Len(list) + 1 \in DOMAIN more /\ \A i \in DOMAIN list : i \in DOMAIN more
        BY <1>3
      <3> QED BY <1>3, <3>1 DEF Ids
    <2> QED BY <2>1, <2>2
  <1> QED BY <1>2, <1>3, <1>5, <1>6

(* What _expand_options_to_target is given: three to five options, of the  *)
(* model or of the fallback.                                               *)
FromFallback(list) ==
  /\ Len(list) = 3
  /\ \A i \in 1..3 :
       /\ list[i].id = Fallback[i].id /\ list[i].lean = Fallback[i].lean
       /\ round = 1 => list[i] = Fallback[i]
       /\ round = 2 => list[i] = Compromised(Fallback[i])

Given(list) ==
  /\ list \in Seq(OptionType) /\ Len(list) \in 3..5
  /\ Unique(list) /\ NoAuto(list)
  /\ \/ \A i \in DOMAIN list : list[i].id[1] = "opt"
     \/ FromFallback(list)

LEMMA GivenType ==
  ASSUME NEW list, Given(list)
  PROVE  /\ list \in Seq(OptionType) /\ Unique(list) /\ NoAuto(list)
         /\ Len(list) \in Nat /\ Len(list) >= 3
  <1>1. list \in Seq(OptionType) /\ Unique(list) /\ NoAuto(list)
    BY DEF Given
  <1>2. Len(list) \in Nat /\ Len(list) >= 3
    <2>1. Len(list) \in 3..5
      BY DEF Given
    <2>2. \A n \in 3..5 : n \in Nat /\ n >= 3
      OBVIOUS
    <2> QED BY <2>1, <2>2, Zenon
  <1> QED BY <1>1, <1>2, Zenon

LEMMA FallbackType ==
  ASSUME Proposing
  PROVE  /\ Fallback \in Seq(OptionType) /\ Len(Fallback) = 3
         /\ \A i \in 1..3 : /\ Fallback[i] \in OptionType
                            /\ Fallback[i].id[1] \in {"r1", "r2"} /\ Fallback[i].id[2] = i
                            /\ Fallback[i].rub \in Nat /\ Fallback[i].lean = Leans[i]
  <1>1. PICK origin \in {"r1", "r2"}, high \in Nat, low \in Nat, middle \in Nat :
          Fallback = Trio(origin, high, low, middle)
    <2>1. CASE round = 1
      BY <2>1, Fallback1Type
    <2>2. CASE round = 2
      BY <2>2, Fallback2Type
    <2> QED BY <2>1, <2>2 DEF Proposing
  <1>2. /\ Fallback \in Seq(OptionType) /\ Len(Fallback) = 3 /\ DOMAIN Fallback = 1..3
        /\ \A i \in 1..3 : /\ Fallback[i].id = <<origin, i>>
                           /\ Fallback[i].lean = Leans[i]
        /\ Fallback[1].rub = high /\ Fallback[2].rub = low /\ Fallback[3].rub = middle
    <2>1. TrioFits(Fallback, origin, high, low, middle)
      BY <1>1, TrioType
    <2> QED BY <2>1 DEF TrioFits
  <1>3. \A i \in 1..3 : /\ Fallback[i].id[1] = origin /\ Fallback[i].id[2] = i
                        /\ Fallback[i].rub \in Nat
    <2>1. \A i \in 1..3 : i = 1 \/ i = 2 \/ i = 3
      OBVIOUS
    <2> QED BY <1>2, <2>1
  <1>4. \A i \in 1..3 : Fallback[i] \in OptionType
    <2>1. \A i \in DOMAIN Fallback : Fallback[i] \in OptionType
      BY <1>2, ElementType
    <2> QED BY <1>2, <2>1
  <1> QED BY <1>2, <1>3, <1>4

(* The fallback behind options of the model.                               *)
LEMMA FallbackBehind ==
  ASSUME Proposing, NEW list, Given(list),
         \A i \in DOMAIN list : list[i].id[1] = "opt"
  PROVE  /\ WithFallback(list) \in Seq(OptionType) /\ Len(WithFallback(list)) >= 3
         /\ Sound(WithFallback(list)) /\ NoAuto(WithFallback(list))
  <1> DEFINE f == Fallback
             a == AddNew(list, f[1])
             b == AddNew(a, f[2])
             c == AddNew(b, f[3])
  <1>1. /\ \A i \in 1..3 : f[i] \in OptionType /\ f[i].id[1] \in {"r1", "r2"}
                           /\ f[i].id[2] = i
    BY FallbackType
  <1>2. WithFallback(list) = c
    BY DEF WithFallback
  <1> HIDE DEF f
  <1>3. /\ list \in Seq(OptionType) /\ Unique(list) /\ NoAuto(list)
        /\ Len(list) \in Nat /\ Len(list) >= 3
        /\ f[1].id \notin Ids(list) /\ f[2].id \notin Ids(list) /\ f[3].id \notin Ids(list)
    <2>1. /\ list \in Seq(OptionType) /\ Unique(list) /\ NoAuto(list)
          /\ Len(list) \in Nat /\ Len(list) >= 3
      BY GivenType, Zenon
    <2>2. \A i \in 1..3 : f[i].id[1] # "opt"
      BY <1>1
    <2>3. \A i \in 1..3 : f[i].id \notin Ids(list)
      BY <2>2 DEF Ids
    <2> QED BY <2>1, <2>3
  <1>4. f[1].id # f[2].id /\ f[1].id # f[3].id /\ f[2].id # f[3].id
    BY <1>1
  <1>5. /\ a \in Seq(OptionType) /\ Unique(a) /\ NoAuto(a)
        /\ Ids(a) = Ids(list) \cup {f[1].id} /\ Len(a) >= Len(list)
    <2>1. f[1] \in OptionType /\ f[1].id[1] # "auto"
      BY <1>1
    <2> QED BY <1>3, <2>1, AddFresh
  <1> HIDE DEF a
  <1>6. /\ b \in Seq(OptionType) /\ Unique(b) /\ NoAuto(b)
        /\ Ids(b) = Ids(a) \cup {f[2].id} /\ Len(b) >= Len(a)
    <2>1. f[2] \in OptionType /\ f[2].id[1] # "auto" /\ f[2].id \notin Ids(a)
      BY <1>1, <1>3, <1>4, <1>5
    <2> QED BY <1>5, <2>1, AddFresh
  <1> HIDE DEF b
  <1>7. /\ c \in Seq(OptionType) /\ Unique(c) /\ NoAuto(c) /\ Len(c) >= Len(b)
    <2>1. f[3] \in OptionType /\ f[3].id[1] # "auto" /\ f[3].id \notin Ids(b)
      BY <1>1, <1>3, <1>4, <1>5, <1>6
    <2> QED BY <1>6, <2>1, AddFresh
  <1> HIDE DEF c
  <1>8. Len(c) >= 3
    <2>1. Len(a) \in Nat /\ Len(b) \in Nat /\ Len(c) \in Nat
      BY <1>5, <1>6, <1>7
    <2> QED BY <2>1, <1>3, <1>5, <1>6, <1>7
  <1> QED BY <1>2, <1>7, <1>8, UniqueIsSound

LEMMA SameOption ==
  ASSUME NEW a \in OptionType, NEW b \in OptionType,
         a.id = b.id, a.lean = b.lean, a.rub = b.rub, a.percent = b.percent
  PROVE  a = b
  BY DEF OptionType

(* The fallback behind itself: nothing changes, except in the corner.      *)
LEMMA FallbackTwice ==
  ASSUME Proposing, NEW list, Given(list), FromFallback(list), Positive(list) = {}
  PROVE  /\ WithFallback(list) \in Seq(OptionType) /\ Len(WithFallback(list)) >= 3
         /\ Sound(WithFallback(list)) /\ NoAuto(WithFallback(list))
  <1> DEFINE f == Fallback
  <1>1. /\ f \in Seq(OptionType) /\ Len(f) = 3
        /\ \A i \in 1..3 : /\ f[i] \in OptionType /\ f[i].rub \in Nat
                           /\ f[i].id[1] \in {"r1", "r2"} /\ f[i].id[2] = i
                           /\ f[i].lean = Leans[i]
    BY FallbackType
  <1>2. /\ list \in Seq(OptionType) /\ Len(list) = 3 /\ DOMAIN list = 1..3
        /\ \A i \in 1..3 : /\ list[i].id = f[i].id /\ list[i].lean = f[i].lean
                           /\ round = 1 => list[i] = f[i]
                           /\ round = 2 => list[i] = Compromised(f[i])
    <2>1. list \in Seq(OptionType) /\ Len(list) = 3
      BY DEF Given, FromFallback
    <2> QED BY <2>1 DEF FromFallback
  <1>3. WithFallback(list) = AddNew(AddNew(AddNew(list, f[1]), f[2]), f[3])
    BY DEF WithFallback
  <1>4. Unique(list) /\ NoAuto(list) /\ Sound(list)
    BY UniqueIsSound DEF Given
  <1> HIDE DEF f
  <1>5. \A i \in 1..3 : list[i] = f[i] => f[i] \in ToSet(list)
    BY <1>2 DEF ToSet
  <1>6. CASE list[1] = f[1] /\ list[2] = f[2] /\ list[3] = f[3]
    <2>1. AddNew(list, f[1]) = list /\ AddNew(list, f[2]) = list /\ AddNew(list, f[3]) = list
      BY <1>5, <1>6 DEF AddNew
    <2>2. WithFallback(list) = list
      BY <1>3, <2>1
    <2>3. Len(list) >= 3
      BY <1>2
    <2> QED BY <1>2, <1>4, <2>2, <2>3, Zenon
  <1>7. CASE ~(list[1] = f[1] /\ list[2] = f[2] /\ list[3] = f[3])
    <2>1. round = 2
      BY <1>2, <1>7 DEF Proposing
    <2>2. \A i \in 1..3 :
            /\ list[i] \in OptionType /\ list[i].rub \in Nat
            /\ list[i].percent = f[i].percent
      BY <1>1, <1>2, <2>1, CompromisedType DEF NoAmount
    <2>3. \A i \in 1..3 : list[i].rub = 0
      <3>1. ASSUME NEW i \in 1..3 PROVE list[i].rub = 0
        <4>1. Effective(list[i]) = list[i].rub
          BY <2>2 DEF Effective, NoAmount
        <4>2. Effective(list[i]) \in {Effective(list[k]) : k \in DOMAIN list}
          BY <1>2
        <4> QED BY <4>1, <4>2 DEF Positive
      <3> QED BY <3>1
    <2>4. Rubs(offered[1]) # {}
      BY <1>1, <1>2, <1>7, <2>1, CompromisedType
    <2>5. PICK high \in Nat, low \in Nat, middle \in Nat :
            /\ f = Trio("r2", high, low, middle)
            /\ middle = 0 => low = 0 /\ (high = 0 \/ (high = 1 /\ Corner))
            /\ middle = Round(Min(Rubs(offered[1])) + Max(Rubs(offered[1])), 2)
      BY <2>1, <2>4, Fallback2Type DEF f
    <2>6. f[1].rub = high /\ f[2].rub = low /\ f[3].rub = middle
      <3>1. TrioFits(f, "r2", high, low, middle)
        BY <2>5, TrioType
      <3> QED BY <3>1 DEF TrioFits
    <2>7. middle = 0
      <3>1. f[3].lean = "compromise" /\ f[3].rub # NoAmount /\ f[3] \in OptionType
        BY <1>1 DEF Leans, NoAmount
      <3>2. Compromised(f[3]).rub = middle
        BY <2>1, <2>4, <2>5, <3>1, CompromisedType
      <3> QED BY <1>2, <2>1, <2>3, <3>2
    <2>8. list[2] = f[2] /\ list[3] = f[3] /\ (high = 0 => list[1] = f[1])
      BY <1>1, <1>2, <2>2, <2>3, <2>5, <2>6, <2>7, SameOption
    <2>9. Corner /\ list[1] # f[1] /\ f[1].rub = 1
      BY <1>7, <2>5, <2>6, <2>7, <2>8
    <2> DEFINE more == AddNew(list, f[1])
    <2>10. f[1] \notin ToSet(list)
      BY <1>2, <2>3, <2>9 DEF ToSet
    <2>11. /\ more \in Seq(OptionType) /\ Len(more) = 4 /\ DOMAIN more = 1..4
           /\ \A i \in 1..3 : more[i] = list[i]
           /\ more[4] = f[1]
      <3>1. f[1] \in OptionType /\ list \in Seq(OptionType) /\ Len(list) = 3
        BY <1>1, <1>2
      <3>2. /\ more \in Seq(OptionType) /\ Len(more) = Len(list) + 1
            /\ DOMAIN more = 1..(Len(list) + 1)
            /\ \A i \in 1..Len(list) : more[i] = list[i]
            /\ more[Len(list) + 1] = f[1]
        BY <2>10, <3>1, AddNewIs
      <3> HIDE DEF more
      <3> QED BY <3>1, <3>2
    <2>12. AddNew(list, f[1]) = more
      OBVIOUS
    <2> HIDE DEF more
    <2>13. f[2] \in ToSet(more) /\ f[3] \in ToSet(more)
      BY <2>8, <2>11 DEF ToSet
    <2>14. WithFallback(list) = more
      BY <1>3, <2>12, <2>13 DEF AddNew
    <2>15. Sound(more)
      <3>1. ASSUME NEW i \in 1..4, NEW j \in 1..4, i < j, more[i].id = more[j].id
            PROVE  i = 1 /\ j = 4
        <4>1. CASE j = 4
          <5>1. i \in 1..3
            BY <3>1, <4>1
          <5>2. f[i].id = f[1].id
            BY <1>2, <2>11, <3>1, <4>1, <5>1
          <5> QED BY <1>1, <4>1, <5>1, <5>2
        <4>2. CASE j # 4
          <5>1. i \in 1..3 /\ j \in 1..3
            BY <3>1, <4>2
          <5> QED BY <1>2, <1>4, <2>11, <3>1, <5>1 DEF Unique
        <4> QED BY <4>1, <4>2
      <3>2. more[1].lean = "initiator_favor" /\ more[1].rub = 0
        BY <1>1, <1>2, <2>3, <2>11 DEF Leans
      <3>3. more[4].rub = 1
        BY <2>9, <2>11
      <3>4. Steep(more)
        <4>1. \A i \in 1..4 : i \in 1..3 \/ i = 4
          OBVIOUS
        <4> QED BY <1>2, <2>3, <2>9, <2>11, <4>1 DEF Steep
      <3> QED BY <2>9, <2>11, <3>1, <3>2, <3>3, <3>4 DEF Sound
    <2>16. NoAuto(more)
      <3>1. \A i \in 1..4 : i \in 1..3 \/ i = 4
        OBVIOUS
      <3> QED BY <1>1, <1>2, <1>4, <2>11, <3>1 DEF NoAuto
    <2>17. Len(more) >= 3
      BY <2>11
    <2> QED BY <2>11, <2>14, <2>15, <2>16, <2>17, Zenon
  <1> QED BY <1>6, <1>7

(* Steps of the loop that adds amounts.                                    *)
LEMMA StepType ==
  ASSUME NEW n \in Nat, NEW d \in 2..4
  PROVE  /\ Round(n, d) \in Nat /\ ToStep(Round(n, d)) \in Nat
         /\ ToStep(Round(n, d)) = 0 \/ ToStep(Round(n, d)) >= 50
  <1>1. Round(n, d) \in Nat
    <2>1. CASE d = 2
      BY <2>1 DEF Round
    <2>2. CASE d = 3
      BY <2>2 DEF Round
    <2>3. CASE d = 4
      BY <2>3 DEF Round
    <2> QED BY <2>1, <2>2, <2>3
  <1>2. \A m \in Nat : ToStep(m) \in Nat /\ (ToStep(m) = 0 \/ ToStep(m) >= 50)
    BY DEF ToStep, Round
  <1> QED BY <1>1, <1>2

Filling(acc, least) ==
  /\ acc.list \in Seq(OptionType) /\ Len(acc.list) >= least /\ Len(acc.list) \in Nat
  /\ Sound(acc.list) /\ Numbered(acc.list)

LEMMA AddAmountKeeps ==
  ASSUME NEW acc, NEW least \in Nat, Filling(acc, least), NEW i \in 0..4,
         NEW low \in Nat, NEW high \in Nat, low <= high, NEW target \in 3..5
  PROVE  Filling(AddAmount(acc, i, low, high, target), least)
  <1> DEFINE amount == ToStep(Round(low * (target - 1) + (high - low) * i, target - 1))
             new == Option(AutoId(acc.list), Graded(amount, low, high), amount)
             list == acc.list
             more == Append(list, new)
  <1>1. CASE AddAmount(acc, i, low, high, target) = acc
    BY <1>1
  <1>2. CASE AddAmount(acc, i, low, high, target) # acc
    <2>1. Len(list) < target
      <3>1. ~(Len(list) >= target)
        BY <1>2 DEF AddAmount
      <3> QED BY <3>1 DEF Filling
    <2>2. AddAmount(acc, i, low, high, target).list = more
      BY <1>2 DEF AddAmount
    <2>3. amount \in Nat /\ (amount = 0 \/ amount >= 50)
      <3>1. low * (target - 1) \in Nat
        OBVIOUS
      <3>2. (high - low) * i \in Nat
        <4>1. high - low \in Nat /\ i \in Nat
          OBVIOUS
        <4>2. \A m, n \in Nat : m * n \in Nat
          OBVIOUS
        <4> QED BY <4>1, <4>2
      <3>3. target - 1 \in 2..4
        OBVIOUS
      <3> DEFINE n == low * (target - 1) + (high - low) * i
                 d == target - 1
      <3>4. n \in Nat /\ d \in 2..4
        BY <3>1, <3>2, <3>3
      <3>5. amount = ToStep(Round(n, d))
        OBVIOUS
      <3> HIDE DEF n, d, amount
      <3> QED BY <3>4, <3>5, StepType
    <2>4. Graded(amount, low, high) \in {"initiator_favor", "counterparty_favor", "compromise"}
      BY DEF Graded
    <2>5. AutoId(list) = <<"auto", Len(list) + 1>> /\ AutoId(list) \in AnyId
      BY <2>1 DEF AutoId, AnyId, Filling
    <2>6. /\ new \in OptionType /\ new.id = AutoId(list)
          /\ new.rub = 0 \/ new.rub >= 50
      <3> HIDE DEF amount
      <3> QED BY <2>3, <2>4, <2>5, FaceType DEF AnyId
    <2> HIDE DEF new
    <2>7. /\ more \in Seq(OptionType) /\ Len(more) = Len(list) + 1
          /\ DOMAIN more = 1..(Len(list) + 1) /\ DOMAIN list = 1..Len(list)
          /\ Len(list) \in Nat
          /\ \A k \in 1..Len(list) : more[k] = list[k]
          /\ more[Len(list) + 1] = new
      BY <2>6, AppendIs DEF Filling
    <2> HIDE DEF more
    <2>8. new.id[1] = "auto" /\ new.id[2] = Len(list) + 1
      BY <2>5, <2>6
    <2>9. Numbered(more)
      <3>1. \A k \in DOMAIN more : k \in DOMAIN list \/ k = Len(list) + 1
        BY <2>7
      <3> QED BY <2>7, <2>8, <3>1 DEF Numbered, Filling
    <2>10. Sound(more)
      <3> SUFFICES ASSUME NEW j \in DOMAIN more, NEW k \in DOMAIN more,
                          j < k, more[j].id = more[k].id
                   PROVE  /\ Corner /\ j = 1 /\ more[1].lean = "initiator_favor"
                          /\ more[1].rub = 0 /\ more[k].rub = 1 /\ Steep(more)
        BY DEF Sound
      <3>1. j \in DOMAIN list /\ j \in Nat /\ j # Len(list) + 1 /\ more[j] = list[j]
        BY <2>7
      <3>2. k \in DOMAIN list /\ more[k] = list[k]
        <4>0. \A n \in Nat : \A m \in 1..(n + 1) : m \in 1..n \/ m = n + 1
          OBVIOUS
        <4>1. SUFFICES ASSUME k = Len(list) + 1 PROVE FALSE
          BY <2>7, <4>0, Zenon
        <4>2. list[j].id[1] = "auto" /\ list[j].id[2] = Len(list) + 1
          BY <2>7, <2>8, <3>1, <4>1
        <4> QED BY <3>1, <4>2 DEF Filling, Numbered
      <3>3. /\ Corner /\ j = 1 /\ list[1].lean = "initiator_favor" /\ list[1].rub = 0
            /\ list[k].rub = 1 /\ Steep(list)
        BY <3>1, <3>2 DEF Filling, Sound
      <3>4. Steep(more)
        <4>1. \A m \in DOMAIN more : m \in DOMAIN list \/ m = Len(list) + 1
          BY <2>7
        <4>2. more[1] = list[1]
          BY <2>7, <3>1, <3>3
        <4> QED BY <2>6, <2>7, <3>3, <4>1, <4>2 DEF Steep
      <3> QED BY <2>7, <3>1, <3>2, <3>3, <3>4
    <2>11. Filling([list |-> more], least)
      BY <2>7, <2>9, <2>10 DEF Filling
    <2> QED BY <2>2, <2>11 DEF Filling
  <1> QED BY <1>1, <1>2

LEMMA FillType ==
  ASSUME NEW list \in Seq(OptionType), Sound(list), Numbered(list), Len(list) >= 3,
         NEW low \in Nat, NEW high \in Nat, low <= high, NEW target \in 3..5
  PROVE  /\ Fill(list, low, high, target) \in Seq(OptionType)
         /\ Len(Fill(list, low, high, target)) >= 3
         /\ Sound(Fill(list, low, high, target))
  <1> DEFINE start == [list |-> list, taken |-> Positive(list)]
             a == AddAmount(start, 0, low, high, target)
             b == AddAmount(a, 1, low, high, target)
             c == AddAmount(b, 2, low, high, target)
             d == AddAmount(c, 3, low, high, target)
             e == AddAmount(d, 4, low, high, target)
  <1>1. Fill(list, low, high, target) = e.list
    BY DEF Fill
  <1>2. Filling(start, 3)
    BY DEF Filling
  <1>3. 0 \in 0..4 /\ 1 \in 0..4 /\ 2 \in 0..4 /\ 3 \in 0..4 /\ 4 \in 0..4 /\ 3 \in Nat
    OBVIOUS
  <1> HIDE DEF start
  <1>4. Filling(a, 3)
    BY <1>2, <1>3, AddAmountKeeps
  <1> HIDE DEF a
  <1>5. Filling(b, 3)
    BY <1>3, <1>4, AddAmountKeeps
  <1> HIDE DEF b
  <1>6. Filling(c, 3)
    BY <1>3, <1>5, AddAmountKeeps
  <1> HIDE DEF c
  <1>7. Filling(d, 3)
    BY <1>3, <1>6, AddAmountKeeps
  <1> HIDE DEF d
  <1>8. Filling(e, 3)
    BY <1>3, <1>7, AddAmountKeeps
  <1> HIDE DEF e
  <1>9. e.list \in Seq(OptionType) /\ Len(e.list) >= 3 /\ Sound(e.list)
    BY <1>8 DEF Filling
  <1> QED BY <1>1, <1>9, Zenon

LEMMA UptoType ==
  ASSUME NEW list \in Seq(OptionType), Sound(list), Len(list) >= 3, NEW n \in 3..5
  PROVE  /\ Upto(list, n) \in Seq(OptionType) /\ Sound(Upto(list, n))
         /\ Len(Upto(list, n)) \in 3..n
         /\ \A i \in DOMAIN Upto(list, n) : i \in DOMAIN list /\ Upto(list, n)[i] = list[i]
         /\ Len(list) <= n => Upto(list, n) = list
  <1> DEFINE m == IF Len(list) < n THEN Len(list) ELSE n
             cut == SubSeq(list, 1, m)
  <1>1. Len(list) \in Nat /\ m \in 3..n /\ m <= Len(list) /\ (Len(list) <= n => m = Len(list))
    OBVIOUS
  <1> HIDE DEF m
  <1>2. /\ cut \in Seq(OptionType) /\ Len(cut) = m /\ DOMAIN cut = 1..m
        /\ \A i \in 1..m : i \in DOMAIN list /\ cut[i] = list[i]
        /\ m = Len(list) => cut = list
    BY <1>1
  <1>3. Upto(list, n) = cut
    BY DEF Upto, m
  <1> HIDE DEF cut
  <1>4. Sound(cut)
    <2> SUFFICES ASSUME NEW i \in DOMAIN cut, NEW j \in DOMAIN cut,
                        i < j, cut[i].id = cut[j].id
                 PROVE  /\ Corner /\ i = 1 /\ cut[1].lean = "initiator_favor"
                        /\ cut[1].rub = 0 /\ cut[j].rub = 1 /\ Steep(cut)
      BY DEF Sound
    <2>1. i \in DOMAIN list /\ j \in DOMAIN list /\ cut[i] = list[i] /\ cut[j] = list[j]
      BY <1>2
    <2>2. /\ Corner /\ i = 1 /\ list[1].lean = "initiator_favor" /\ list[1].rub = 0
          /\ list[j].rub = 1 /\ Steep(list)
      BY <2>1 DEF Sound
    <2>3. Steep(cut)
      <3>1. cut[1] = list[1]
        BY <2>1, <2>2
      <3> QED BY <1>2, <2>2, <3>1 DEF Steep
    <2> QED BY <2>1, <2>2, <2>3
  <1>5. Len(cut) \in 3..n
    BY <1>1, <1>2
  <1>6. /\ \A i \in DOMAIN cut : i \in DOMAIN list /\ cut[i] = list[i]
        /\ Len(list) <= n => cut = list
    BY <1>1, <1>2
  <1>7. cut \in Seq(OptionType)
    BY <1>2
  <1> QED BY <1>3, <1>4, <1>5, <1>6, <1>7, Zenon

LEMMA NumberedIf ==
  ASSUME NEW list, NoAuto(list)
  PROVE  Numbered(list)
  BY DEF NoAuto, Numbered

LEMMA ExpandType ==
  ASSUME Proposing, NEW list, Given(list), NEW target \in 3..5
  PROVE  /\ Expand(list, target) \in Seq(OptionType) /\ Sound(Expand(list, target))
         /\ Len(Expand(list, target)) \in 3..target
  <1> DEFINE all == IF Positive(list) # {} THEN list ELSE WithFallback(list)
             amounts == Positive(all)
             flat == Max(amounts) = Min(amounts)
             low == IF flat THEN 0 ELSE Min(amounts)
             high == IF flat THEN Max({Max(amounts), form.requested, 100})
                     ELSE Max(amounts)
             filled == Fill(all, low, high, target)
  <1>1. Expand(list, target)
          = IF Len(list) >= target THEN Upto(list, target)
            ELSE IF amounts = {} THEN Upto(all, target) ELSE Upto(filled, target)
    BY DEF Expand
  <1>2. list \in Seq(OptionType) /\ Len(list) >= 3 /\ Sound(list) /\ NoAuto(list)
    <2>1. list \in Seq(OptionType) /\ Unique(list) /\ NoAuto(list) /\ Len(list) >= 3
      BY GivenType, Zenon
    <2> QED BY <2>1, UniqueIsSound, Zenon
  <1>3. all \in Seq(OptionType) /\ Len(all) >= 3 /\ Sound(all) /\ NoAuto(all)
    <2>1. CASE Positive(list) # {}
      BY <1>2, <2>1
    <2>2. CASE Positive(list) = {}
      <3>1. all = WithFallback(list)
        BY <2>2
      <3>2. CASE \A i \in DOMAIN list : list[i].id[1] = "opt"
        BY <3>1, <3>2, FallbackBehind
      <3>3. CASE FromFallback(list)
        BY <2>2, <3>1, <3>3, FallbackTwice
      <3> QED BY <3>2, <3>3 DEF Given
    <2> QED BY <2>1, <2>2
  <1> HIDE DEF all
  <1>4. ASSUME amounts # {}
        PROVE  filled \in Seq(OptionType) /\ Len(filled) >= 3 /\ Sound(filled)
    <2>1. amounts \subseteq Nat /\ Bounded(amounts)
      BY <1>3, PositiveType DEF Proposing
    <2> HIDE DEF amounts
    <2>2. Min(amounts) \in Nat /\ Max(amounts) \in Nat /\ Min(amounts) <= Max(amounts)
      BY <1>4, <2>1, MinIs, MaxIs
    <2>3. form.requested \in Nat
      BY FormType DEF Proposing
    <2> DEFINE three == {Max(amounts), form.requested, 100}
    <2>4. three \subseteq Nat /\ three # {} /\ Bounded(three)
      <3>1. Max(amounts) + form.requested + 100 \in Nat
        BY <2>2, <2>3
      <3>2. \A m \in three : m <= Max(amounts) + form.requested + 100
        BY <2>2, <2>3
      <3> QED BY <2>2, <2>3, <3>1, <3>2 DEF Bounded
    <2>5. Max(three) \in Nat
      <3> HIDE DEF three
      <3> QED BY <2>4, MaxIs
    <2>6. low \in Nat /\ high \in Nat /\ low <= high
      BY <2>2, <2>5
    <2> HIDE DEF low, high
    <2> QED BY <1>3, <2>6, NumberedIf, FillType
  <1> HIDE DEF amounts, filled
  <1>5. CASE Len(list) >= target
    <2>1. Expand(list, target) = Upto(list, target)
      BY <1>1, <1>5
    <2> QED BY <1>2, <2>1, UptoType
  <1>6. CASE ~(Len(list) >= target) /\ amounts = {}
    <2>1. Expand(list, target) = Upto(all, target)
      BY <1>1, <1>6
    <2> QED BY <1>3, <2>1, UptoType
  <1>7. CASE ~(Len(list) >= target) /\ amounts # {}
    <2>1. Expand(list, target) = Upto(filled, target)
      BY <1>1, <1>7
    <2> QED BY <1>4, <1>7, <2>1, UptoType
  <1> QED BY <1>5, <1>6, <1>7

LEMMA TargetType ==
  ASSUME NEW unsure \in BOOLEAN
  PROVE  TargetCount(unsure) \in 3..5
  <1>1. \A gap, whole : Grade(gap, whole) \in {3, 4, 5}
    BY DEF Grade
  <1> DEFINE acceptable == PercentOf(form.requested, form.percent)
             paid == {i \in DOMAIN offered[1] : Effective(offered[1][i]) > 0}
             amounts == {Effective(offered[1][i]) : i \in paid}
             asked == IF form.requested = 0 THEN 3
                      ELSE Grade(form.requested - acceptable, form.requested)
             spread == IF round = 1 \/ Cardinality(paid) < 2 THEN 3
                       ELSE Grade(Max(amounts) - Min(amounts), Max(amounts))
  <1>2. asked \in {3, 4, 5} /\ spread \in {3, 4, 5}
    BY <1>1
  <1>3. TargetCount(unsure) = IF asked > 3 THEN asked
                              ELSE IF spread > 3 THEN spread
                              ELSE IF unsure THEN 4 ELSE 3
    BY DEF TargetCount
  <1> HIDE DEF asked, spread
  <1> QED BY <1>2, <1>3

----------------------------------------------------------------------------
(* The order in which options are shown.                                   *)

Distinct(list) == \A m, n \in DOMAIN list : list[m] = list[n] => m = n

(* A list taken from the options, without repetitions; if the option that  *)
(* comes first favours the initiator it comes first in the list.           *)
Placing(list, options) ==
  /\ list \in Seq(OptionType)
  /\ Distinct(list) /\ ToSet(list) \subseteq ToSet(options)
  /\ options[1].lean = "initiator_favor" => Len(list) >= 1 /\ list[1] = options[1]

LEMMA AddNewPlaces ==
  ASSUME NEW list \in Seq(OptionType), NEW o \in OptionType, Distinct(list),
         o \notin ToSet(list)
  PROVE  /\ AddNew(list, o) \in Seq(OptionType) /\ Len(AddNew(list, o)) = Len(list) + 1
         /\ Distinct(AddNew(list, o)) /\ ToSet(AddNew(list, o)) = ToSet(list) \cup {o}
         /\ Len(list) >= 1 => AddNew(list, o)[1] = list[1]
         /\ Len(list) = 0 => AddNew(list, o)[1] = o
  <1> DEFINE more == AddNew(list, o)
  <1>1. /\ more \in Seq(OptionType) /\ Len(more) = Len(list) + 1
        /\ DOMAIN more = 1..(Len(list) + 1)
        /\ \A i \in 1..Len(list) : more[i] = list[i]
        /\ more[Len(list) + 1] = o
    BY AddNewIs
  <1>2. Len(list) \in Nat /\ DOMAIN list = 1..Len(list)
    OBVIOUS
  <1> HIDE DEF more
  <1>3. \A i \in DOMAIN more : i \in DOMAIN list \/ i = Len(list) + 1
    BY <1>1, <1>2
  <1>4. ToSet(more) = ToSet(list) \cup {o}
    <2>1. ToSet(more) \subseteq ToSet(list) \cup {o}
      BY <1>1, <1>2, <1>3 DEF ToSet
    <2>2. o \in ToSet(more) /\ ToSet(list) \subseteq ToSet(more)
      <3>1. Len(list) + 1 \in DOMAIN more /\ \A i \in DOMAIN list : i \in DOMAIN more
        BY <1>1, <1>2
      <3> QED BY <1>1, <1>2, <3>1 DEF ToSet
    <2> QED BY <2>1, <2>2
  <1>5. Distinct(more)
    <2>1. ASSUME NEW i \in DOMAIN more, NEW j \in DOMAIN more, more[i] = more[j]
          PROVE  i = j
      <3>1. \A k \in DOMAIN list : more[k] # o
        BY <1>1, <1>2 DEF ToSet
      <3>2. CASE i \in DOMAIN list /\ j \in DOMAIN list
        BY <1>1, <1>2, <2>1, <3>2 DEF Distinct
      <3>3. CASE ~(i \in DOMAIN list /\ j \in DOMAIN list)
        BY <1>1, <1>3, <2>1, <3>1, <3>3
      <3> QED BY <3>2, <3>3
    <2> QED BY <2>1 DEF Distinct
  <1>6. /\ Len(list) >= 1 => more[1] = list[1]
        /\ Len(list) = 0 => more[1] = o
    BY <1>1, <1>2
  <1> QED BY <1>1, <1>4, <1>5, <1>6 DEF more

LEMMA AppendPlaces ==
  ASSUME NEW list \in Seq(OptionType), NEW o \in OptionType, Distinct(list),
         o \notin ToSet(list)
  PROVE  /\ Append(list, o) \in Seq(OptionType) /\ Len(Append(list, o)) = Len(list) + 1
         /\ Distinct(Append(list, o)) /\ ToSet(Append(list, o)) = ToSet(list) \cup {o}
         /\ Len(list) >= 1 => Append(list, o)[1] = list[1]
         /\ Len(list) = 0 => Append(list, o)[1] = o
  <1>1. AddNew(list, o) = Append(list, o)
    BY DEF AddNew
  <1>2. /\ AddNew(list, o) \in Seq(OptionType) /\ Len(AddNew(list, o)) = Len(list) + 1
        /\ Distinct(AddNew(list, o)) /\ ToSet(AddNew(list, o)) = ToSet(list) \cup {o}
        /\ Len(list) >= 1 => AddNew(list, o)[1] = list[1]
        /\ Len(list) = 0 => AddNew(list, o)[1] = o
    BY AddNewPlaces
  <1> QED BY <1>1, <1>2, Zenon

(* One of the three first options.                                         *)
FirstAdded(list, more, options, lean) ==
  /\ more \in Seq(OptionType) /\ Distinct(more)
  /\ ToSet(more) \subseteq ToSet(options)
  /\ \A o \in ToSet(more) : o \in ToSet(list) \/ o.lean = lean
  /\ Len(list) >= 1 => Len(more) >= 1 /\ more[1] = list[1]
  /\ Len(list) = 0 /\ Len(options) >= 1 /\ options[1].lean = lean =>
       Len(more) >= 1 /\ more[1] = options[1]

LEMMA AddFirstPlaces ==
  ASSUME NEW options \in Seq(OptionType), NEW list \in Seq(OptionType), NEW lean,
         Distinct(list), ToSet(list) \subseteq ToSet(options),
         \A o \in ToSet(list) : o.lean # lean
  PROVE  FirstAdded(list, AddFirst(list, options, lean), options, lean)
  <1> DEFINE those == {i \in DOMAIN options : options[i].lean = lean}
             k == Min(those)
             more == Append(list, options[k])
  <1>1. Len(list) \in Nat /\ DOMAIN options = 1..Len(options) /\ Len(options) \in Nat
    OBVIOUS
  <1>2. CASE those = {}
    <2>1. AddFirst(list, options, lean) = list
      BY <1>2 DEF AddFirst
    <2>2. Len(options) >= 1 => options[1].lean # lean
      BY <1>1, <1>2
    <2> QED BY <1>1, <2>1, <2>2 DEF FirstAdded
  <1>3. CASE those # {}
    <2>1. AddFirst(list, options, lean) = more
      BY <1>3 DEF AddFirst
    <2>2. those \subseteq Nat
      BY <1>1
    <2>3. k \in those /\ \A i \in those : k <= i
      <3> HIDE DEF those
      <3> QED BY <1>3, <2>2, MinIs
    <2>4. k \in DOMAIN options /\ options[k].lean = lean
      BY <2>3
    <2>5. Len(options) >= 1 /\ options[1].lean = lean => k = 1
      <3>1. Len(options) >= 1 /\ options[1].lean = lean => 1 \in those
        BY <1>1
      <3> HIDE DEF those, k
      <3> QED BY <1>1, <2>3, <2>4, <3>1
    <2> HIDE DEF k
    <2> DEFINE o == options[k]
    <2>6. o \in OptionType /\ o \notin ToSet(list) /\ o \in ToSet(options)
      BY <2>4 DEF ToSet
    <2> HIDE DEF o
    <2>7. more = Append(list, o)
      BY DEF o
    <2>8. /\ Append(list, o) \in Seq(OptionType) /\ Len(Append(list, o)) = Len(list) + 1
          /\ Distinct(Append(list, o)) /\ ToSet(Append(list, o)) = ToSet(list) \cup {o}
          /\ Len(list) >= 1 => Append(list, o)[1] = list[1]
          /\ Len(list) = 0 => Append(list, o)[1] = o
      BY <2>6, AppendPlaces, Zenon
    <2> HIDE DEF more
    <2>9. /\ more \in Seq(OptionType) /\ Len(more) = Len(list) + 1
          /\ Distinct(more) /\ ToSet(more) = ToSet(list) \cup {o}
          /\ Len(list) >= 1 => more[1] = list[1]
          /\ Len(list) = 0 => more[1] = o
      BY <2>7, <2>8, Zenon
    <2>10. o.lean = lean /\ (Len(options) >= 1 /\ options[1].lean = lean => o = options[1])
      BY <2>4, <2>5 DEF o
    <2> QED BY <1>1, <2>1, <2>6, <2>9, <2>10 DEF FirstAdded
  <1> QED BY <1>2, <1>3

LEMMA FirstsPlace ==
  ASSUME NEW options \in Seq(OptionType), Len(options) >= 1
  PROVE  LET First(list, k) == AddFirst(list, options, Leans[k])
         IN Placing(First(First(First(<<>>, 1), 2), 3), options)
  <1> DEFINE a == AddFirst(<<>>, options, Leans[1])
             b == AddFirst(a, options, Leans[2])
             c == AddFirst(b, options, Leans[3])
             none == <<>>
  <1>1. Leans[1] = "initiator_favor" /\ Leans[2] = "counterparty_favor"
        /\ Leans[3] = "compromise"
    BY DEF Leans
  <1>2. none \in Seq(OptionType) /\ Len(none) = 0 /\ Distinct(none) /\ ToSet(none) = {}
    BY DEF Distinct, ToSet
  <1>3. /\ a \in Seq(OptionType) /\ Distinct(a) /\ ToSet(a) \subseteq ToSet(options)
        /\ \A o \in ToSet(a) : o.lean = Leans[1]
        /\ options[1].lean = Leans[1] => Len(a) >= 1 /\ a[1] = options[1]
    <2>1. a = AddFirst(none, options, Leans[1])
      OBVIOUS
    <2> HIDE DEF none, a
    <2>2. FirstAdded(none, a, options, Leans[1])
      BY <1>2, <2>1, AddFirstPlaces
    <2> QED BY <1>2, <2>2 DEF FirstAdded
  <1> HIDE DEF a
  <1>4. /\ b \in Seq(OptionType) /\ Distinct(b) /\ ToSet(b) \subseteq ToSet(options)
        /\ \A o \in ToSet(b) : o.lean = Leans[1] \/ o.lean = Leans[2]
        /\ options[1].lean = Leans[1] => Len(b) >= 1 /\ b[1] = options[1]
    <2>1. \A o \in ToSet(a) : o.lean # Leans[2]
      BY <1>1, <1>3
    <2>2. FirstAdded(a, b, options, Leans[2])
      BY <1>3, <2>1, AddFirstPlaces
    <2> QED BY <1>3, <2>2 DEF FirstAdded
  <1> HIDE DEF b
  <1>5. /\ c \in Seq(OptionType) /\ Distinct(c) /\ ToSet(c) \subseteq ToSet(options)
        /\ options[1].lean = Leans[1] => Len(c) >= 1 /\ c[1] = options[1]
    <2>1. \A o \in ToSet(b) : o.lean # Leans[3]
      BY <1>1, <1>4
    <2>2. FirstAdded(b, c, options, Leans[3])
      BY <1>4, <2>1, AddFirstPlaces
    <2> QED BY <1>4, <2>2 DEF FirstAdded
  <1> QED BY <1>1, <1>5 DEF Placing, a, b

LEMMA AddNextKeeps ==
  ASSUME NEW options \in Seq(OptionType), NEW list, Placing(list, options),
         NEW i \in 1..5, NEW target \in 3..5
  PROVE  LET more == AddNext(list, i, options, target)
         IN /\ Placing(more, options) /\ ToSet(list) \subseteq ToSet(more)
            /\ Len(list) <= target => Len(more) <= target
            /\ Len(list) <= Len(more)
            /\ \/ i > Len(options) \/ Len(more) >= Len(options) \/ Len(more) >= target
               \/ options[i] \in ToSet(more)
  <1> DEFINE more == AddNext(list, i, options, target)
  <1>1. list \in Seq(OptionType) /\ Len(list) \in Nat
    BY DEF Placing
  <1>2. CASE i > Len(options) \/ Len(list) >= Len(options) \/ Len(list) >= target
    <2>1. more = list
      BY <1>2 DEF AddNext
    <2> QED BY <1>1, <1>2, <2>1
  <1>3. CASE ~(i > Len(options) \/ Len(list) >= Len(options) \/ Len(list) >= target)
    <2>1. more = AddNew(list, options[i])
      BY <1>3 DEF AddNext
    <2>2. i \in DOMAIN options /\ Len(list) + 1 <= target
      BY <1>1, <1>3
    <2> DEFINE o == options[i]
    <2>3. o \in OptionType /\ o \in ToSet(options)
      BY <2>2 DEF ToSet
    <2> HIDE DEF o, more
    <2>4. CASE o \in ToSet(list)
      <3>1. more = list
        BY <2>1, <2>4 DEF AddNew, o
      <3> QED BY <1>1, <2>2, <2>4, <3>1 DEF more, o
    <2>5. CASE o \notin ToSet(list)
      <3>1. more = AddNew(list, o)
        BY <2>1 DEF o
      <3>2. /\ more \in Seq(OptionType) /\ Len(more) = Len(list) + 1
            /\ Distinct(more) /\ ToSet(more) = ToSet(list) \cup {o}
            /\ Len(list) >= 1 => more[1] = list[1]
        BY <1>1, <2>3, <2>5, <3>1, AddNewPlaces DEF Placing
      <3>3. Placing(more, options)
        <4>1. options[1].lean = "initiator_favor" => Len(more) >= 1 /\ more[1] = options[1]
          BY <1>1, <3>2 DEF Placing
        <4>2. ToSet(more) \subseteq ToSet(options)
          BY <2>3, <3>2 DEF Placing
        <4> QED BY <3>2, <4>1, <4>2 DEF Placing
      <3>4. Len(more) <= target /\ Len(list) <= Len(more) /\ o \in ToSet(more)
            /\ ToSet(list) \subseteq ToSet(more)
        BY <1>1, <2>2, <3>2
      <3> QED BY <3>3, <3>4 DEF more, o
    <2> QED BY <2>4, <2>5
  <1> QED BY <1>2, <1>3

LEMMA ArrangeType ==
  ASSUME Proposing, NEW options \in Seq(OptionType), Sound(options),
         NEW target \in 3..5, Len(options) \in 3..target
  PROVE  /\ Arrange(options, target) \in Seq(OptionType)
         /\ Sound(Arrange(options, target))
         /\ Len(Arrange(options, target)) \in 3..target
  <1> DEFINE First(list, k) == AddFirst(list, options, Leans[k])
             firsts == First(First(First(<<>>, 1), 2), 3)
             a == AddNext(firsts, 1, options, target)
             b == AddNext(a, 2, options, target)
             c == AddNext(b, 3, options, target)
             d == AddNext(c, 4, options, target)
             e == AddNext(d, 5, options, target)
  <1>1. Arrange(options, target) = Upto(IF Len(e) < 3 THEN e \o Fallback ELSE e, target)
    BY DEF Arrange
  <1>2. Len(options) \in Nat /\ Len(options) >= 3 /\ Len(options) >= 1
    <2>1. \A n \in 3..target : n \in Nat /\ n >= 3 /\ n >= 1
      OBVIOUS
    <2> QED BY <2>1, Zenon
  <1>3. Placing(firsts, options)
    BY <1>2, FirstsPlace
  <1> HIDE DEF firsts
  <1>4. 1 \in 1..5 /\ 2 \in 1..5 /\ 3 \in 1..5 /\ 4 \in 1..5 /\ 5 \in 1..5
    OBVIOUS
  <1> DEFINE Has(list, i) == \/ i > Len(options) \/ Len(list) >= Len(options)
                             \/ Len(list) >= target \/ options[i] \in ToSet(list)
  <1>5. Placing(a, options) /\ Has(a, 1)
    BY <1>3, <1>4, AddNextKeeps
  <1> HIDE DEF a
  <1>6. Placing(b, options) /\ Has(b, 2) /\ ToSet(a) \subseteq ToSet(b) /\ Len(a) <= Len(b)
    BY <1>4, <1>5, AddNextKeeps
  <1> HIDE DEF b
  <1>7. Placing(c, options) /\ Has(c, 3) /\ ToSet(b) \subseteq ToSet(c) /\ Len(b) <= Len(c)
    BY <1>4, <1>6, AddNextKeeps
  <1> HIDE DEF c
  <1>8. Placing(d, options) /\ ToSet(c) \subseteq ToSet(d) /\ Len(c) <= Len(d)
    BY <1>4, <1>7, AddNextKeeps
  <1> HIDE DEF d
  <1>9. Placing(e, options) /\ ToSet(d) \subseteq ToSet(e) /\ Len(d) <= Len(e)
    BY <1>4, <1>8, AddNextKeeps
  <1> HIDE DEF e
  <1>10. e \in Seq(OptionType) /\ Len(e) >= 3
    <2>1. /\ Len(a) \in Nat /\ Len(b) \in Nat /\ Len(c) \in Nat /\ Len(d) \in Nat
          /\ Len(e) \in Nat /\ e \in Seq(OptionType)
      BY <1>5, <1>6, <1>7, <1>8, <1>9 DEF Placing
    <2>2. Has(e, 1) /\ Has(e, 2) /\ Has(e, 3)
      BY <1>5, <1>6, <1>7, <1>8, <1>9, <1>2, <2>1
    <2>3. CASE Len(e) >= Len(options) \/ Len(e) >= target
      BY <1>2, <2>1, <2>3
    <2>4. CASE ~(Len(e) >= Len(options) \/ Len(e) >= target)
      <3>1. options[1] \in ToSet(e) /\ options[2] \in ToSet(e) /\ options[3] \in ToSet(e)
        BY <1>2, <2>2, <2>4
      <3>2. /\ options[1] # options[2] /\ options[1] # options[3]
            /\ options[2] # options[3]
        BY <1>2 DEF Sound
      <3>3. PICK i \in DOMAIN e, j \in DOMAIN e, k \in DOMAIN e :
              e[i] = options[1] /\ e[j] = options[2] /\ e[k] = options[3]
        BY <3>1 DEF ToSet
      <3>4. i # j /\ i # k /\ j # k /\ DOMAIN e = 1..Len(e)
        BY <2>1, <3>2, <3>3
      <3> QED BY <2>1, <3>3, <3>4
    <2> QED BY <2>1, <2>3, <2>4
  <1>11. Sound(e)
    <2> SUFFICES ASSUME NEW m \in DOMAIN e, NEW n \in DOMAIN e, m < n, e[m].id = e[n].id
                 PROVE  /\ Corner /\ m = 1 /\ e[1].lean = "initiator_favor"
                        /\ e[1].rub = 0 /\ e[n].rub = 1 /\ Steep(e)
      BY DEF Sound
    <2>1. m # n /\ e[m] # e[n] /\ m \in 1..Len(e) /\ n \in 1..Len(e)
      BY <1>9, <1>10 DEF Placing, Distinct
    <2>2. e[m] \in ToSet(options) /\ e[n] \in ToSet(options)
      BY <1>9 DEF Placing, ToSet
    <2>3. PICK i \in DOMAIN options, j \in DOMAIN options : e[m] = options[i] /\ e[n] = options[j]
      BY <2>2 DEF ToSet
    <2>4. i # j /\ options[i].id = options[j].id /\ i \in Nat /\ j \in Nat
      BY <2>1, <2>3
    <2>5. /\ Corner
          /\ (i = 1 /\ options[j].rub = 1) \/ (j = 1 /\ options[i].rub = 1)
          /\ options[1].lean = "initiator_favor" /\ options[1].rub = 0
          /\ Steep(options)
      <3>1. CASE i < j
        BY <2>4, <3>1 DEF Sound
      <3>2. CASE j < i
        BY <2>4, <3>2 DEF Sound
      <3> QED BY <2>4, <3>1, <3>2
    <2>6. e[1] = options[1] /\ 1 \in DOMAIN e
      BY <1>9, <1>10, <2>5 DEF Placing
    <2>7. m = 1
      <3>1. m = 1 \/ n = 1
        BY <1>9, <2>3, <2>5, <2>6 DEF Placing, Distinct
      <3> QED BY <2>1, <3>1
    <2>8. Steep(e)
      <3>1. \A k \in DOMAIN e : \E l \in DOMAIN options : e[k] = options[l]
        BY <1>9 DEF Placing, ToSet
      <3> QED BY <2>5, <2>6, <3>1 DEF Steep
    <2>9. e[n].rub = 1
      BY <2>3, <2>5, <2>6, <2>7
    <2> QED BY <2>1, <2>5, <2>6, <2>7, <2>8, <2>9
  <1>12. Arrange(options, target) = Upto(e, target)
    <2>1. ~(Len(e) < 3)
      BY <1>10
    <2> QED BY <1>1, <2>1
  <1> QED BY <1>10, <1>11, <1>12, UptoType

LEMMA Retyped ==
  ASSUME NEW S, NEW T, NEW list \in Seq(S), \A i \in DOMAIN list : list[i] \in T
  PROVE  list \in Seq(T)
  OBVIOUS

LEMMA AnswerType ==
  ASSUME Proposing, NEW answer \in Answers, ~(Len(answer) < 3)
  PROVE  Given(Closer(answer))
  <1>1. /\ answer \in Seq([id : {"opt"} \X (1..5),
                           lean : {"initiator_favor", "counterparty_favor", "compromise"},
                           rub : Nat \cup {-1}, percent : (0..100) \cup {-1}])
        /\ Len(answer) <= 5
        /\ \A i, j \in DOMAIN answer : answer[i].id = answer[j].id => i = j
    BY AnswersAssumption
  <1>2. Len(answer) \in Nat /\ DOMAIN answer = 1..Len(answer) /\ Len(answer) \in 3..5
    <2>1. Len(answer) \in Nat /\ DOMAIN answer = 1..Len(answer) /\ Len(answer) <= 5
      BY <1>1
    <2>2. \A n \in Nat : ~(n < 3) /\ n <= 5 => n \in 3..5
      OBVIOUS
    <2> QED BY <2>1, <2>2, Zenon
  <1>3. \A i \in DOMAIN answer : answer[i] \in OptionType /\ answer[i].id[1] = "opt"
    <2>1. \A i \in DOMAIN answer :
            answer[i] \in [id : {"opt"} \X (1..5),
                           lean : {"initiator_favor", "counterparty_favor", "compromise"},
                           rub : Nat \cup {-1}, percent : (0..100) \cup {-1}]
      BY <1>1, ElementType
    <2>2. \A o \in [id : {"opt"} \X (1..5),
                    lean : {"initiator_favor", "counterparty_favor", "compromise"},
                    rub : Nat \cup {-1}, percent : (0..100) \cup {-1}] :
            o \in OptionType /\ o.id[1] = "opt"
      BY DEF OptionType, ToSet, Leans, NoAmount
    <2> QED BY <2>1, <2>2
  <1>4. answer \in Seq(OptionType)
    BY <1>1, <1>3, Retyped, Zenon
  <1> DEFINE list == Closer(answer)
  <1>5. /\ list \in Seq(OptionType) /\ Len(list) = Len(answer)
        /\ \A i \in 1..Len(answer) : list[i].id = answer[i].id
    BY <1>4, CloserType
  <1> HIDE DEF list
  <1>6. DOMAIN list = DOMAIN answer
    BY <1>2, <1>5
  <1>7. Unique(list) /\ NoAuto(list) /\ \A i \in DOMAIN list : list[i].id[1] = "opt"
    BY <1>1, <1>2, <1>3, <1>5, <1>6 DEF Unique, NoAuto
  <1>8. Len(list) \in 3..5
    BY <1>2, <1>5, Zenon
  <1> QED BY <1>5, <1>7, <1>8, Zenon DEF Given, list

LEMMA FallbackGiven ==
  ASSUME Proposing
  PROVE  Given(Closer(Fallback))
  <1> DEFINE list == Closer(Fallback)
  <1>1. /\ Fallback \in Seq(OptionType) /\ Len(Fallback) = 3
        /\ \A i \in 1..3 : Fallback[i].id[1] \in {"r1", "r2"} /\ Fallback[i].id[2] = i
    BY FallbackType
  <1>2. /\ list \in Seq(OptionType) /\ Len(list) = 3
        /\ \A i \in 1..3 :
             /\ list[i].id = Fallback[i].id /\ list[i].lean = Fallback[i].lean
             /\ round = 1 => list[i] = Fallback[i]
             /\ round = 2 => list[i] = Compromised(Fallback[i])
    BY <1>1, CloserType
  <1> HIDE DEF list
  <1>3. DOMAIN list = 1..3
    BY <1>2
  <1>4. Unique(list) /\ NoAuto(list)
    BY <1>1, <1>2, <1>3 DEF Unique, NoAuto
  <1>5. FromFallback(list)
    BY <1>2 DEF FromFallback
  <1>6. Len(list) \in 3..5
    <2>1. 3 \in 3..5
      OBVIOUS
    <2> QED BY <1>2, <2>1, Zenon
  <1> QED BY <1>2, <1>4, <1>5, <1>6, Zenon DEF Given, list

(* What a turn proposes, whatever the model has answered.                  *)
LEMMA ProposedType ==
  ASSUME Proposing, NEW answer \in Answers, NEW unsure \in BOOLEAN
  PROVE  /\ Proposed(answer, unsure) \in Seq(OptionType)
         /\ Sound(Proposed(answer, unsure))
         /\ Len(Proposed(answer, unsure)) \in 3..5
  <1> DEFINE target == TargetCount(unsure)
             usable == IF Len(answer) < 3 THEN Fallback ELSE answer
             list == Closer(usable)
             wide == Expand(list, target)
             shown == Arrange(wide, target)
  <1>1. target \in 3..5
    BY TargetType
  <1>2. Given(list)
    <2>1. CASE Len(answer) < 3
      BY <2>1, FallbackGiven
    <2>2. CASE ~(Len(answer) < 3)
      BY <2>2, AnswerType
    <2> QED BY <2>1, <2>2
  <1>3. Proposed(answer, unsure) = shown
    BY DEF Proposed
  <1> HIDE DEF target, list
  <1>4. wide \in Seq(OptionType) /\ Sound(wide) /\ Len(wide) \in 3..target
    BY <1>1, <1>2, ExpandType
  <1> HIDE DEF wide
  <1>5. shown \in Seq(OptionType) /\ Sound(shown) /\ Len(shown) \in 3..target
    BY <1>1, <1>4, ArrangeType
  <1>6. \A n \in 3..target : n \in 3..5
    BY <1>1
  <1>7. Len(shown) \in 3..5
    BY <1>5, <1>6, Zenon
  <1> HIDE DEF shown
  <1> QED BY <1>3, <1>5, <1>7, Zenon

----------------------------------------------------------------------------
(* Votes.                                                                  *)

VoteType == [ids : Seq(AnyId), rub : UNION {[S -> Nat] : S \in SUBSET AnyId}]

InRange(options, vote) ==
  \A id \in DOMAIN vote.rub :
    LET base == Effective(FindLast(options, id))
    IN base > 0 /\ vote.rub[id] \in Lowest(base)..Highest(base)

LEMMA NoVoteType ==
  NoVote \in VoteType /\ ToSet(NoVote.ids) = {} /\ DOMAIN NoVote.rub = {}
  <1>1. <<>> \in Seq(AnyId) /\ DOMAIN <<>> = {}
    OBVIOUS
  <1>2. <<>> \in [{} -> Nat]
    OBVIOUS
  <1>3. <<>> \in UNION {[S -> Nat] : S \in SUBSET AnyId}
    <2>1. {} \in SUBSET AnyId
      OBVIOUS
    <2> QED BY <1>2, <2>1
  <1>4. NoVote.ids = <<>> /\ NoVote.rub = <<>>
    BY DEF NoVote
  <1>5. NoVote \in VoteType
    BY <1>1, <1>3 DEF NoVote, VoteType
  <1> QED BY <1>1, <1>4, <1>5 DEF ToSet

(* What a vote may carry.                                                  *)
VoteFits(options, vote) ==
  /\ vote \in VoteType /\ vote.ids # <<>>
  /\ ToSet(vote.ids) \subseteq Ids(options) /\ DOMAIN vote.rub \subseteq ToSet(vote.ids)
  /\ InRange(options, vote)

LEMMA VoteIs ==
  ASSUME form \in Forms, NEW options \in Seq(OptionType),
         NEW p \in Party, NEW ballot \in Ballots[p],
         ToSet(ballot.picks) \subseteq DOMAIN options
  PROVE  VoteFits(options, Vote(options, ballot))
  <1> DEFINE Base(k) == Effective(FindLast(options, options[k].id))
             kept == {k \in DOMAIN ballot.asked :
                        Base(k) > 0 /\ Adjusted(Base(k), ballot.asked[k]) # Base(k)}
             Position(id) == CHOOSE k \in kept : options[k].id = id
             named == {options[k].id : k \in kept}
             ids == [n \in DOMAIN ballot.picks |-> options[ballot.picks[n]].id]
             rub == [id \in named |->
                       LET k == Position(id) IN Adjusted(Base(k), ballot.asked[k])]
  <1>1. Vote(options, ballot) = [ids |-> ids, rub |-> rub]
    BY DEF Vote
  <1>2. /\ ballot.picks \in Seq(1..5) /\ ballot.picks # <<>>
        /\ DOMAIN ballot.asked \subseteq ToSet(ballot.picks)
        /\ \A k \in DOMAIN ballot.asked : ballot.asked[k] \in Nat
    BY BallotsAssumption DEF Party
  <1>3. \A k \in DOMAIN options : options[k] \in OptionType /\ options[k].id \in AnyId
                                  /\ options[k].id \in Ids(options)
    <2>1. \A k \in DOMAIN options : options[k] \in OptionType
      BY ElementType
    <2> QED BY <2>1 DEF OptionType, AnyId, Ids
  <1>4. \A n \in DOMAIN ballot.picks : ballot.picks[n] \in DOMAIN options
    BY DEF ToSet
  <1>5. ids \in Seq(AnyId) /\ ids # <<>> /\ DOMAIN ids = DOMAIN ballot.picks
    <2>1. DOMAIN ballot.picks = 1..Len(ballot.picks) /\ Len(ballot.picks) \in Nat
          /\ Len(ballot.picks) # 0
      BY <1>2
    <2>2. \A n \in 1..Len(ballot.picks) : options[ballot.picks[n]].id \in AnyId
      BY <1>3, <1>4, <2>1
    <2>3. ids = [n \in 1..Len(ballot.picks) |-> options[ballot.picks[n]].id]
      BY <2>1
    <2> QED BY <2>1, <2>2, <2>3
  <1>6. ToSet(ids) \subseteq Ids(options)
    BY <1>3, <1>4 DEF ToSet
  <1>7. \A k \in DOMAIN ballot.asked : k \in DOMAIN options /\ options[k].id \in ToSet(ids)
    BY <1>2, <1>4 DEF ToSet
  <1>8. \A k \in kept : options[k].id \in AnyId /\ options[k].id \in ToSet(ids)
    BY <1>3, <1>7
  <1>9. \A k \in kept : Base(k) \in Nat
    <2>1. ASSUME NEW k \in kept PROVE Base(k) \in Nat
      <3>1. options[k].id \in Ids(options)
        BY <1>3, <1>7
      <3>2. FindLast(options, options[k].id) \in OptionType
        BY <3>1, FindLastIs
      <3> QED BY <3>2, EffectiveType
    <2> QED BY <2>1
  <1>10. ASSUME NEW id \in named
         PROVE  LET base == Effective(FindLast(options, id))
                IN base > 0 /\ rub[id] \in Lowest(base)..Highest(base) /\ rub[id] \in Nat
    <2> DEFINE k == Position(id)
               base == Effective(FindLast(options, id))
    <2>1. k \in kept /\ options[k].id = id
      OBVIOUS
    <2>2. base = Base(k) /\ base > 0 /\ base \in Nat
      BY <1>9, <2>1
    <2>3. ballot.asked[k] \in Nat
      BY <1>2, <2>1
    <2>4. rub[id] = Adjusted(base, ballot.asked[k])
      BY <2>2
    <2> HIDE DEF k, base, rub
    <2>5. Adjusted(base, ballot.asked[k]) \in Lowest(base)..Highest(base)
      <3>1. ballot.asked[k] \in Int
        BY <2>3
      <3> QED BY <2>2, <3>1, AdjustedInRange
    <2>6. Lowest(base) \in Nat /\ Highest(base) \in Nat
      BY <2>2, RangeType
    <2> QED BY <2>2, <2>4, <2>5, <2>6 DEF base
  <1>11. rub \in [named -> Nat]
    BY <1>10
  <1>12. named \in SUBSET AnyId /\ named \subseteq ToSet(ids) /\ DOMAIN rub = named
    BY <1>8
  <1> HIDE DEF ids, rub, named, kept
  <1>13. rub \in UNION {[S -> Nat] : S \in SUBSET AnyId}
    BY <1>11, <1>12
  <1> DEFINE vote == Vote(options, ballot)
  <1>14. vote.ids = ids /\ vote.rub = rub /\ vote \in VoteType
    BY <1>1, <1>5, <1>13 DEF VoteType
  <1>15. InRange(options, vote)
    BY <1>10, <1>12, <1>14 DEF InRange
  <1> QED BY <1>5, <1>6, <1>12, <1>14, <1>15 DEF VoteFits

----------------------------------------------------------------------------
(* The common option that is taken.                                        *)

LEMMA StrictlyLess == \A m, n \in Nat : m <= n /\ m # n => m < n
  OBVIOUS

(* Of tuples that end in their own number one is least.                    *)
LEMMA LeastTuple ==
  ASSUME NEW C, C # {}, NEW f,
         \A i \in C : \A n \in 1..5 : f[i][n] \in Nat,
         \A i \in C : f[i][5] = i
  PROVE  \E k \in C : \A j \in C \ {k} : Better(f[k], f[j])
  <1> DEFINE Least(T, n) == {i \in T : \A j \in T : f[i][n] <= f[j][n]}
             one == Least(C, 1)
             two == Least(one, 2)
             three == Least(two, 3)
             four == Least(three, 4)
             five == Least(four, 5)
  <1>1. ASSUME NEW T, T # {}, T \subseteq C, NEW n \in 1..5
        PROVE  Least(T, n) # {} /\ Least(T, n) \subseteq T
    <2> DEFINE V == {f[i][n] : i \in T}
    <2>1. V \subseteq Nat /\ V # {}
      BY <1>1
    <2>2. PICK v \in V : \A w \in V : v <= w
      <3> HIDE DEF V
      <3> QED BY <2>1, LeastNumber
    <2>3. PICK i \in T : v = f[i][n]
      OBVIOUS
    <2>4. i \in Least(T, n)
      BY <2>2, <2>3
    <2> QED BY <2>4
  <1>2. 1 \in 1..5 /\ 2 \in 1..5 /\ 3 \in 1..5 /\ 4 \in 1..5 /\ 5 \in 1..5
    OBVIOUS
  <1>3. one # {} /\ one \subseteq C
    <2> HIDE DEF Least
    <2> QED BY <1>1, <1>2
  <1>4. two # {} /\ two \subseteq one
    <2> HIDE DEF Least, one
    <2> QED BY <1>1, <1>2, <1>3
  <1>5. three # {} /\ three \subseteq two
    <2>1. two \subseteq C
      BY <1>3, <1>4
    <2> HIDE DEF Least, one, two
    <2> QED BY <1>1, <1>2, <1>4, <2>1
  <1>6. four # {} /\ four \subseteq three
    <2>1. three \subseteq C
      BY <1>3, <1>4, <1>5
    <2> HIDE DEF Least, one, two, three
    <2> QED BY <1>1, <1>2, <1>5, <2>1
  <1>7. PICK k \in five : TRUE
    <2>1. four \subseteq C
      BY <1>3, <1>4, <1>5, <1>6
    <2> HIDE DEF Least, one, two, three, four
    <2> QED BY <1>1, <1>2, <1>6, <2>1
  <1>8. k \in C /\ k \in one /\ k \in two /\ k \in three /\ k \in four
    <2>1. k \in four
      BY <1>7
    <2> HIDE DEF Least, one, two, three, four
    <2> QED BY <1>3, <1>4, <1>5, <1>6, <2>1, Zenon
  <1>9. ASSUME NEW j \in C \ {k} PROVE Better(f[k], f[j])
    <2>1. \A n \in 1..5 : f[k][n] \in Nat /\ f[j][n] \in Nat
      <3>1. j \in C /\ k \in C
        BY <1>8, Zenon
      <3> QED BY <3>1, Zenon
    <2>2. CASE f[k][1] # f[j][1]
      <3>1. f[k][1] <= f[j][1]
        BY <1>8
      <3>2. f[k][1] < f[j][1]
        BY <1>2, <2>1, <2>2, StrictlyLess, <3>1, Zenon
      <3>3. \A m \in 1..(1 - 1) : FALSE
        OBVIOUS
      <3> QED BY <1>2, <3>2, <3>3 DEF Better
    <2>3. CASE f[k][1] = f[j][1] /\ f[k][2] # f[j][2]
      <3>1. j \in one
        BY <1>8, <2>3
      <3>2. f[k][2] < f[j][2]
        <4>1. f[k][2] <= f[j][2]
          BY <1>8, <3>1
        <4> QED BY <1>2, <2>1, <2>3, StrictlyLess, <4>1, Zenon
      <3>3. \A m \in 1..(2 - 1) : m = 1
        OBVIOUS
      <3> QED BY <1>2, <2>3, <3>2, <3>3 DEF Better
    <2>4. CASE f[k][1] = f[j][1] /\ f[k][2] = f[j][2] /\ f[k][3] # f[j][3]
      <3>1. j \in one /\ j \in two
        BY <1>8, <2>4
      <3>2. f[k][3] < f[j][3]
        <4>1. f[k][3] <= f[j][3]
          BY <1>8, <3>1
        <4> QED BY <1>2, <2>1, <2>4, StrictlyLess, <4>1, Zenon
      <3>3. \A m \in 1..(3 - 1) : m = 1 \/ m = 2
        OBVIOUS
      <3> QED BY <1>2, <2>4, <3>2, <3>3 DEF Better
    <2>5. CASE /\ f[k][1] = f[j][1] /\ f[k][2] = f[j][2] /\ f[k][3] = f[j][3]
               /\ f[k][4] # f[j][4]
      <3>1. j \in one /\ j \in two /\ j \in three
        BY <1>8, <2>5
      <3>2. f[k][4] < f[j][4]
        <4>1. f[k][4] <= f[j][4]
          BY <1>8, <3>1
        <4> QED BY <1>2, <2>1, <2>5, StrictlyLess, <4>1, Zenon
      <3>3. \A m \in 1..(4 - 1) : m = 1 \/ m = 2 \/ m = 3
        OBVIOUS
      <3> QED BY <1>2, <2>5, <3>2, <3>3 DEF Better
    <2>6. CASE /\ f[k][1] = f[j][1] /\ f[k][2] = f[j][2] /\ f[k][3] = f[j][3]
               /\ f[k][4] = f[j][4]
      <3>1. j \in one /\ j \in two /\ j \in three /\ j \in four
        BY <1>8, <2>6
      <3>2. f[k][5] < f[j][5]
        <4>1. f[k][5] <= f[j][5]
          BY <1>7, <3>1
        <4>2. f[k][5] # f[j][5]
          BY <1>8, <1>9
        <4> QED BY <1>2, <2>1, StrictlyLess, <4>1, <4>2, Zenon
      <3>3. \A m \in 1..(5 - 1) : m = 1 \/ m = 2 \/ m = 3 \/ m = 4
        OBVIOUS
      <3> QED BY <1>2, <2>6, <3>2, <3>3 DEF Better
    <2> QED BY <2>2, <2>3, <2>4, <2>5, <2>6
  <1> QED BY <1>8, <1>9

(* The amounts of some options of a list.                                  *)
LEMMA AmountsType ==
  ASSUME form \in Forms, NEW options \in Seq(OptionType),
         NEW cand \in SUBSET DOMAIN options
  PROVE  /\ \A i \in cand : Effective(options[i]) \in Nat
         /\ {Effective(options[i]) : i \in cand} \subseteq Nat
         /\ Bounded({Effective(options[i]) : i \in cand})
         /\ IsFiniteSet(cand) /\ Cardinality(cand) \in Nat /\ cand \subseteq Nat
  <1> DEFINE f == [i \in DOMAIN options |-> Effective(options[i])]
  <1>1. \A i \in DOMAIN options : Effective(options[i]) \in Nat
    BY ElementType, EffectiveType
  <1>2. Len(options) \in Nat /\ DOMAIN options = 1..Len(options)
    OBVIOUS
  <1>3. \E b \in Nat : \A i \in 1..Len(options) : f[i] <= b
    <2>1. \A i \in 1..Len(options) : f[i] \in Nat
      BY <1>1, <1>2
    <2> HIDE DEF f
    <2> QED BY <2>1, <1>2, ListBounded
  <1>4. Bounded({Effective(options[i]) : i \in cand})
    BY <1>2, <1>3 DEF Bounded
  <1>5. IsFiniteSet(cand) /\ Cardinality(cand) \in Nat
    <2>1. IsFiniteSet(1..Len(options))
      BY <1>2, FS_Interval
    <2> QED BY <1>2, <2>1, FS_Subset, FS_CardinalityType
  <1> QED BY <1>1, <1>2, <1>4, <1>5

LEMMA MedianType ==
  ASSUME form \in Forms, NEW options \in Seq(OptionType),
         NEW cand \in SUBSET DOMAIN options, cand # {}
  PROVE  Median(options, cand) \in Nat
  <1> DEFINE Amount(i) == Effective(options[i])
             UpTo(i) == {j \in cand : Amount(j) <= Amount(i)}
             upper == {i \in cand : Cardinality(UpTo(i)) > Cardinality(cand) \div 2}
             amounts == {Amount(i) : i \in cand}
             those == {Amount(i) : i \in upper}
  <1>1. Median(options, cand) = Min(those)
    BY DEF Median
  <1>2. /\ amounts \subseteq Nat /\ Bounded(amounts) /\ amounts # {}
        /\ IsFiniteSet(cand) /\ Cardinality(cand) \in Nat
        /\ \A i \in cand : Amount(i) \in Nat
    BY AmountsType
  <1>3. PICK i \in cand : \A j \in cand : Amount(j) <= Amount(i)
    <2>1. Max(amounts) \in amounts /\ \A m \in amounts : m <= Max(amounts)
      <3> HIDE DEF amounts
      <3> QED BY <1>2, MaxIs
    <2> QED BY <2>1
  <1>4. UpTo(i) = cand
    BY <1>3
  <1>5. Cardinality(cand) > Cardinality(cand) \div 2
    <2>1. Cardinality(cand) # 0
      BY <1>2, FS_EmptySet
    <2>2. \A n \in Nat : n # 0 => n > n \div 2
      OBVIOUS
    <2> QED BY <1>2, <2>1, <2>2
  <1>6. i \in upper
    BY <1>4, <1>5
  <1>7. those \subseteq Nat /\ those # {}
    <2>1. \A j \in upper : j \in cand
      OBVIOUS
    <2> HIDE DEF UpTo, upper
    <2> QED BY <1>2, <1>6, <2>1
  <1> HIDE DEF those
  <1> QED BY <1>1, <1>7, MinIs

(* The amount the choice aims at; when nothing exceeds what was asked for  *)
(* it is the middle of that and of what the other side accepts.            *)
LEMMA GoalType ==
  ASSUME form \in Forms, NEW options \in Seq(OptionType),
         NEW cand \in SUBSET DOMAIN options, cand # {}
  PROVE  /\ Goal(options, cand) \in Nat
         /\ form.requested > 0 /\ (\A i \in cand : Effective(options[i]) <= form.requested)
              => Goal(options, cand)
                   = Round(form.requested + PercentOf(form.requested, form.percent), 2)
  <1> DEFINE amounts == {Effective(options[i]) : i \in cand}
             all == amounts \cup {form.requested, 1}
             acceptable == PercentOf(Max(all), form.percent)
  <1>1. Goal(options, cand) = IF form.requested > 0 \/ form.percent > 0
                              THEN Round(form.requested + acceptable, 2)
                              ELSE Median(options, cand)
    BY DEF Goal
  <1>2. form.requested \in Nat /\ form.percent \in Nat
    <2>1. \A n \in 0..100 : n \in Nat
      OBVIOUS
    <2> QED BY FormType, <2>1, Zenon
  <1>3. amounts \subseteq Nat /\ Bounded(amounts)
    BY AmountsType
  <1>4. all \subseteq Nat /\ all # {} /\ Bounded(all)
    <2> HIDE DEF amounts
    <2>1. all \subseteq Nat /\ all # {}
      <3>1. 1 \in Nat
        OBVIOUS
      <3> QED BY <1>2, <1>3, <3>1, Zenon
    <2>2. PICK b \in Nat : \A m \in amounts : m <= b
      BY <1>3 DEF Bounded
    <2>3. b + form.requested + 1 \in Nat
      BY <1>2
    <2>4. \A m \in all : m <= b + form.requested + 1
      BY <1>2, <1>3, <2>2
    <2> QED BY <2>1, <2>3, <2>4 DEF Bounded
  <1>5. Max(all) \in all /\ Max(all) \in Nat /\ \A m \in all : m <= Max(all)
    <2> HIDE DEF all
    <2> QED BY <1>4, MaxIs
  <1>6. acceptable \in Nat
    <2> HIDE DEF all
    <2> QED BY <1>2, <1>5, PercentOfType
  <1>7. Round(form.requested + acceptable, 2) \in Nat
    <2> HIDE DEF acceptable
    <2> QED BY <1>2, <1>6, HalfType
  <1>8. Goal(options, cand) \in Nat
    BY <1>1, <1>7, MedianType
  <1>9. ASSUME form.requested > 0, \A i \in cand : Effective(options[i]) <= form.requested
        PROVE  Max(all) = form.requested
    <2>1. \A m \in all : m <= form.requested
      BY <1>2, <1>9
    <2>2. Max(all) <= form.requested /\ form.requested <= Max(all)
      <3> HIDE DEF all
      <3>1. form.requested \in all
        BY DEF all
      <3> QED BY <1>5, <2>1, <3>1
    <2> HIDE DEF all
    <2> QED BY <1>2, <1>5, <2>2
  <1> QED BY <1>1, <1>8, <1>9

(* _choose_compromise_option_id takes a common option, and none is closer  *)
(* to the goal.                                                            *)
LEMMA ChooseIs ==
  ASSUME form \in Forms, NEW options \in Seq(OptionType),
         NEW common \in SUBSET Ids(options), common # {},
         NEW cand, cand = {i \in DOMAIN options : options[i].id \in common}
  PROVE  /\ cand # {} /\ cand \in SUBSET DOMAIN options
         /\ \E k \in cand :
              /\ Choose(options, common) = options[k].id
              /\ \A j \in cand : Distance(Effective(options[k]), Goal(options, cand))
                                   <= Distance(Effective(options[j]), Goal(options, cand))
  <1>1. cand # {} /\ cand \in SUBSET DOMAIN options
    BY DEF Ids
  <1> DEFINE f == [i \in cand |-> Score(options, cand, i)]
             Near(i) == Distance(Effective(options[i]), Goal(options, cand))
  <1>2. \A a, b \in Nat : Distance(a, b) \in Nat
    BY DEF Distance
  <1>3. /\ Median(options, cand) \in Nat /\ Goal(options, cand) \in Nat
        /\ \A i \in cand : Effective(options[i]) \in Nat
        /\ cand \subseteq Nat
    BY <1>1, MedianType, GoalType, AmountsType
  <1>4. \A i \in cand : /\ f[i][1] = Near(i) /\ f[i][5] = i
                        /\ \A n \in 1..5 : f[i][n] \in Nat
    <2>1. ASSUME NEW i \in cand
          PROVE  /\ f[i][1] = Near(i) /\ f[i][5] = i /\ f[i][2] \in Nat
                 /\ f[i][1] \in Nat /\ f[i][3] \in Nat /\ f[i][4] \in Nat /\ f[i][5] \in Nat
      <3> DEFINE far == Distance(Effective(options[i]), Median(options, cand))
                 lean == IF options[i].lean = "compromise" THEN 0 ELSE 1
                 same == {j \in DOMAIN options : options[j].id = options[i].id}
                 last == Max(same)
      <3>1. f[i] = <<Near(i), lean, far, last, i>>
        BY DEF Score
      <3>2. Near(i) \in Nat /\ lean \in Nat /\ far \in Nat /\ i \in Nat
        BY <1>2, <1>3
      <3>3. last \in Nat
        <4>1. Len(options) \in Nat /\ \A j \in DOMAIN options : j \in Nat /\ j <= Len(options)
          OBVIOUS
        <4>2. same \subseteq Nat /\ same # {} /\ Bounded(same)
          BY <1>1, <4>1 DEF Bounded
        <4> HIDE DEF same
        <4> QED BY <4>2, MaxIs
      <3> HIDE DEF Near, far, lean, last, f
      <3> QED BY <3>1, <3>2, <3>3
    <2>2. \A n \in 1..5 : n = 1 \/ n = 2 \/ n = 3 \/ n = 4 \/ n = 5
      OBVIOUS
    <2> HIDE DEF f, Near
    <2> QED BY <2>1, <2>2
  <1>5. \E i \in cand : \A j \in cand \ {i} : Better(f[i], f[j])
    <2> HIDE DEF f, Near
    <2>1. (\A i \in cand : \A n \in 1..5 : f[i][n] \in Nat) /\ \A i \in cand : f[i][5] = i
      BY <1>4, Zenon
    <2> QED BY <1>1, <2>1, LeastTuple, Zenon
  <1>6. \E i \in cand : \A j \in cand \ {i} :
          Better(Score(options, cand, i), Score(options, cand, j))
    BY <1>5
  <1> DEFINE k == CHOOSE i \in cand : \A j \in cand \ {i} :
                    Better(Score(options, cand, i), Score(options, cand, j))
  <1>7. k \in cand /\ \A j \in cand \ {k} :
                        Better(Score(options, cand, k), Score(options, cand, j))
    BY <1>6
  <1>8. Choose(options, common) = options[k].id
    BY DEF Choose
  <1> HIDE DEF k
  <1>9. \A j \in cand : Near(k) <= Near(j)
    <2>1. ASSUME NEW j \in cand PROVE Near(k) <= Near(j)
      <3>1. Near(k) \in Nat /\ Near(j) \in Nat
        BY <1>2, <1>3, <1>7
      <3>2. CASE j = k
        BY <3>1, <3>2
      <3>3. CASE j # k
        <4>1. Better(f[k], f[j])
          BY <1>7, <3>3
        <4>2. PICK n \in 1..5 : f[k][n] < f[j][n] /\ \A m \in 1..(n - 1) : f[k][m] = f[j][m]
          BY <4>1 DEF Better
        <4>3. f[k][1] = Near(k) /\ f[j][1] = Near(j)
          BY <1>4, <1>7
        <4> HIDE DEF f, Near
        <4>4. CASE n = 1
          BY <3>1, <4>2, <4>3, <4>4
        <4>5. CASE n # 1
          <5>1. 1 \in 1..(n - 1)
            BY <4>5
          <5> QED BY <3>1, <4>2, <4>3, <5>1
        <4> QED BY <4>4, <4>5
      <3> QED BY <3>2, <3>3
    <2> QED BY <2>1
  <1> QED BY <1>1, <1>7, <1>8, <1>9

(* What is acceptable never exceeds what is asked for.                     *)
LEMMA PercentOfLess ==
  ASSUME NEW amount \in Nat, NEW percent \in 0..100
  PROVE  PercentOf(amount, percent) \in Nat /\ PercentOf(amount, percent) <= amount
  <1> DEFINE n == amount * percent
  <1>1. n \in Nat /\ n <= 100 * amount
    OBVIOUS
  <1>2. PercentOf(amount, percent) = Round(n, 100)
    BY DEF PercentOf
  <1> HIDE DEF n
  <1>3. Round(n, 100) \in Nat /\ Round(n, 100) <= amount
    BY <1>1 DEF Round
  <1> QED BY <1>2, <1>3

(* An id leads to the option that has it; in the corner, perhaps to the    *)
(* first option, which is worth nothing, instead of the one worth 1.       *)
LEMMA SoundFind ==
  ASSUME form \in Forms, NEW options \in Seq(OptionType), Sound(options),
         NEW i \in DOMAIN options
  PROVE  /\ Find(options, options[i].id) \in OptionType
         /\ \/ Find(options, options[i].id) = options[i]
            \/ /\ Effective(Find(options, options[i].id)) = 0
               /\ Find(options, options[i].id) = options[1]
               /\ Effective(options[i]) = 1 /\ Steep(options)
  <1>1. options[i].id \in Ids(options)
    BY DEF Ids
  <1>2. PICK k \in DOMAIN options :
          /\ Find(options, options[i].id) = options[k] /\ options[k].id = options[i].id
          /\ \A j \in DOMAIN options : options[j].id = options[i].id => k <= j
    BY <1>1, FindIs
  <1>3. Find(options, options[i].id) \in OptionType
    BY <1>1, FindType
  <1>4. CASE k = i
    BY <1>2, <1>3, <1>4
  <1>5. CASE k # i
    <2>1. k < i
      <3>1. k <= i /\ k \in Nat /\ i \in Nat
        BY <1>2
      <3> QED BY <1>5, <3>1
    <2>2. k = 1 /\ options[1].rub = 0 /\ options[i].rub = 1 /\ Steep(options)
      BY <1>2, <2>1 DEF Sound
    <2> QED BY <1>2, <1>3, <2>2 DEF Effective, NoAmount
  <1> QED BY <1>4, <1>5

(* Of two amounts up to what is asked for, one at least as close to the    *)
(* goal is not farther from both ends.                                     *)
LEMMA MiddleWins ==
  ASSUME NEW asked \in Nat, NEW accepted \in Nat, accepted <= asked,
         NEW x \in Nat, x <= asked, NEW b \in Nat, b <= asked,
         Distance(b, Round(asked + accepted, 2)) <= Distance(x, Round(asked + accepted, 2))
  PROVE  \/ Distance(x, asked) >= Distance(b, asked)
         \/ Distance(x, accepted) >= Distance(b, accepted)
  <1> DEFINE goal == Round(asked + accepted, 2)
  <1>1. goal \in Int /\ 2 * goal - (asked + accepted) \in -1..1
    BY RoundHalves
  <1>2. Distance(b, goal) <= Distance(x, goal)
    OBVIOUS
  <1> HIDE DEF goal
  <1> QED BY <1>1, <1>2 DEF Distance

LEMMA MiddleWinsCorner ==
  ASSUME NEW asked \in Nat, NEW accepted \in Nat, accepted <= asked,
         NEW x \in Nat, x <= asked, x = 0 \/ x >= 50,
         Distance(1, Round(asked + accepted, 2)) <= Distance(x, Round(asked + accepted, 2))
  PROVE  \/ Distance(x, asked) >= Distance(0, asked)
         \/ Distance(x, accepted) >= Distance(0, accepted)
  <1> DEFINE goal == Round(asked + accepted, 2)
  <1>1. goal \in Int /\ 2 * goal - (asked + accepted) \in -1..1
    BY RoundHalves
  <1>2. Distance(1, goal) <= Distance(x, goal)
    OBVIOUS
  <1> HIDE DEF goal
  <1> QED BY <1>1, <1>2 DEF Distance

LEMMA BestIs ==
  ASSUME form \in Forms, NEW options \in Seq(OptionType), Sound(options),
         NEW common \in SUBSET Ids(options), common # {},
         \A id \in common : Effective(Find(options, id)) <= form.requested,
         NEW id \in common
  PROVE  LET Amount(any) == Effective(Find(options, any))
             best == Choose(options, common)
             acceptable == PercentOf(form.requested, form.percent)
         IN \/ Distance(Amount(id), form.requested) >= Distance(Amount(best), form.requested)
            \/ Distance(Amount(id), acceptable) >= Distance(Amount(best), acceptable)
  <1> DEFINE Amount(any) == Effective(Find(options, any))
             best == Choose(options, common)
             asked == form.requested
             acceptable == PercentOf(form.requested, form.percent)
             cand == {i \in DOMAIN options : options[i].id \in common}
             Near(i) == Distance(Effective(options[i]), Goal(options, cand))
             Best == \/ Distance(Amount(id), asked) >= Distance(Amount(best), asked)
                     \/ Distance(Amount(id), acceptable) >= Distance(Amount(best), acceptable)
  <1>1. form.requested \in Nat /\ form.percent \in 0..100
    BY FormType
  <1>2. acceptable \in Nat /\ acceptable <= form.requested
    BY <1>1, PercentOfLess
  <1>3. cand # {} /\ cand \in SUBSET DOMAIN options
    BY ChooseIs
  <1>4. PICK k \in cand : best = options[k].id /\ \A j \in cand : Near(k) <= Near(j)
    BY ChooseIs
  <1>5. \A any \in common : Amount(any) \in Nat /\ Amount(any) <= form.requested
    <2>1. \A any \in common : Find(options, any) \in OptionType
      BY FindType
    <2> QED BY <2>1, EffectiveType
  <1>6. PICK j \in DOMAIN options : Find(options, id) = options[j] /\ options[j].id = id
    BY FindIs
  <1>7. j \in cand /\ k \in cand /\ k \in DOMAIN options /\ best \in common
    BY <1>4, <1>6
  <1>8. \A i \in cand : Effective(options[i]) \in Nat
    BY <1>3, AmountsType
  <1>9. ASSUME form.requested = 0 PROVE Best
    <2>1. Amount(id) = 0 /\ Amount(best) = 0
      BY <1>5, <1>7, <1>9
    <2> HIDE DEF Amount, best, acceptable
    <2> QED BY <1>1, <1>2, <1>9, <2>1 DEF Distance, Best, asked
  <1>10. ASSUME form.requested > 0 PROVE Best
    <2>1. \A i \in cand : Effective(options[i]) <= form.requested
      <3>1. ASSUME NEW i \in cand PROVE Effective(options[i]) <= form.requested
        <4>1. Amount(options[i].id) <= form.requested
          BY <1>5
        <4>2. Find(options, options[i].id) = options[i] \/ Effective(options[i]) = 1
          BY SoundFind
        <4>3. CASE Find(options, options[i].id) = options[i]
          BY <4>1, <4>3
        <4>4. CASE Effective(options[i]) = 1
          BY <1>1, <1>10, <4>4
        <4> QED BY <4>2, <4>3, <4>4
      <3> QED BY <3>1
    <2>2. Goal(options, cand) = Round(form.requested + acceptable, 2)
      <3> HIDE DEF cand
      <3> QED BY <1>3, <1>10, <2>1, GoalType
    <2>3. Near(k) <= Near(j)
      BY <1>4, <1>7
    <2>4. Effective(options[j]) = Amount(id) /\ Amount(id) \in Nat /\ Amount(id) <= asked
      BY <1>5, <1>6
    <2>5. CASE Find(options, best) = options[k]
      <3>1. Effective(options[k]) = Amount(best) /\ Amount(best) \in Nat /\ Amount(best) <= asked
        BY <1>5, <1>7, <2>5
      <3>2. Distance(Amount(best), Round(asked + acceptable, 2))
              <= Distance(Amount(id), Round(asked + acceptable, 2))
        BY <2>2, <2>3, <2>4, <3>1
      <3>3. asked \in Nat /\ acceptable \in Nat /\ acceptable <= asked
        BY <1>1, <1>2
      <3> HIDE DEF Amount, best, acceptable, asked
      <3> QED BY <2>4, <3>1, <3>2, <3>3, MiddleWins DEF Best
    <2>6. CASE Find(options, best) # options[k]
      <3>1. /\ Amount(best) = 0 /\ Effective(options[k]) = 1 /\ Steep(options)
            /\ Find(options, best) = options[1]
        BY <1>4, <1>7, <2>6, SoundFind
      <3>2. Find(options, best).id = best
        BY <1>7, FindType
      <3>3. Amount(id) = 0 \/ Amount(id) >= 50
        <4>1. \/ options[j].rub = 0 \/ options[j].rub >= 50
              \/ options[j].rub = 1 /\ options[j].id = options[1].id
          BY <3>1 DEF Steep
        <4>2. CASE options[j].id = options[1].id
          <5>1. id = best
            BY <1>6, <3>1, <3>2, <4>2
          <5> QED BY <3>1, <5>1
        <4>3. CASE options[j].rub = 0
          BY <2>4, <4>3 DEF Effective, NoAmount
        <4>4. CASE options[j].rub >= 50
          <5>1. options[j].rub \in Nat \cup {NoAmount}
            <6>1. options[j] \in OptionType
              BY ElementType
            <6> QED BY <6>1 DEF OptionType
          <5>2. Effective(options[j]) = options[j].rub
            BY <4>4, <5>1 DEF Effective, NoAmount
          <5> QED BY <2>4, <4>4, <5>2
        <4> QED BY <4>1, <4>2, <4>3, <4>4
      <3>4. Distance(1, Round(asked + acceptable, 2))
              <= Distance(Amount(id), Round(asked + acceptable, 2))
        BY <2>2, <2>3, <2>4, <3>1
      <3>6. asked \in Nat /\ acceptable \in Nat /\ acceptable <= asked
        BY <1>1, <1>2
      <3> HIDE DEF Amount, best, acceptable, asked
      <3>5. \/ Distance(Amount(id), asked) >= Distance(0, asked)
            \/ Distance(Amount(id), acceptable) >= Distance(0, acceptable)
        BY <2>4, <3>3, <3>4, <3>6, MiddleWinsCorner
      <3> QED BY <3>1, <3>5 DEF Best
    <2> QED BY <2>5, <2>6
  <1>11. Best
    <2> HIDE DEF Best
    <2> QED BY <1>1, <1>9, <1>10
  <1> QED BY <1>11

(* What the agreement pays: only the option agreed on changes, and no id;  *)
(* and where the id is there twice, nothing does.                          *)
Twice(options, i) ==
  \E j \in DOMAIN options \ {i} : options[j].id = options[i].id

LEMMA TwiceIs ==
  ASSUME form \in Forms, NEW options \in Seq(OptionType), Sound(options),
         NEW i \in DOMAIN options
  PROVE  IF Twice(options, i) THEN Effective(Find(options, options[i].id)) = 0
         ELSE /\ Find(options, options[i].id) = options[i]
              /\ FindLast(options, options[i].id) = options[i]
  <1>1. options[i].id \in Ids(options)
    BY DEF Ids
  <1>2. PICK k \in DOMAIN options :
          /\ Find(options, options[i].id) = options[k] /\ options[k].id = options[i].id
          /\ \A j \in DOMAIN options : options[j].id = options[i].id => k <= j
    BY <1>1, FindIs
  <1>3. PICK m \in DOMAIN options :
          FindLast(options, options[i].id) = options[m] /\ options[m].id = options[i].id
    BY <1>1, FindLastIs
  <1>4. CASE Twice(options, i)
    <2>1. PICK j \in DOMAIN options \ {i} : options[j].id = options[i].id
      BY <1>4 DEF Twice
    <2>2. k \in Nat /\ i \in Nat /\ j \in Nat /\ i # j /\ k <= i /\ k <= j
      BY <1>2, <2>1
    <2>3. k < i \/ k < j
      BY <2>2
    <2>4. k = 1 /\ options[1].rub = 0
      BY <1>2, <2>1, <2>3 DEF Sound
    <2> QED BY <1>2, <1>4, <2>4 DEF Effective, NoAmount
  <1>5. CASE ~Twice(options, i)
    BY <1>2, <1>3, <1>5 DEF Twice
  <1> QED BY <1>4, <1>5

LEMMA FinalIs ==
  ASSUME form \in Forms, NEW options \in Seq(OptionType), Sound(options),
         NEW pair \in [Party -> VoteType],
         InRange(options, pair["customer"]), InRange(options, pair["performer"]),
         NEW id \in Ids(options)
  PROVE  /\ Final(options, id, pair) \in Seq(OptionType)
         /\ Len(Final(options, id, pair)) = Len(options)
         /\ \A i \in DOMAIN options :
              LET was == options[i]
                  now == Final(options, id, pair)[i]
                  base == Effective(was)
                  a == Named(pair["customer"], was)
                  b == Named(pair["performer"], was)
              IN /\ now.id = was.id
                 /\ was.id # id \/ Twice(options, i) => now = was
                 /\ was.id = id /\ ~Twice(options, i) =>
                      /\ Distance(2 * Effective(now), a + b) <= 51
                      /\ Effective(now) \in Lowest(base)..Highest(base)
                      /\ a \in Lowest(base)..Highest(base)
                      /\ b \in Lowest(base)..Highest(base)
  <1> DEFINE chosen == Find(options, id)
             base0 == Effective(chosen)
             a0 == Named(pair["customer"], chosen)
             b0 == Named(pair["performer"], chosen)
             paid == FinalAmount(base0, a0, b0)
             changed == [i \in DOMAIN options |->
                           IF options[i].id = id
                           THEN [options[i] EXCEPT !.rub = paid] ELSE options[i]]
             result == Final(options, id, pair)
  <1>1. result = IF base0 <= 0 \/ (a0 = base0 /\ b0 = base0) THEN options ELSE changed
    BY DEF Final
  <1>2. chosen \in OptionType /\ chosen.id = id
    BY FindType
  <1>3. base0 \in Nat
    BY <1>2, EffectiveType
  <1>4. \A i \in DOMAIN options : options[i] \in OptionType /\ Effective(options[i]) \in Nat
    BY ElementType, EffectiveType
  (* The amounts two sides may have put to an option.                      *)
  <1>5. ASSUME NEW p \in Party, NEW i \in DOMAIN options, options[i].id = id,
               ~Twice(options, i)
        PROVE  LET base == Effective(options[i])
                   a == Named(pair[p], options[i])
               IN /\ a \in Lowest(base)..Highest(base)
                  /\ chosen = options[i]
                  /\ base = 0 => a = base
    <2> DEFINE base == Effective(options[i])
               vote == pair[p]
               a == Named(vote, options[i])
    <2>1. InRange(options, vote)
      BY DEF Party
    <2>2. chosen = options[i] /\ FindLast(options, id) = options[i]
      BY <1>5, TwiceIs
    <2>3. base \in Lowest(base)..Highest(base)
      <3>1. base \in Nat
        BY <1>4
      <3> HIDE DEF base
      <3> QED BY <3>1, RangeHas
    <2>4. CASE id \in DOMAIN vote.rub
      <3>1. base > 0 /\ vote.rub[id] \in Lowest(base)..Highest(base)
        BY <2>1, <2>2, <2>4 DEF InRange
      <3>2. base # 0
        BY <1>4, <3>1
      <3>3. a = vote.rub[id]
        BY <1>5, <2>4 DEF Named
      <3> QED BY <2>2, <3>1, <3>2, <3>3
    <2>5. CASE id \notin DOMAIN vote.rub
      <3>1. a = base
        BY <1>5, <2>5 DEF Named
      <3> QED BY <2>2, <2>3, <3>1
    <2> QED BY <2>4, <2>5
  <1>6. PICK k \in DOMAIN options : chosen = options[k] /\ options[k].id = id
    BY FindIs
  (* Nothing changes where the id is there twice.                          *)
  <1>7. ASSUME NEW i \in DOMAIN options, options[i].id = id, Twice(options, i)
         PROVE  result = options
    BY <1>1, <1>7, TwiceIs
  <1>8. CASE Twice(options, k)
    <2>1. result = options
      BY <1>6, <1>7, <1>8
    <2>2. \A i \in DOMAIN options : options[i].id = id => Twice(options, i)
      BY <1>6, <1>8 DEF Twice
    <2> HIDE DEF result
    <2>3. ASSUME NEW i \in DOMAIN options
          PROVE  LET was == options[i]
                     now == result[i]
                     base == Effective(was)
                     a == Named(pair["customer"], was)
                     b == Named(pair["performer"], was)
                 IN /\ now.id = was.id
                    /\ was.id # id \/ Twice(options, i) => now = was
                    /\ was.id = id /\ ~Twice(options, i) =>
                         /\ Distance(2 * Effective(now), a + b) <= 51
                         /\ Effective(now) \in Lowest(base)..Highest(base)
                         /\ a \in Lowest(base)..Highest(base)
                         /\ b \in Lowest(base)..Highest(base)
      BY <2>1, <2>2
    <2> QED BY <2>1, <2>3 DEF result
  <1>9. CASE ~Twice(options, k)
    <2>1. \A i \in DOMAIN options :
            options[i].id = id => chosen = options[i] /\ ~Twice(options, i)
      BY <1>6, <1>9 DEF Twice
    <2>2. /\ a0 \in Lowest(base0)..Highest(base0) /\ b0 \in Lowest(base0)..Highest(base0)
      BY <1>5, <1>6, <1>9 DEF Party
    <2>3. /\ paid \in Lowest(base0)..Highest(base0) /\ paid \in Nat
          /\ Distance(2 * paid, a0 + b0) <= 51
      <3> HIDE DEF base0, a0, b0
      <3>1. /\ paid \in Lowest(base0)..Highest(base0)
            /\ Distance(2 * paid, a0 + b0) <= 51
        BY <1>3, <2>2, FinalAmountFair
      <3>2. Lowest(base0) \in Nat /\ Highest(base0) \in Nat
        BY <1>3, RangeType
      <3>3. \A l, h \in Nat : \A n \in l..h : n \in Nat
        OBVIOUS
      <3> QED BY <3>1, <3>2, <3>3
    <2> HIDE DEF paid
    <2>4. /\ result \in Seq(OptionType) /\ Len(result) = Len(options)
          /\ \A i \in DOMAIN options :
               /\ result[i].id = options[i].id
               /\ options[i].id # id => result[i] = options[i]
               /\ result[i] = options[i] \/ (result[i].rub = paid /\ result = changed)
      <3>1. CASE result = options
        BY <3>1
      <3>2. CASE result = changed
        <4>1. Len(options) \in Nat /\ DOMAIN options = 1..Len(options)
          OBVIOUS
        <4>2. ASSUME NEW i \in DOMAIN options
              PROVE  /\ changed[i] \in OptionType /\ changed[i].id = options[i].id
                     /\ options[i].id # id => changed[i] = options[i]
                     /\ changed[i] = options[i] \/ changed[i].rub = paid
          <5>1. options[i] \in OptionType
            BY <1>4
          <5>2. CASE options[i].id = id
            <6>1. changed[i] = [options[i] EXCEPT !.rub = paid]
              BY <5>2
            <6> QED BY <2>3, <5>1, <5>2, <6>1 DEF OptionType
          <5>3. CASE options[i].id # id
            BY <5>1, <5>3
          <5> QED BY <5>2, <5>3
        <4>3. changed = [i \in 1..Len(options) |-> changed[i]]
          BY <4>1
        <4> HIDE DEF changed, result
        <4>4. changed \in Seq(OptionType) /\ Len(changed) = Len(options)
          BY <4>1, <4>2, <4>3
        <4> QED BY <3>2, <4>2, <4>4
      <3> QED BY <1>1, <3>1, <3>2
    <2>5. ASSUME NEW i \in DOMAIN options, options[i].id = id
           PROVE  LET base == Effective(options[i])
                      a == Named(pair["customer"], options[i])
                      b == Named(pair["performer"], options[i])
                  IN /\ Distance(2 * Effective(result[i]), a + b) <= 51
                     /\ Effective(result[i]) \in Lowest(base)..Highest(base)
      <3> DEFINE base == Effective(options[i])
                 a == Named(pair["customer"], options[i])
                 b == Named(pair["performer"], options[i])
      <3>1. base \in Nat /\ base \in Lowest(base)..Highest(base)
        <4>1. base \in Nat
          BY <1>4
        <4> HIDE DEF base
        <4> QED BY <4>1, RangeHas
      <3>2. chosen = options[i] /\ (base = 0 => a = base /\ b = base)
        BY <1>5, <2>1, <2>5 DEF Party
      <3>3. CASE result[i] = options[i] /\ a = base /\ b = base
        <4> HIDE DEF result, a, b
        <4>1. Effective(result[i]) = base
          BY <3>3
        <4>2. Distance(2 * base, base + base) <= 51
          <5> HIDE DEF base
          <5> QED BY <3>1 DEF Distance
        <4> QED BY <3>1, <3>3, <4>1, <4>2 DEF a, b
      <3>4. CASE ~(result[i] = options[i] /\ a = base /\ b = base)
        <4>1. chosen = options[i] /\ base # 0
          <5>1. base = 0 => result = options
            BY <1>1, <3>2
          <5> QED BY <3>2, <3>4, <5>1
        <4>2. base = base0 /\ a = a0 /\ b = b0
          BY <4>1
        <4>3. ~(a0 = base0 /\ b0 = base0)
          <5>1. a0 = base0 /\ b0 = base0 => result = options
            BY <1>1
          <5> QED BY <3>4, <4>2, <5>1
        <4>4. result = changed
          BY <1>1, <1>3, <3>1, <4>1, <4>2, <4>3
        <4>5. result[i] = [options[i] EXCEPT !.rub = paid] /\ options[i] \in OptionType
          BY <1>4, <2>5, <4>4
        <4>6. Effective(result[i]) = paid
          <5>1. result[i].rub = paid
            BY <4>5 DEF OptionType
          <5> QED BY <2>3, <5>1 DEF Effective, NoAmount
        <4> HIDE DEF result, a, b, base, a0, b0, base0
        <4> QED BY <2>3, <4>2, <4>6 DEF a, b, base
      <3> QED BY <3>3, <3>4
    <2>6. \A i \in DOMAIN options : options[i].id = id =>
             LET base == Effective(options[i])
             IN /\ Named(pair["customer"], options[i]) \in Lowest(base)..Highest(base)
                /\ Named(pair["performer"], options[i]) \in Lowest(base)..Highest(base)
      BY <1>5, <2>1 DEF Party
    <2> HIDE DEF result
    <2>7. /\ result \in Seq(OptionType) /\ Len(result) = Len(options)
           /\ \A i \in DOMAIN options :
                LET was == options[i]
                    now == result[i]
                    base == Effective(was)
                    a == Named(pair["customer"], was)
                    b == Named(pair["performer"], was)
                IN /\ now.id = was.id
                   /\ was.id # id \/ Twice(options, i) => now = was
                   /\ was.id = id /\ ~Twice(options, i) =>
                        /\ Distance(2 * Effective(now), a + b) <= 51
                        /\ Effective(now) \in Lowest(base)..Highest(base)
                        /\ a \in Lowest(base)..Highest(base)
                        /\ b \in Lowest(base)..Highest(base)
      BY <2>1, <2>4, <2>5, <2>6
    <2> QED BY <2>7 DEF result
  <1> QED BY <1>8, <1>9

----------------------------------------------------------------------------
(* The invariant.                                                          *)

Shape ==
  /\ form \in Forms
  /\ phase \in {"model_thinking", "waiting_votes", "waiting_final_acceptance",
                "awaiting_moderator"}
  /\ round \in 1..2
  /\ offered \in [1..2 -> Seq(OptionType)]
  /\ votes \in [1..2 -> [Party -> VoteType]]

(* A vote is for options that are offered, and for one at least.           *)
VotesFit ==
  \A r \in 1..2, p \in Party :
    /\ ToSet(votes[r][p].ids) \subseteq Ids(offered[r])
    /\ DOMAIN votes[r][p].rub \subseteq ToSet(votes[r][p].ids)
    /\ votes[r][p] = NoVote \/ votes[r][p].ids # <<>>

(* A round begins without votes, and the second one after two votes.       *)
Stages ==
  /\ round = 1 => \A p \in Party : votes[2][p] = NoVote
  /\ round = 2 => \A p \in Party : votes[1][p].ids # <<>>
  /\ phase = "model_thinking" => \A p \in Party : votes[round][p] = NoVote

Selecting ==
  /\ phase # "waiting_final_acceptance" => selected = {}
  /\ selected = {} \/ \E id \in Ids(offered[round]) : selected = {id}

Offering ==
  phase = "waiting_votes" =>
    /\ Len(offered[round]) \in 3..5
    /\ Sound(offered[round])
    /\ \A p \in Party : InRange(offered[round], votes[round][p])

SettleInv == Shape /\ VotesFit /\ Stages /\ Selecting /\ Offering

LEMMA SettleInit == Init => SettleInv
  <1> SUFFICES ASSUME Init PROVE SettleInv
    OBVIOUS
  <1>1. /\ form \in Forms /\ phase = "model_thinking" /\ round = 1 /\ selected = {}
        /\ offered = <<(<<>>), (<<>>)>>
        /\ votes = [r \in 1..2 |-> [p \in Party |-> NoVote]]
    BY DEF Init
  <1>2. NoVote \in VoteType /\ ToSet(NoVote.ids) = {} /\ DOMAIN NoVote.rub = {}
    BY NoVoteType
  <1>3. \A r \in 1..2, p \in Party : votes[r][p] = NoVote
    BY <1>1
  <1>4. offered \in [1..2 -> Seq(OptionType)]
    <2>1. <<>> \in Seq(OptionType)
      OBVIOUS
    <2>2. offered = [r \in 1..2 |-> <<>>]
      BY <1>1
    <2> QED BY <2>1, <2>2
  <1>5. votes \in [1..2 -> [Party -> VoteType]]
    BY <1>1, <1>2
  <1>6. Shape
    BY <1>1, <1>4, <1>5 DEF Shape
  <1>7. VotesFit
    BY <1>2, <1>3 DEF VotesFit
  <1>8. Stages
    BY <1>1, <1>3 DEF Stages
  <1>9. Selecting /\ Offering
    BY <1>1 DEF Selecting, Offering
  <1> QED BY <1>6, <1>7, <1>8, <1>9 DEF SettleInv

LEMMA SettlePropose ==
  ASSUME SettleInv, NEW answer \in Answers, NEW unsure \in BOOLEAN, Propose(answer, unsure)
  PROVE  SettleInv'
  <1> DEFINE new == Proposed(answer, unsure)
  <1>1. /\ Shape /\ VotesFit /\ Stages /\ Selecting
        /\ phase = "model_thinking" /\ phase' = "waiting_votes"
        /\ offered' = [offered EXCEPT ![round] = new]
        /\ form' = form /\ round' = round /\ votes' = votes /\ selected' = selected
    BY DEF SettleInv, Propose
  <1>2. Proposing
    <2>1. round = 2 => \A p \in Party : votes[1][p].ids[1] \in Ids(offered[1])
      <3> SUFFICES ASSUME round = 2, NEW p \in Party
                   PROVE  votes[1][p].ids[1] \in Ids(offered[1])
        OBVIOUS
      <3>1. votes[1][p].ids # <<>> /\ ToSet(votes[1][p].ids) \subseteq Ids(offered[1])
        BY <1>1 DEF VotesFit, Stages
      <3>2. votes[1][p].ids \in Seq(AnyId)
        <4>1. votes[1][p] \in VoteType
          BY <1>1 DEF Shape
        <4> QED BY <4>1 DEF VoteType
      <3>3. 1 \in DOMAIN votes[1][p].ids
        BY <3>1, <3>2
      <3> QED BY <3>1, <3>3 DEF ToSet
    <2> QED BY <1>1, <2>1 DEF Proposing, Shape
  <1>3. new \in Seq(OptionType) /\ Sound(new) /\ Len(new) \in 3..5
    BY <1>2, ProposedType
  <1> HIDE DEF new
  <1>4. \A p \in Party : votes[round][p] = NoVote
    BY <1>1 DEF Stages
  <1>5. round \in 1..2 /\ offered \in [1..2 -> Seq(OptionType)]
    BY <1>1 DEF Shape
  <1>6. /\ offered' \in [1..2 -> Seq(OptionType)] /\ offered'[round] = new
        /\ \A r \in 1..2 : r # round => offered'[r] = offered[r]
    BY <1>1, <1>3, <1>5
  <1>7. Shape'
    BY <1>1, <1>6 DEF Shape
  <1>8. VotesFit'
    <2>1. ASSUME NEW r \in 1..2, NEW p \in Party
          PROVE  /\ ToSet(votes[r][p].ids) \subseteq Ids(offered'[r])
                 /\ DOMAIN votes[r][p].rub \subseteq ToSet(votes[r][p].ids)
                 /\ votes[r][p] = NoVote \/ votes[r][p].ids # <<>>
      <3>1. CASE r = round
        BY <1>4, <3>1, NoVoteType
      <3>2. CASE r # round
        BY <1>1, <1>6, <3>2 DEF VotesFit
      <3> QED BY <3>1, <3>2
    <2> QED BY <1>1, <2>1 DEF VotesFit
  <1>9. Stages' /\ Selecting'
    BY <1>1 DEF Stages, Selecting
  <1>10. Offering'
    <2>1. Sound(offered[round])'
      <3>1. CASE round = 1
        <4>1. ~Corner
          BY <3>1 DEF Corner
        <4> QED BY <1>1, <1>3, <1>6, <3>1, <4>1 DEF Sound
      <3>2. CASE round = 2
        <4>1. offered'[1] = offered[1]
          BY <1>6, <3>2
        <4>2. Corner' = Corner
          BY <1>1, <4>1 DEF Corner
        <4> QED BY <1>1, <1>3, <1>6, <4>2 DEF Sound
      <3> QED BY <1>5, <3>1, <3>2
    <2>2. \A p \in Party : InRange(offered[round], votes[round][p])'
      BY <1>1, <1>4, NoVoteType DEF InRange
    <2>3. Len(offered[round])' \in 3..5
      BY <1>1, <1>3, <1>6
    <2> QED BY <2>1, <2>2, <2>3 DEF Offering
  <1> QED BY <1>7, <1>8, <1>9, <1>10 DEF SettleInv

(* What storing a vote leaves true.                                        *)
LEMMA CastFits ==
  ASSUME SettleInv, NEW p \in Party, NEW ballot \in Ballots[p], Cast(p, ballot)
  PROVE  /\ form' = form /\ phase = "waiting_votes"
         /\ offered[round] \in Seq(OptionType) /\ Sound(offered[round])
         /\ Len(offered[round]) \in 3..5 /\ selected = {}
         /\ votes' \in [1..2 -> [Party -> VoteType]]
         /\ votes'[round] \in [Party -> VoteType]
         /\ \A r \in 1..2 : r # round => votes'[r] = votes[r]
         /\ votes'[round][p].ids # <<>>
         /\ votes'[round][Other(p)] = votes[round][Other(p)]
         /\ \A r \in 1..2, q \in Party :
              /\ ToSet(votes'[r][q].ids) \subseteq Ids(offered[r])
              /\ DOMAIN votes'[r][q].rub \subseteq ToSet(votes'[r][q].ids)
              /\ votes'[r][q] = NoVote \/ votes'[r][q].ids # <<>>
         /\ \A q \in Party : InRange(offered[round], votes'[round][q])
  <1> DEFINE vote == Vote(offered[round], ballot)
  <1>1. /\ Shape /\ VotesFit /\ Stages /\ Selecting /\ Offering
        /\ phase = "waiting_votes" /\ form' = form
        /\ ToSet(ballot.picks) \subseteq DOMAIN offered[round]
        /\ votes' = [votes EXCEPT ![round][p] = vote]
    BY DEF SettleInv, Cast
  <1>2. /\ form \in Forms /\ round \in 1..2 /\ offered[round] \in Seq(OptionType)
        /\ votes \in [1..2 -> [Party -> VoteType]]
        /\ Len(offered[round]) \in 3..5 /\ Sound(offered[round]) /\ selected = {}
        /\ \A q \in Party : InRange(offered[round], votes[round][q])
    BY <1>1 DEF Shape, Offering, Selecting
  <1>3. VoteFits(offered[round], vote)
    BY <1>1, <1>2, VoteIs
  <1> HIDE DEF vote
  <1>4. /\ vote \in VoteType /\ vote.ids # <<>>
        /\ ToSet(vote.ids) \subseteq Ids(offered[round])
        /\ DOMAIN vote.rub \subseteq ToSet(vote.ids)
        /\ InRange(offered[round], vote)
    BY <1>3 DEF VoteFits
  <1>5. /\ votes' \in [1..2 -> [Party -> VoteType]]
        /\ \A r \in 1..2 : r # round => votes'[r] = votes[r]
        /\ votes'[round][p] = vote
        /\ \A q \in Party : q # p => votes'[round][q] = votes[round][q]
    BY <1>1, <1>2, <1>4
  <1>6. Other(p) \in Party /\ Other(p) # p
    BY DEF Other, Party
  <1>7. ASSUME NEW r \in 1..2, NEW q \in Party
        PROVE  /\ ToSet(votes'[r][q].ids) \subseteq Ids(offered[r])
               /\ DOMAIN votes'[r][q].rub \subseteq ToSet(votes'[r][q].ids)
               /\ votes'[r][q] = NoVote \/ votes'[r][q].ids # <<>>
    <2>1. CASE r = round /\ q = p
      BY <1>4, <1>5, <2>1
    <2>2. CASE r # round \/ q # p
      <3>1. votes'[r][q] = votes[r][q]
        BY <1>5, <2>2
      <3> QED BY <1>1, <3>1 DEF VotesFit
    <2> QED BY <2>1, <2>2
  <1>8. ASSUME NEW q \in Party PROVE InRange(offered[round], votes'[round][q])
    <2>1. CASE q = p
      BY <1>4, <1>5, <2>1
    <2>2. CASE q # p
      BY <1>2, <1>5, <2>2
    <2> QED BY <2>1, <2>2
  <1>9. votes'[round] \in [Party -> VoteType]
    BY <1>2, <1>5
  <1> QED BY <1>1, <1>2, <1>4, <1>5, <1>6, <1>7, <1>8, <1>9

LEMMA SettleAwait ==
  ASSUME SettleInv, NEW p \in Party, NEW ballot \in Ballots[p], Await(p, ballot)
  PROVE  SettleInv'
  <1>1. /\ Cast(p, ballot) /\ phase' = phase /\ round' = round
        /\ offered' = offered /\ selected' = selected
    BY DEF Await
  <1>2. /\ Shape /\ Stages /\ Selecting
    BY DEF SettleInv
  <1>3. /\ form' = form /\ phase = "waiting_votes" /\ selected = {}
        /\ Len(offered[round]) \in 3..5 /\ Sound(offered[round])
        /\ votes' \in [1..2 -> [Party -> VoteType]]
        /\ \A r \in 1..2 : r # round => votes'[r] = votes[r]
        /\ \A r \in 1..2, q \in Party :
             /\ ToSet(votes'[r][q].ids) \subseteq Ids(offered[r])
             /\ DOMAIN votes'[r][q].rub \subseteq ToSet(votes'[r][q].ids)
             /\ votes'[r][q] = NoVote \/ votes'[r][q].ids # <<>>
        /\ \A q \in Party : InRange(offered[round], votes'[round][q])
    BY <1>1, CastFits
  <1>4. Shape'
    BY <1>1, <1>2, <1>3 DEF Shape
  <1>5. VotesFit'
    BY <1>1, <1>3 DEF VotesFit
  <1>6. Stages'
    <2>1. round \in 1..2
      BY <1>2 DEF Shape
    <2> QED BY <1>1, <1>2, <1>3, <2>1 DEF Stages
  <1>7. Selecting'
    BY <1>1, <1>2, <1>3 DEF Selecting
  <1>8. Offering'
    <2>1. Sound(offered[round])'
      BY <1>1, <1>3 DEF Sound, Corner
    <2>2. \A q \in Party : InRange(offered[round], votes[round][q])'
      BY <1>1, <1>3 DEF InRange, Effective
    <2> QED BY <1>1, <1>3, <2>1, <2>2 DEF Offering
  <1> QED BY <1>4, <1>5, <1>6, <1>7, <1>8 DEF SettleInv

LEMMA SettleDiffer ==
  ASSUME SettleInv, NEW p \in Party, NEW ballot \in Ballots[p], Differ(p, ballot)
  PROVE  SettleInv'
  <1>1. /\ Cast(p, ballot) /\ votes[round][Other(p)] # NoVote
        /\ IF round = 1 THEN phase' = "model_thinking" /\ round' = 2
                        ELSE phase' = "awaiting_moderator" /\ round' = round
        /\ offered' = offered /\ selected' = selected
    BY DEF Differ
  <1>2. /\ Shape /\ Stages /\ Selecting
    BY DEF SettleInv
  <1>3. /\ form' = form /\ selected = {}
        /\ votes' \in [1..2 -> [Party -> VoteType]]
        /\ \A r \in 1..2 : r # round => votes'[r] = votes[r]
        /\ votes'[round][p].ids # <<>>
        /\ votes'[round][Other(p)] = votes[round][Other(p)]
        /\ \A r \in 1..2, q \in Party :
             /\ ToSet(votes'[r][q].ids) \subseteq Ids(offered[r])
             /\ DOMAIN votes'[r][q].rub \subseteq ToSet(votes'[r][q].ids)
             /\ votes'[r][q] = NoVote \/ votes'[r][q].ids # <<>>
    BY <1>1, CastFits
  <1>4. round \in 1..2 /\ round' \in 1..2
    BY <1>1, <1>2 DEF Shape
  <1>5. Shape'
    BY <1>1, <1>2, <1>3, <1>4 DEF Shape
  <1>6. VotesFit'
    BY <1>1, <1>3 DEF VotesFit
  <1>7. Stages'
    <2>1. CASE round = 1
      <3>1. \A q \in Party : q = p \/ q = Other(p)
        BY DEF Other, Party
      <3>2. \A q \in Party : votes'[1][q].ids # <<>>
        BY <1>1, <1>3, <2>1, <3>1
      <3>3. \A q \in Party : votes'[2][q] = NoVote
        BY <1>2, <1>3, <2>1 DEF Stages
      <3> QED BY <1>1, <2>1, <3>2, <3>3 DEF Stages
    <2>2. CASE round # 1
      BY <1>1, <1>2, <1>3, <1>4, <2>2 DEF Stages
    <2> QED BY <2>1, <2>2
  <1>8. Selecting' /\ Offering'
    BY <1>1, <1>3 DEF Selecting, Offering
  <1> QED BY <1>5, <1>6, <1>7, <1>8 DEF SettleInv

(* What the two votes agree on.                                            *)
LEMMA AgreeIs ==
  ASSUME SettleInv, NEW p \in Party, NEW ballot \in Ballots[p], Agree(p, ballot),
         NEW common, common = Common(offered[round], votes'[round]),
         NEW id, id = Choose(offered[round], common)
  PROVE  /\ common # {} /\ common \in SUBSET Ids(offered[round]) /\ id \in common
         /\ selected' = {id}
         /\ offered' = [offered EXCEPT ![round] = Final(offered[round], id, votes'[round])]
         /\ \A q \in Party : id \in ToSet(votes'[round][q].ids)
  <1>1. /\ Cast(p, ballot) /\ common # {} /\ selected' = {id}
        /\ offered' = [offered EXCEPT ![round] =
                         Final(offered[round], CHOOSE any \in selected' : TRUE, votes'[round])]
    BY DEF Agree
  <1>2. (CHOOSE any \in selected' : TRUE) = id
    BY <1>1
  <1>3. common \in SUBSET Ids(offered[round])
    BY DEF Common
  <1>4. form \in Forms /\ offered[round] \in Seq(OptionType)
    BY <1>1, CastFits DEF SettleInv, Shape
  <1> DEFINE cand == {i \in DOMAIN offered[round] : offered[round][i].id \in common}
  <1>5. \E k \in cand : id = offered[round][k].id
    BY <1>1, <1>3, <1>4, ChooseIs
  <1>6. id \in common
    BY <1>5
  <1>7. \A q \in Party : id \in ToSet(votes'[round][q].ids)
    BY <1>6 DEF Common, Party
  <1> QED BY <1>1, <1>2, <1>3, <1>6, <1>7

LEMMA SettleAgree ==
  ASSUME SettleInv, NEW p \in Party, NEW ballot \in Ballots[p], Agree(p, ballot)
  PROVE  SettleInv' /\ Settled /\ BestTaken
  <1> DEFINE options == offered[round]
             pair == votes'[round]
             common == Common(options, pair)
             id == Choose(options, common)
             paid == Final(options, id, pair)
  <1>1. /\ Cast(p, ballot) /\ phase' = "waiting_final_acceptance" /\ round' = round
    BY DEF Agree
  <1>2. /\ Shape /\ Stages /\ Selecting
    BY DEF SettleInv
  <1>3. /\ form' = form
        /\ options \in Seq(OptionType) /\ Sound(options)
        /\ votes' \in [1..2 -> [Party -> VoteType]]
        /\ pair \in [Party -> VoteType]
        /\ \A r \in 1..2 : r # round => votes'[r] = votes[r]
        /\ \A r \in 1..2, q \in Party :
             /\ ToSet(votes'[r][q].ids) \subseteq Ids(offered[r])
             /\ DOMAIN votes'[r][q].rub \subseteq ToSet(votes'[r][q].ids)
             /\ votes'[r][q] = NoVote \/ votes'[r][q].ids # <<>>
        /\ \A q \in Party : InRange(options, pair[q])
    BY <1>1, CastFits
  <1>4. /\ common # {} /\ common \in SUBSET Ids(options) /\ id \in common
        /\ selected' = {id} /\ offered' = [offered EXCEPT ![round] = paid]
        /\ \A q \in Party : id \in ToSet(pair[q].ids)
    BY AgreeIs
  <1>5. form \in Forms /\ round \in 1..2 /\ offered \in [1..2 -> Seq(OptionType)]
    BY <1>2 DEF Shape
  <1> HIDE DEF id
  <1>6. /\ paid \in Seq(OptionType) /\ Len(paid) = Len(options)
        /\ \A i \in DOMAIN options :
             LET was == options[i]
                 now == paid[i]
                 base == Effective(was)
                 a == Named(pair["customer"], was)
                 b == Named(pair["performer"], was)
             IN /\ now.id = was.id
                /\ was.id # id \/ Twice(options, i) => now = was
                /\ was.id = id /\ ~Twice(options, i) =>
                     /\ Distance(2 * Effective(now), a + b) <= 51
                     /\ Effective(now) \in Lowest(base)..Highest(base)
                     /\ a \in Lowest(base)..Highest(base)
                     /\ b \in Lowest(base)..Highest(base)
    <2>1. id \in Ids(options) /\ "customer" \in Party /\ "performer" \in Party
      BY <1>4 DEF Party
    <2> HIDE DEF options, pair
    <2> QED BY <1>3, <1>5, <2>1, FinalIs
  <1> HIDE DEF paid
  <1>7. /\ offered' \in [1..2 -> Seq(OptionType)] /\ offered'[round] = paid
        /\ \A r \in 1..2 : r # round => offered'[r] = offered[r]
    BY <1>4, <1>5, <1>6
  <1>8. Ids(paid) = Ids(options)
    <2>1. DOMAIN paid = DOMAIN options
      BY <1>3, <1>6
    <2> QED BY <1>6, <2>1 DEF Ids
  <1>9. \A r \in 1..2 : Ids(offered'[r]) = Ids(offered[r])
    BY <1>7, <1>8
  <1>10. Shape'
    BY <1>1, <1>2, <1>3, <1>7 DEF Shape
  <1>11. VotesFit'
    BY <1>3, <1>9 DEF VotesFit
  <1>12. Stages'
    BY <1>1, <1>2, <1>3, <1>5 DEF Stages
  <1>13. Selecting'
    <2>1. id \in Ids(offered'[round])
      BY <1>4, <1>7, <1>8
    <2> QED BY <1>1, <1>4, <2>1 DEF Selecting
  <1>14. Offering'
    BY <1>1 DEF Offering
  <1>15. Settled
    <2>1. \A i \in DOMAIN options : options[i].id \in selected' <=> options[i].id = id
      BY <1>4
    <2> QED BY <1>4, <1>6, <1>7, <2>1 DEF Settled, Twice
  <1>16. BestTaken
    <2> DEFINE Amount(any) == Effective(Find(options, any))
               acceptable == PercentOf(form.requested, form.percent)
    <2>1. ASSUME \A any \in common : Amount(any) <= form.requested, NEW any \in common
          PROVE  \/ Distance(Amount(any), form.requested) >= Distance(Amount(id), form.requested)
                 \/ Distance(Amount(any), acceptable) >= Distance(Amount(id), acceptable)
      <3> HIDE DEF options, common
      <3> QED BY <1>3, <1>4, <1>5, <2>1, BestIs DEF id
    <2> QED BY <1>4, <2>1 DEF BestTaken
  <1> QED BY <1>10, <1>11, <1>12, <1>13, <1>14, <1>15, <1>16 DEF SettleInv

LEMMA SettleNext ==
  ASSUME SettleInv, [Next]_vars
  PROVE  SettleInv' /\ [Settled]_vars /\ [BestTaken]_vars
  <1>1. ASSUME NEW answer \in Answers, NEW unsure \in BOOLEAN, Propose(answer, unsure)
        PROVE  SettleInv' /\ Settled /\ BestTaken
    <2>1. phase = "model_thinking"
      BY <1>1 DEF Propose
    <2> QED BY <1>1, <2>1, SettlePropose DEF Settled, BestTaken
  <1>2. ASSUME NEW p \in Party, NEW ballot \in Ballots[p], Await(p, ballot)
        PROVE  SettleInv' /\ Settled /\ BestTaken
    <2>1. phase = "waiting_votes" /\ phase' = phase
      BY <1>2 DEF Await, Cast
    <2> QED BY <1>2, <2>1, SettleAwait DEF Settled, BestTaken
  <1>3. ASSUME NEW p \in Party, NEW ballot \in Ballots[p], Agree(p, ballot)
        PROVE  SettleInv' /\ Settled /\ BestTaken
    BY <1>3, SettleAgree
  <1>4. ASSUME NEW p \in Party, NEW ballot \in Ballots[p], Differ(p, ballot)
        PROVE  SettleInv' /\ Settled /\ BestTaken
    <2>1. phase' # "waiting_final_acceptance"
      BY <1>4 DEF Differ
    <2> QED BY <1>4, <2>1, SettleDiffer DEF Settled, BestTaken
  <1>5. CASE UNCHANGED vars
    <2>1. /\ form' = form /\ phase' = phase /\ round' = round /\ offered' = offered
          /\ votes' = votes /\ selected' = selected
      BY <1>5 DEF vars
    <2>2. Shape' /\ VotesFit' /\ Stages' /\ Selecting'
      BY <2>1 DEF SettleInv, Shape, VotesFit, Stages, Selecting
    <2>3. Offering'
      <3>1. Sound(offered[round])' <=> Sound(offered[round])
        BY <2>1 DEF Sound, Corner
      <3>2. \A p \in Party : InRange(offered[round], votes[round][p])'
                               <=> InRange(offered[round], votes[round][p])
        BY <2>1 DEF InRange, Effective
      <3> QED BY <2>1, <3>1, <3>2 DEF SettleInv, Offering
    <2> QED BY <1>5, <2>2, <2>3 DEF SettleInv
  <1> QED BY <1>1, <1>2, <1>3, <1>4, <1>5 DEF Next

LEMMA SettleAlways == Spec => []SettleInv
  <1>1. SettleInv /\ [Next]_vars => SettleInv'
    BY SettleNext
  <1> QED BY SettleInit, <1>1, PTL DEF Spec

(* Whatever the forms, the answers and the ballots, the columns hold what  *)
(* the code takes them to hold: a vote is for options of its round and an  *)
(* amount for an option voted for.                                         *)
THEOREM SettlementTypes == Spec => []TypeOK
  <1>1. SettleInv => TypeOK
    <2> SUFFICES ASSUME SettleInv PROVE TypeOK
      OBVIOUS
    <2>1. selected \subseteq Ids(offered[round]) /\ Cardinality(selected) <= 1
      <3>1. CASE selected = {}
        BY <3>1, FS_EmptySet
      <3>2. ASSUME NEW id \in Ids(offered[round]), selected = {id}
            PROVE  selected \subseteq Ids(offered[round]) /\ Cardinality(selected) <= 1
        <4>1. Cardinality({id}) = 1
          BY FS_Singleton
        <4> QED BY <3>2, <4>1
      <3> QED BY <3>1, <3>2 DEF SettleInv, Selecting
    <2> QED BY <2>1 DEF SettleInv, Shape, VotesFit, TypeOK
  <1> QED BY <1>1, SettleAlways, PTL

(* _normalize_llm_response: three to five options under ids of their own,  *)
(* but for the corner.                                                     *)
THEOREM ThreeToFiveOptions == Spec => []EnoughToChoose
  <1>1. SettleInv => EnoughToChoose
    <2> SUFFICES ASSUME SettleInv, phase = "waiting_votes"
                 PROVE  /\ Len(offered[round]) \in 3..5
                        /\ \/ Corner
                           \/ \A i, j \in DOMAIN offered[round] :
                                offered[round][i].id = offered[round][j].id => i = j
      BY DEF EnoughToChoose, Corner
    <2>1. /\ offered[round] \in Seq(OptionType) /\ Len(offered[round]) \in 3..5
          /\ Sound(offered[round])
      BY DEF SettleInv, Shape, Offering
    <2>2. \A i \in DOMAIN offered[round] : i \in Nat
      BY <2>1
    <2>3. \A i, j \in Nat : i < j \/ j < i \/ i = j
      OBVIOUS
    <2>4. ASSUME ~Corner, NEW i \in DOMAIN offered[round], NEW j \in DOMAIN offered[round],
                 offered[round][i].id = offered[round][j].id
          PROVE  i = j
      <3>1. ~(i < j) /\ ~(j < i)
        BY <2>1, <2>4 DEF Sound
      <3> QED BY <2>2, <2>3, <3>1
    <2> QED BY <2>1, <2>4
  <1> QED BY <1>1, SettleAlways, PTL

(* select_settlement_option: what two votes settle on is an option both    *)
(* sides picked, at an amount between what the two put to it, or, when its *)
(* id was offered twice, as it was offered.                                *)
THEOREM SettlementIsFair == Spec => FairSettlement
  <1>1. SettleInv /\ [Next]_vars => [Settled]_vars
    BY SettleNext
  <1> QED BY <1>1, SettleAlways, PTL DEF Spec, FairSettlement

(* _choose_compromise_option_id: no other common option is closer to the   *)
(* positions of both sides than the one taken.                             *)
THEOREM CompromiseTaken == Spec => MostCompromise
  <1>1. SettleInv /\ [Next]_vars => [BestTaken]_vars
    BY SettleNext
  <1> QED BY <1>1, SettleAlways, PTL DEF Spec, MostCompromise
=============================================================================
