-------------------------- MODULE AdaptiveUDPProofs --------------------------
(***************************************************************************)
(* The adaptive search for every set of experiments and every network: it  *)
(* stays within its budgets, tests no rate twice, and reports no more than *)
(* it observed.                                                            *)
(*                                                                         *)
(* The invariant describes the retained history: every rate has exactly    *)
(* one batch that chose it, and its other batches confirm it.  What the    *)
(* planner chooses from such a history extends it to another one.          *)
(***************************************************************************)
EXTENDS AdaptiveUDP, NumberLemmas

Steps == {"initial_grid", Confirming, "refine_differing_outcomes"}

Batch ==
    [rates : Seq(Nat), reason : Steps, depth : Nat,
     seen : UNION {[rates -> SUBSET Kinds] : rates \in SUBSET Nat}, stopped : BOOLEAN]

\* A batch observed something at each of its rates, and chose them within the
\* limits on rate and depth.
Sound(b) ==
    /\ b.reason # Confirming => b.depth <= prepared.maxDepth
    /\ \A rate \in Range(b.rates) :
           /\ b.seen[rate] \in SUBSET Kinds /\ b.seen[rate] # {}
           /\ Min(Range(prepared.grid)) <= rate /\ rate <= Max(Range(prepared.grid))

\* A rate is chosen by one batch, and otherwise confirmed.
ChosenOnce ==
    /\ \A i, j \in DOMAIN history :
           /\ history[i].reason # Confirming /\ history[j].reason # Confirming
           /\ Range(history[i].rates) \cap Range(history[j].rates) # {}
           => i = j
    /\ \A rate \in Tested : \E i \in Batches(rate) : history[i].reason # Confirming

\* Neither confirmations nor distinct rates exceed what was asked for.
Counted ==
    /\ \A rate \in Tested : Confirmations(rate) <= prepared.confirmations
    /\ IsFiniteSet(Tested) /\ Cardinality(Tested) <= prepared.maxRates

\* The last decision follows from the history it was made for.
Decided ==
    /\ at \in {"choose", "run", "ended"}
    /\ at # "choose" => decision = Choose
    /\ at = "run" => decision.rates # <<>>

SearchInv ==
    /\ prepared \in Experiments /\ history \in Seq(Batch)
    /\ \A i \in DOMAIN history : Sound(history[i])
    /\ ChosenOnce /\ Counted /\ WithinBudgets /\ Decided

-----------------------------------------------------------------------------
\* What ExperimentsAssumption says of the experiment.
LEMMA PreparedExperiment ==
    ASSUME prepared \in Experiments
    PROVE  /\ prepared \in ExperimentType /\ Prepared(prepared)
           /\ prepared.grid \in Seq(Nat) /\ prepared.grid # <<>>
           /\ prepared.maxRates \in Nat /\ prepared.maxDepth \in Nat
           /\ prepared.confirmations \in Nat \ {0}
<1>1. prepared \in ExperimentType /\ Prepared(prepared)
  BY ExperimentsAssumption
<1>2. prepared.grid \in Seq(Nat \ {0}) /\ prepared.maxRates \in Nat
      /\ prepared.maxDepth \in Nat /\ prepared.confirmations \in Nat \ {0}
  BY <1>1 DEF ExperimentType
<1>3. Len(prepared.grid) \in 1..prepared.maxRates
  BY <1>1 DEF Prepared
<1> QED BY <1>1, <1>2, <1>3

\* The tested rates are positions of the history's batches.
LEMMA TestedRates ==
    ASSUME history \in Seq(Batch)
    PROVE  /\ Tested \in SUBSET Nat
           /\ \A rate : rate \in Tested <=> Batches(rate) # {}
           /\ \A i \in DOMAIN history : history[i] \in Batch /\ Range(history[i].rates) \in SUBSET Tested
           /\ \A rate : IsFiniteSet(Batches(rate)) /\ Batches(rate) \in SUBSET DOMAIN history
<1>1. \A i \in DOMAIN history : history[i] \in Batch
  OBVIOUS
<1>2. \A i \in DOMAIN history : Range(history[i].rates) \in SUBSET Nat
  BY <1>1 DEF Batch, Range
<1>3. Len(history) \in Nat /\ DOMAIN history = 1..Len(history)
  OBVIOUS
<1>4. IsFiniteSet(DOMAIN history)
  BY <1>3, FS_Interval
<1>5. \A rate : Batches(rate) \in SUBSET DOMAIN history
  BY DEF Batches
<1>6. \A rate : IsFiniteSet(Batches(rate))
  BY <1>4, <1>5, FS_Subset
<1>7. Tested \in SUBSET Nat
  BY <1>2 DEF Tested
<1>8. \A rate : rate \in Tested <=> Batches(rate) # {}
  BY DEF Tested, Batches
<1>9. \A i \in DOMAIN history : Range(history[i].rates) \in SUBSET Tested
  BY DEF Tested
<1> QED BY <1>1, <1>5, <1>6, <1>7, <1>8, <1>9

\* A retained batch adds its rates and one position.
LEMMA Extended ==
    ASSUME history \in Seq(Batch), NEW b \in Batch, history' = Append(history, b)
    PROVE  LET new == Len(history) + 1
           IN  /\ history' \in Seq(Batch)
               /\ DOMAIN history' = DOMAIN history \cup {new} /\ new \notin DOMAIN history
               /\ \A i \in DOMAIN history : history'[i] = history[i]
               /\ history'[new] = b
               /\ Tested' = Tested \cup Range(b.rates)
               /\ \A rate : Batches(rate)' =
                      Batches(rate) \cup (IF rate \in Range(b.rates) THEN {new} ELSE {})
<1> DEFINE new == Len(history) + 1
<1>1. /\ history' \in Seq(Batch) /\ Len(history) \in Nat
      /\ DOMAIN history = 1..Len(history) /\ DOMAIN history' = 1..new
      /\ \A i \in DOMAIN history : history'[i] = history[i]
      /\ history'[new] = b
  OBVIOUS
<1>2. DOMAIN history' = DOMAIN history \cup {new} /\ new \notin DOMAIN history
  BY <1>1
<1> HIDE DEF new
<1>3. Tested' = Tested \cup Range(b.rates)
  BY <1>1, <1>2 DEF Tested
<1>4. \A rate : Batches(rate)' =
          Batches(rate) \cup (IF rate \in Range(b.rates) THEN {new} ELSE {})
  BY <1>1, <1>2 DEF Batches
<1> QED BY <1>1, <1>2, <1>3, <1>4 DEF new

\* A rate that is chosen once has one batch more than confirmations.
LEMMA ConfirmationCount ==
    ASSUME history \in Seq(Batch), ChosenOnce, NEW rate \in Tested
    PROVE  /\ Confirmations(rate) \in Nat
           /\ Cardinality(Batches(rate)) = 1 + Confirmations(rate)
<1> DEFINE C == {i \in Batches(rate) : history[i].reason = Confirming}
<1>1. PICK i \in Batches(rate) : history[i].reason # Confirming
  BY DEF ChosenOnce
<1>2. Batches(rate) = C \cup {i} /\ i \notin C
  <2>1. \A j \in Batches(rate) : history[j].reason # Confirming => j = i
    <3> SUFFICES ASSUME NEW j \in Batches(rate), history[j].reason # Confirming
                 PROVE  j = i
      OBVIOUS
    <3>1. /\ i \in DOMAIN history /\ j \in DOMAIN history
          /\ rate \in Range(history[i].rates) \cap Range(history[j].rates)
      BY DEF Batches
    <3> QED BY <1>1, <3>1 DEF ChosenOnce
  <2> QED BY <1>1, <2>1
<1>3. IsFiniteSet(C)
  <2>1. IsFiniteSet(Batches(rate)) /\ C \in SUBSET Batches(rate)
    BY TestedRates
  <2> QED BY <2>1, FS_Subset
<1>4. Confirmations(rate) = Cardinality(C)
  BY DEF Confirmations
<1> HIDE DEF C
<1>5. Cardinality(C) \in Nat /\ Cardinality(C \cup {i}) = Cardinality(C) + 1
  BY <1>2, <1>3, FS_AddElement, FS_CardinalityType
<1> QED BY <1>2, <1>4, <1>5

\* The depth of a tested rate is that of the batch that chose it.
LEMMA DepthWithinLimit ==
    ASSUME SearchInv, NEW rate \in Tested
    PROVE  Depth(rate) \in Nat /\ Depth(rate) <= prepared.maxDepth
<1> DEFINE i == CHOOSE i \in Batches(rate) : history[i].reason # Confirming
<1>1. i \in Batches(rate) /\ history[i].reason # Confirming
  BY DEF SearchInv, ChosenOnce
<1>2. i \in DOMAIN history
  BY <1>1 DEF Batches
<1>3. Depth(rate) = history[i].depth
  BY DEF Depth
<1> HIDE DEF i
<1>4. history[i].depth <= prepared.maxDepth
  BY <1>1, <1>2 DEF SearchInv, Sound
<1>5. history[i].depth \in Nat
  <2>1. history[i] \in Batch
    BY <1>2 DEF SearchInv
  <2> QED BY <2>1 DEF Batch
<1> QED BY <1>3, <1>4, <1>5

\* Tested rates lie between the endpoints of the grid.
LEMMA RateWithinEndpoints ==
    ASSUME SearchInv, NEW rate \in Tested
    PROVE  Min(Range(prepared.grid)) <= rate /\ rate <= Max(Range(prepared.grid))
<1>1. PICK i \in DOMAIN history : rate \in Range(history[i].rates)
  BY DEF Tested
<1> QED BY <1>1 DEF SearchInv, Sound

\* The invariant bounds the search.
LEMMA BoundedByInv == SearchInv => SearchBounded
<1> SUFFICES ASSUME SearchInv PROVE SearchBounded
  OBVIOUS
<1>1. WithinBudgets
  BY DEF SearchInv
<1>2. ASSUME NEW rate \in Tested
      PROVE  /\ Min(Range(prepared.grid)) <= rate /\ rate <= Max(Range(prepared.grid))
             /\ Depth(rate) <= prepared.maxDepth
             /\ Cardinality(Batches(rate)) = 1 + Confirmations(rate)
             /\ Confirmations(rate) <= prepared.confirmations
  BY ConfirmationCount, DepthWithinLimit, RateWithinEndpoints DEF SearchInv, Counted
<1>3. Cardinality(Tested) <= prepared.maxRates
  BY DEF SearchInv, Counted
<1> QED BY <1>1, <1>2, <1>3 DEF SearchBounded, EachRateOnce

-----------------------------------------------------------------------------
(* What the planner chooses.                                               *)

Limits == {"trial_count_limit", "active_time_limit", "payload_limit"}

\* A candidate is admitted as it is, or its limit ends the search.
LEMMA ProposeCases ==
    ASSUME NEW rates, NEW reason, NEW depth
    PROVE  \/ /\ Refusal(prepared, history, rates) = "none"
              /\ Propose(rates, reason, depth)
                     = [rates |-> rates, reason |-> reason, depth |-> depth]
           \/ /\ Propose(rates, reason, depth).rates = <<>>
              /\ Propose(rates, reason, depth).reason \in Limits
<1>1. Refusal(prepared, history, rates) \in Limits \cup {"none"}
  BY DEF Refusal, Limits
<1> QED BY <1>1 DEF Propose, Ends, Limits

\* The promising and the eligible rates are finitely many tested ones.
LEMMA PlannerSets ==
    ASSUME SearchInv
    PROVE  /\ Tested \in SUBSET Nat /\ IsFiniteSet(Tested)
           /\ With("eligible") \in SUBSET Tested
           /\ Promising \in SUBSET Tested /\ IsFiniteSet(Promising)
           /\ HighestEligible \in With("eligible") \cup {0}
           /\ \A rate \in With("eligible") : rate <= HighestEligible
<1>1. Tested \in SUBSET Nat /\ IsFiniteSet(Tested)
  BY TestedRates DEF SearchInv, Counted
<1>2. With("eligible") \in SUBSET Tested /\ Promising \in SUBSET Tested
  BY DEF With, Promising
<1>3. IsFiniteSet(With("eligible")) /\ IsFiniteSet(Promising)
  BY <1>1, <1>2, FS_Subset
<1> DEFINE S == With("eligible") \cup {0}
<1>4. S \in SUBSET Int /\ S # {} /\ With("eligible") \in SUBSET S
  <2>1. \A x \in With("eligible") : x \in Nat
    BY <1>1, <1>2
  <2>2. S \in SUBSET Int
    BY <2>1
  <2> QED BY <2>2
<1>5. IsFiniteSet(S)
  BY <1>3, FS_AddElement
<1>6. HighestEligible = Max(S)
  BY DEF HighestEligible
<1> HIDE DEF S
<1>7. Max(S) \in S /\ \A y \in S : y <= Max(S)
  BY <1>4, <1>5, MaxIsGreatest
<1>8. \A rate \in With("eligible") : rate <= HighestEligible
  BY <1>4, <1>6, <1>7
<1> QED BY <1>1, <1>2, <1>3, <1>6, <1>7, <1>8 DEF S

\* A refinement bisects a gap between tested neighbours: its rate is new, lies
\* between tested rates, and is one deeper than they are.
LEMMA RefineShape ==
    ASSUME SearchInv, Refinable # {}
    PROVE  \E low, high \in Tested, mid \in Nat, depth \in Nat :
               /\ low < mid /\ mid < high /\ mid \notin Tested
               /\ depth <= prepared.maxDepth
               /\ Refine = Propose(<<mid>>, "refine_differing_outcomes", depth)
<1> DEFINE best(pair) == \A other \in Refinable : other[1] <= pair[1]
           pair == CHOOSE pair \in Refinable : best(pair)
           Lows == {rate \in Tested : \E q \in Refinable : q[1] = rate}
<1>1. \A q \in Refinable : /\ q \in Tested \X Tested /\ q[1] < q[2] /\ q[2] - q[1] > 1
                           /\ ~\E rate \in Tested : q[1] < rate /\ rate < q[2]
                           /\ DepthOf(q) < prepared.maxDepth
  BY DEF Refinable, Splittable, Differing, HasGap
<1>2. \E q \in Refinable : best(q)
  <2>1. Lows \in SUBSET Int /\ IsFiniteSet(Lows)
    <3>1. Lows \in SUBSET Tested
      OBVIOUS
    <3> HIDE DEF Lows
    <3> QED BY <3>1, PlannerSets, FS_Subset
  <2>2. Lows # {} /\ \A q \in Refinable : q[1] \in Lows
    BY <1>1
  <2> HIDE DEF Lows
  <2>3. PICK x \in Lows : \A y \in Lows : y <= x
    BY <2>1, <2>2, GreatestMember
  <2>4. PICK q \in Refinable : q[1] = x
    BY <2>3 DEF Lows
  <2> QED BY <2>2, <2>3, <2>4
<1>3. pair \in Refinable
  BY <1>2
<1>4. Refine = Propose(<<(pair[1] + pair[2]) \div 2>>, "refine_differing_outcomes",
                       DepthOf(pair) + 1)
  BY DEF Refine
<1> HIDE DEF pair
<1>5. /\ pair[1] \in Tested /\ pair[2] \in Tested /\ pair[1] < pair[2]
      /\ pair[2] - pair[1] > 1 /\ DepthOf(pair) < prepared.maxDepth
      /\ ~\E rate \in Tested : pair[1] < rate /\ rate < pair[2]
  BY <1>1, <1>3
<1>6. pair[1] \in Nat /\ pair[2] \in Nat
  BY <1>5, PlannerSets
<1> DEFINE mid == (pair[1] + pair[2]) \div 2
<1>7. mid \in Nat /\ pair[1] < mid /\ mid < pair[2]
  BY <1>5, <1>6
<1>8. DepthOf(pair) \in Nat
  <2> DEFINE D == {Depth(pair[1]), Depth(pair[2])}
  <2>1. Depth(pair[1]) \in Nat /\ Depth(pair[2]) \in Nat
    BY <1>5, DepthWithinLimit
  <2>2. D \in SUBSET Nat /\ D # {} /\ \E x \in D : \A y \in D : x >= y
    BY <2>1
  <2>3. DepthOf(pair) = CHOOSE x \in D : \A y \in D : x >= y
    BY DEF DepthOf, Max
  <2> HIDE DEF D
  <2> QED BY <2>2, <2>3
<1>9. DepthOf(pair) + 1 \in Nat /\ DepthOf(pair) + 1 <= prepared.maxDepth
  BY <1>5, <1>8, PreparedExperiment DEF SearchInv
<1> HIDE DEF mid
<1>10. Refine = Propose(<<mid>>, "refine_differing_outcomes", DepthOf(pair) + 1)
  BY <1>4 DEF mid
<1>11. mid \notin Tested
  BY <1>5, <1>7
<1> QED BY <1>5, <1>7, <1>9, <1>10, <1>11

\* The planner reads nothing but the experiment and the history.
LEMMA PlannerIsAFunction ==
    ASSUME UNCHANGED <<prepared, history>>
    PROVE  /\ Tested' = Tested /\ Choose' = Choose
           /\ \A rate : Batches(rate)' = Batches(rate)
           /\ \A rate : Confirmations(rate)' = Confirmations(rate)
<1>1. Tested' = Tested /\ \A rate : Batches(rate)' = Batches(rate)
  BY DEF Tested, Batches
<1>2. \A rate : Seen(rate)' = Seen(rate) /\ Depth(rate)' = Depth(rate)
  BY <1>1 DEF Seen, Depth
<1>3. \A rate : Confirmations(rate)' = Confirmations(rate)
  BY <1>1 DEF Confirmations
<1>4. \A rate : Status(rate)' = Status(rate)
  BY <1>2, <1>3 DEF Status
<1>5. \A status : With(status)' = With(status)
  BY <1>1, <1>4 DEF With
<1>6. HighestEligible' = HighestEligible
  BY <1>5 DEF HighestEligible
<1>7. Promising' = Promising
  BY <1>5, <1>6 DEF Promising
<1>8. \A rate : Outcome(rate)' = Outcome(rate)
  BY <1>4 DEF Outcome
<1>9. Differing' = Differing
  BY <1>1, <1>8 DEF Differing
<1>10. Splittable' = Splittable
  BY <1>9 DEF Splittable
<1>11. \A pair : DepthOf(pair)' = DepthOf(pair)
  BY <1>2 DEF DepthOf
<1>12. Refinable' = Refinable
  BY <1>10, <1>11 DEF Refinable
<1>13. \A rates, reason, depth :
           Propose(rates, reason, depth)' = Propose(rates, reason, depth)
  BY DEF Propose
<1>14. Refine' = Refine
  BY <1>11, <1>12, <1>13 DEF Refine
<1>15. Exhausted' = Exhausted
  BY <1>9, <1>10 DEF Exhausted
<1>16. Choose' = Choose
  BY <1>1, <1>2, <1>7, <1>12, <1>13, <1>14, <1>15 DEF Choose
<1> QED BY <1>1, <1>3, <1>16

\* The planner's choice, case by case.
LEMMA ChooseCases ==
    \/ /\ history = <<>> /\ Choose = Propose(prepared.grid, "initial_grid", 0)
    \/ Choose = Ends("execution_stopped")
    \/ /\ Promising # {}
       /\ Choose = Propose(<<Max(Promising)>>, Confirming, Depth(Max(Promising)))
    \/ Promising = {} /\ Refinable = {} /\ Choose = Ends(Exhausted)
    \/ Promising = {} /\ Choose = Ends("distinct_rate_limit")
    \/ /\ Promising = {} /\ Refinable # {} /\ ~(Cardinality(Tested) >= prepared.maxRates)
       /\ Choose = Refine
  BY DEF Choose

\* A batch that is chosen is the initial grid, the confirmation of a rate that
\* still needs one, or a new rate.
ChosenBatch(d) ==
    /\ Refusal(prepared, history, d.rates) = "none"
    /\ d.rates \in Seq(Nat) /\ d.reason \in Steps /\ d.depth \in Nat
    /\ \/ /\ history = <<>> /\ d.rates = prepared.grid
          /\ d.reason = "initial_grid" /\ d.depth = 0
       \/ /\ d.reason = Confirming
          /\ \E rate \in Tested : /\ d.rates = <<rate>>
                                  /\ Confirmations(rate) < prepared.confirmations
       \/ /\ d.reason = "refine_differing_outcomes" /\ d.depth <= prepared.maxDepth
          /\ Cardinality(Tested) < prepared.maxRates
          /\ \E low, high \in Tested, mid \in Nat :
                 /\ d.rates = <<mid>> /\ mid \notin Tested
                 /\ low < mid /\ mid < high

\* Whatever the history, the planner chooses such a batch or ends the search.
LEMMA ChooseShape ==
    ASSUME SearchInv, Choose.rates # <<>>
    PROVE  ChosenBatch(Choose)
<1>0. \A reason : Ends(reason).rates = <<>>
  BY DEF Ends
<1>1. CASE history = <<>> /\ Choose = Propose(prepared.grid, "initial_grid", 0)
  <2>1. /\ Refusal(prepared, history, prepared.grid) = "none"
        /\ Choose = [rates |-> prepared.grid, reason |-> "initial_grid", depth |-> 0]
    BY <1>1, ProposeCases
  <2>2. prepared.grid \in Seq(Nat)
    BY PreparedExperiment DEF SearchInv
  <2> QED BY <1>1, <2>1, <2>2 DEF ChosenBatch, Steps
<1>2. CASE /\ Promising # {}
           /\ Choose = Propose(<<Max(Promising)>>, Confirming, Depth(Max(Promising)))
  <2> DEFINE rate == Max(Promising)
  <2>1. rate \in Promising
    <3>1. Promising \in SUBSET Int /\ IsFiniteSet(Promising)
      BY PlannerSets
    <3> QED BY <1>2, <3>1, MaxIsGreatest
  <2> HIDE DEF rate
  <2>2. rate \in Tested /\ Confirmations(rate) < prepared.confirmations
    BY <2>1 DEF Promising, With, Status
  <2>3. rate \in Nat /\ Depth(rate) \in Nat
    BY <2>2, PlannerSets, DepthWithinLimit
  <2>4. /\ Refusal(prepared, history, <<rate>>) = "none"
        /\ Choose = [rates |-> <<rate>>, reason |-> Confirming, depth |-> Depth(rate)]
    BY <1>2, ProposeCases DEF rate
  <2>5. <<rate>> \in Seq(Nat)
    BY <2>3
  <2> QED BY <2>2, <2>3, <2>4, <2>5 DEF ChosenBatch, Steps
<1>3. CASE /\ Promising = {} /\ Refinable # {} /\ ~(Cardinality(Tested) >= prepared.maxRates)
           /\ Choose = Refine
  <2>1. PICK low \in Tested, high \in Tested, mid \in Nat, depth \in Nat :
               /\ low < mid /\ mid < high /\ mid \notin Tested
               /\ depth <= prepared.maxDepth
               /\ Refine = Propose(<<mid>>, "refine_differing_outcomes", depth)
    BY <1>3, RefineShape
  <2>2. /\ Refusal(prepared, history, <<mid>>) = "none"
        /\ Choose = [rates |-> <<mid>>, reason |-> "refine_differing_outcomes", depth |-> depth]
    BY <1>3, <2>1, ProposeCases
  <2>3. Cardinality(Tested) < prepared.maxRates
    <3>1. Cardinality(Tested) \in Nat /\ prepared.maxRates \in Nat
      BY FS_CardinalityType, PlannerSets, PreparedExperiment DEF SearchInv
    <3> QED BY <1>3, <3>1
  <2>4. <<mid>> \in Seq(Nat)
    OBVIOUS
  <2> QED BY <2>1, <2>2, <2>3, <2>4 DEF ChosenBatch, Steps
<1> QED BY <1>0, <1>1, <1>2, <1>3, ChooseCases

-----------------------------------------------------------------------------
(* What a batch does to the history.                                       *)

\* The endpoints are rates of the grid.
LEMMA Endpoints ==
    ASSUME prepared \in Experiments
    PROVE  /\ Range(prepared.grid) \in SUBSET Nat
           /\ Min(Range(prepared.grid)) \in Nat /\ Max(Range(prepared.grid)) \in Nat
           /\ \A rate \in Range(prepared.grid) :
                  Min(Range(prepared.grid)) <= rate /\ rate <= Max(Range(prepared.grid))
<1> DEFINE R == Range(prepared.grid)
<1>1. prepared.grid \in Seq(Nat) /\ prepared.grid # <<>>
  BY PreparedExperiment
<1>2. R \in SUBSET Nat /\ IsFiniteSet(R)
  BY <1>1, RangeFinite
<1>3. R # {}
  <2>1. 1 \in DOMAIN prepared.grid
    BY <1>1
  <2> QED BY <2>1 DEF Range
<1> HIDE DEF R
<1>4. R \in SUBSET Int
  BY <1>2
<1>5. Min(R) \in R /\ Max(R) \in R /\ \A rate \in R : Min(R) <= rate /\ rate <= Max(R)
  BY <1>2, <1>3, <1>4, MinIsLeast, MaxIsGreatest
<1>6. Min(R) \in Nat /\ Max(R) \in Nat
  BY <1>2, <1>5
<1> QED BY <1>2, <1>5, <1>6 DEF R

\* What is reserved grows by the new batch.
LEMMA ReservedGrows ==
    ASSUME prepared \in Experiments, history \in Seq(Batch), NEW b \in Batch
    PROVE  LET grown == Append(history, b)
           IN  /\ UsedTrials(prepared, grown) = UsedTrials(prepared, history) + TrialsOf(prepared, b.rates)
               /\ UsedActive(prepared, grown) = UsedActive(prepared, history) + ActiveOf(prepared, b.rates)
               /\ UsedBits(prepared, grown) = UsedBits(prepared, history) + BitsOf(prepared, b.rates)
               /\ UsedTrials(prepared, grown) \in Int /\ UsedActive(prepared, grown) \in Int
               /\ UsedBits(prepared, grown) \in Int
<1> DEFINE grown == Append(history, b)
<1>1. prepared \in ExperimentType
  BY PreparedExperiment
<1>2. /\ prepared.repetitions \in Nat /\ prepared.warmups \in Nat /\ prepared.seconds \in Nat
      /\ prepared.streams \in Nat \ {0}
  BY <1>1 DEF ExperimentType
<1>3. /\ DOMAIN grown = 1..(Len(history) + 1) /\ DOMAIN history = 1..Len(history)
      /\ Len(history) \in Nat /\ grown[Len(history) + 1] = b
      /\ \A i \in DOMAIN history : grown[i] = history[i]
      /\ \A i \in DOMAIN grown : grown[i] \in Batch
  OBVIOUS
<1> HIDE DEF grown
<1>4. ASSUME NEW rates \in Seq(Nat)
      PROVE  /\ TrialsOf(prepared, rates) \in Int /\ ActiveOf(prepared, rates) \in Int
             /\ BitsOf(prepared, rates) \in Int
  <2>1. TrialsOf(prepared, rates) \in Int
    BY <1>2 DEF TrialsOf
  <2>2. ActiveOf(prepared, rates) \in Int
    BY <1>2, <2>1 DEF ActiveOf
  <2> DEFINE bits(i) == Allocated(prepared, rates[i]) * ActiveOf(prepared, <<rates[i]>>)
             all == [i \in DOMAIN rates |-> bits(i)]
  <2>3. \A i \in DOMAIN rates : bits(i) \in Int
    <3> SUFFICES ASSUME NEW i \in DOMAIN rates PROVE bits(i) \in Int
      OBVIOUS
    <3>1. rates[i] \in Nat
      OBVIOUS
    <3>2. Allocated(prepared, rates[i]) \in Int
      BY <1>2, <3>1 DEF Allocated
    <3>3. ActiveOf(prepared, <<rates[i]>>) \in Int
      BY <1>2, <3>1 DEF ActiveOf, TrialsOf
    <3> QED BY <3>2, <3>3
  <2>4. all \in Seq(Int)
    <3>1. DOMAIN rates = 1..Len(rates) /\ Len(rates) \in Nat
      OBVIOUS
    <3> HIDE DEF bits
    <3> QED BY <2>3, <3>1
  <2>5. BitsOf(prepared, rates) = SumOf(all)
    BY DEF BitsOf
  <2> HIDE DEF all
  <2> QED BY <2>1, <2>2, <2>4, <2>5, SumTyped
<1>5. \A i \in DOMAIN grown : grown[i].rates \in Seq(Nat)
  BY <1>3 DEF Batch
<1>6. b.rates \in Seq(Nat)
  BY DEF Batch
<1>7. /\ UsedTrials(prepared, grown) = UsedTrials(prepared, history) + TrialsOf(prepared, b.rates)
      /\ UsedTrials(prepared, grown) \in Int
  <2> DEFINE old == [i \in DOMAIN history |-> TrialsOf(prepared, history[i].rates)]
             new == [i \in DOMAIN grown |-> TrialsOf(prepared, grown[i].rates)]
             x   == TrialsOf(prepared, b.rates)
  <2>1. old \in Seq(Int) /\ x \in Int
    BY <1>3, <1>4, <1>5, <1>6
  <2>2. new = Append(old, x)
    BY <1>3
  <2> HIDE DEF old, new, x
  <2>3. SumOf(new) = SumOf(old) + x /\ SumOf(old) \in Int
    BY <2>1, <2>2, SumAppend, SumTyped
  <2> QED BY <2>1, <2>3 DEF UsedTrials, old, new, x
<1>8. /\ UsedActive(prepared, grown) = UsedActive(prepared, history) + ActiveOf(prepared, b.rates)
      /\ UsedActive(prepared, grown) \in Int
  <2> DEFINE old == [i \in DOMAIN history |-> ActiveOf(prepared, history[i].rates)]
             new == [i \in DOMAIN grown |-> ActiveOf(prepared, grown[i].rates)]
             x   == ActiveOf(prepared, b.rates)
  <2>1. old \in Seq(Int) /\ x \in Int
    BY <1>3, <1>4, <1>5, <1>6
  <2>2. new = Append(old, x)
    BY <1>3
  <2> HIDE DEF old, new, x
  <2>3. SumOf(new) = SumOf(old) + x /\ SumOf(old) \in Int
    BY <2>1, <2>2, SumAppend, SumTyped
  <2> QED BY <2>1, <2>3 DEF UsedActive, old, new, x
<1>9. /\ UsedBits(prepared, grown) = UsedBits(prepared, history) + BitsOf(prepared, b.rates)
      /\ UsedBits(prepared, grown) \in Int
  <2> DEFINE old == [i \in DOMAIN history |-> BitsOf(prepared, history[i].rates)]
             new == [i \in DOMAIN grown |-> BitsOf(prepared, grown[i].rates)]
             x   == BitsOf(prepared, b.rates)
  <2>1. old \in Seq(Int) /\ x \in Int
    BY <1>3, <1>4, <1>5, <1>6
  <2>2. new = Append(old, x)
    BY <1>3
  <2> HIDE DEF old, new, x
  <2>3. SumOf(new) = SumOf(old) + x /\ SumOf(old) \in Int
    BY <2>1, <2>2, SumAppend, SumTyped
  <2> QED BY <2>1, <2>3 DEF UsedBits, old, new, x
<1> QED BY <1>7, <1>8, <1>9 DEF grown

\* A chosen batch that ran is a batch.
LEMMA RanIsBatch ==
    ASSUME SearchInv, NEW d, ChosenBatch(d),
           NEW seen \in [Range(d.rates) -> Observations], NEW stopped \in BOOLEAN
    PROVE  /\ [rates |-> d.rates, reason |-> d.reason, depth |-> d.depth,
               seen |-> seen, stopped |-> stopped] \in Batch
           /\ \A rate \in Range(d.rates) : seen[rate] \in SUBSET Kinds /\ seen[rate] # {}
<1>1. d.rates \in Seq(Nat) /\ d.reason \in Steps /\ d.depth \in Nat
  BY DEF ChosenBatch
<1>2. Range(d.rates) \in SUBSET Nat
  BY <1>1, RangeFinite
<1>3. \A rate \in Range(d.rates) : seen[rate] \in SUBSET Kinds /\ seen[rate] # {}
  BY DEF Observations
<1>4. seen \in [Range(d.rates) -> SUBSET Kinds]
  BY <1>3
<1>5. seen \in UNION {[rates -> SUBSET Kinds] : rates \in SUBSET Nat}
  BY <1>2, <1>4
<1> QED BY <1>1, <1>3, <1>5 DEF Batch

\* It chose its rates within the limits.
LEMMA RanIsSound ==
    ASSUME SearchInv, NEW b \in Batch, ChosenBatch(b),
           \A rate \in Range(b.rates) : b.seen[rate] \in SUBSET Kinds /\ b.seen[rate] # {}
    PROVE  Sound(b)
<1>0. prepared \in Experiments /\ prepared.maxDepth \in Nat
  BY PreparedExperiment DEF SearchInv
<1>1. b.reason # Confirming => b.depth <= prepared.maxDepth
  BY <1>0 DEF ChosenBatch
<1>2. ASSUME NEW rate \in Range(b.rates)
      PROVE  Min(Range(prepared.grid)) <= rate /\ rate <= Max(Range(prepared.grid))
  <2>1. CASE b.rates = prepared.grid
    BY <1>0, <1>2, <2>1, Endpoints
  <2>2. CASE \E r \in Tested : b.rates = <<r>>
    <3>1. rate \in Tested
      BY <1>2, <2>2 DEF Range
    <3> QED BY <3>1, RateWithinEndpoints
  <2>3. CASE \E low, high \in Tested, mid \in Nat :
                 b.rates = <<mid>> /\ low < mid /\ mid < high
    <3>1. PICK low \in Tested, high \in Tested, mid \in Nat :
                 b.rates = <<mid>> /\ low < mid /\ mid < high
      BY <2>3
    <3>2. rate = mid
      BY <1>2, <3>1 DEF Range
    <3>3. low \in Nat /\ high \in Nat
      BY PlannerSets
    <3>4. Min(Range(prepared.grid)) <= low /\ high <= Max(Range(prepared.grid))
      BY RateWithinEndpoints
    <3>5. Min(Range(prepared.grid)) \in Nat /\ Max(Range(prepared.grid)) \in Nat
      BY <1>0, Endpoints
    <3> QED BY <3>1, <3>2, <3>3, <3>4, <3>5
  <2> QED BY <2>1, <2>2, <2>3 DEF ChosenBatch
<1> QED BY <1>1, <1>2 DEF Sound

\* The rates of a chosen batch are new, or it confirms an old one.
LEMMA NewOrConfirming ==
    ASSUME SearchInv, NEW b, ChosenBatch(b)
    PROVE  \/ b.reason # Confirming /\ Range(b.rates) \cap Tested = {}
           \/ b.reason = Confirming /\ Range(b.rates) \in SUBSET Tested
<1>1. CASE history = <<>> /\ b.reason = "initial_grid"
  <2>1. Tested = {}
    BY <1>1 DEF Tested
  <2> QED BY <1>1, <2>1 DEF Confirming
<1>2. CASE b.reason = Confirming /\ \E rate \in Tested : b.rates = <<rate>>
  BY <1>2 DEF Range
<1>3. CASE /\ b.reason = "refine_differing_outcomes"
           /\ \E mid \in Nat : b.rates = <<mid>> /\ mid \notin Tested
  BY <1>3 DEF Range, Confirming
<1> QED BY <1>1, <1>2, <1>3 DEF ChosenBatch

\* So a rate is still chosen once,
LEMMA StillChosenOnce ==
    ASSUME SearchInv, NEW b \in Batch, ChosenBatch(b), history' = Append(history, b)
    PROVE  ChosenOnce'
<1> DEFINE new == Len(history) + 1
<1>1. /\ DOMAIN history' = DOMAIN history \cup {new} /\ new \notin DOMAIN history
      /\ \A i \in DOMAIN history : history'[i] = history[i]
      /\ history'[new] = b
      /\ Tested' = Tested \cup Range(b.rates)
      /\ \A rate : Batches(rate)' =
             Batches(rate) \cup (IF rate \in Range(b.rates) THEN {new} ELSE {})
  BY Extended DEF SearchInv
<1> HIDE DEF new
<1>2. \A i \in DOMAIN history : Range(history[i].rates) \in SUBSET Tested
  BY TestedRates DEF SearchInv
<1>3. \/ b.reason # Confirming /\ Range(b.rates) \cap Tested = {}
      \/ b.reason = Confirming /\ Range(b.rates) \in SUBSET Tested
  BY NewOrConfirming
<1>4. ASSUME NEW i \in DOMAIN history', NEW j \in DOMAIN history',
             history'[i].reason # Confirming, history'[j].reason # Confirming,
             Range(history'[i].rates) \cap Range(history'[j].rates) # {}
      PROVE  i = j
  <2>1. CASE i \in DOMAIN history /\ j \in DOMAIN history
    BY <1>1, <1>4, <2>1 DEF SearchInv, ChosenOnce
  <2>2. CASE i = new /\ j \in DOMAIN history
    BY <1>1, <1>2, <1>3, <1>4, <2>2
  <2>3. CASE i \in DOMAIN history /\ j = new
    BY <1>1, <1>2, <1>3, <1>4, <2>3
  <2> QED BY <1>1, <2>1, <2>2, <2>3
<1>5. ASSUME NEW rate \in Tested'
      PROVE  \E i \in Batches(rate)' : history'[i].reason # Confirming
  <2>1. CASE rate \in Tested
    <3>1. PICK i \in Batches(rate) : history[i].reason # Confirming
      BY <2>1 DEF SearchInv, ChosenOnce
    <3>2. i \in DOMAIN history
      BY DEF Batches
    <3> QED BY <1>1, <3>1, <3>2
  <2>2. CASE rate \notin Tested
    <3>1. rate \in Range(b.rates) /\ b.reason # Confirming
      BY <1>1, <1>3, <2>2
    <3>2. new \in Batches(rate)'
      BY <1>1, <3>1
    <3> QED BY <1>1, <3>1, <3>2
  <2> QED BY <2>1, <2>2
<1> QED BY <1>4, <1>5 DEF ChosenOnce

\* is confirmed no more often than asked, and the rates are no more than
\* allowed,
LEMMA StillCounted ==
    ASSUME SearchInv, NEW b \in Batch, ChosenBatch(b), history' = Append(history, b),
           prepared' = prepared
    PROVE  Counted'
<1> DEFINE new == Len(history) + 1
           C(rate) == {i \in Batches(rate) : history[i].reason = Confirming}
<1>1. /\ DOMAIN history' = DOMAIN history \cup {new} /\ new \notin DOMAIN history
      /\ \A i \in DOMAIN history : history'[i] = history[i]
      /\ history'[new] = b
      /\ Tested' = Tested \cup Range(b.rates)
      /\ \A rate : Batches(rate)' =
             Batches(rate) \cup (IF rate \in Range(b.rates) THEN {new} ELSE {})
  BY Extended DEF SearchInv
<1> HIDE DEF new
<1>2. \A rate : /\ IsFiniteSet(Batches(rate)) /\ Batches(rate) \in SUBSET DOMAIN history
                /\ (rate \in Tested <=> Batches(rate) # {})
  BY TestedRates DEF SearchInv
<1>3. \A rate : IsFiniteSet(C(rate)) /\ Confirmations(rate) = Cardinality(C(rate))
                /\ Confirmations(rate) \in Nat /\ new \notin C(rate)
  <2> TAKE rate
  <2>1. C(rate) \in SUBSET Batches(rate)
    OBVIOUS
  <2>2. IsFiniteSet(C(rate))
    BY <1>2, <2>1, FS_Subset
  <2>3. Confirmations(rate) = Cardinality(C(rate))
    BY DEF Confirmations
  <2>4. new \notin C(rate)
    BY <1>1, <1>2, <2>1
  <2> HIDE DEF C
  <2> QED BY <2>2, <2>3, <2>4, FS_CardinalityType
<1>4. ASSUME NEW rate
      PROVE  Confirmations(rate)' =
                 Cardinality(IF rate \in Range(b.rates) /\ b.reason = Confirming
                             THEN C(rate) \cup {new} ELSE C(rate))
  <2>1. {i \in Batches(rate)' : history'[i].reason = Confirming}
            = IF rate \in Range(b.rates) /\ b.reason = Confirming
              THEN C(rate) \cup {new} ELSE C(rate)
    BY <1>1, <1>2
  <2> QED BY <2>1 DEF Confirmations
<1> HIDE DEF C
<1>5. prepared.confirmations \in Nat \ {0} /\ prepared.maxRates \in Nat
  BY PreparedExperiment DEF SearchInv
<1>6. ASSUME NEW rate \in Tested' PROVE Confirmations(rate)' <= prepared.confirmations
  <2>1. CASE rate \in Range(b.rates) /\ b.reason = Confirming
    <3>1. rate \in Tested /\ Confirmations(rate) < prepared.confirmations
      BY <2>1 DEF ChosenBatch, Confirming, Range
    <3>2. Confirmations(rate)' = Confirmations(rate) + 1
      BY <1>3, <1>4, <2>1, FS_AddElement
    <3> QED BY <1>3, <1>5, <3>1, <3>2
  <2>2. CASE ~(rate \in Range(b.rates) /\ b.reason = Confirming)
    <3>1. Confirmations(rate)' = Confirmations(rate)
      BY <1>3, <1>4, <2>2
    <3>2. CASE rate \in Tested
      BY <3>1, <3>2 DEF SearchInv, Counted
    <3>3. CASE rate \notin Tested
      <4>1. C(rate) = {}
        BY <1>2, <3>3 DEF C
      <4>2. Confirmations(rate) = 0
        BY <1>3, <4>1, FS_EmptySet
      <4> QED BY <1>5, <3>1, <4>2
    <3> QED BY <3>2, <3>3
  <2> QED BY <2>1, <2>2
<1>7. IsFiniteSet(Tested') /\ Cardinality(Tested') <= prepared.maxRates
  <2>0. IsFiniteSet(Tested) /\ Cardinality(Tested) <= prepared.maxRates
        /\ Cardinality(Tested) \in Nat
    BY FS_CardinalityType DEF SearchInv, Counted
  <2>1. CASE history = <<>> /\ b.rates = prepared.grid
    <3>1. Tested' = Range(prepared.grid)
      BY <1>1, <2>1 DEF Tested
    <3>2. IsFiniteSet(Range(prepared.grid))
          /\ Cardinality(Range(prepared.grid)) = Len(prepared.grid)
          /\ Len(prepared.grid) \in 1..prepared.maxRates
      BY RangeFinite, PreparedExperiment DEF SearchInv, Prepared
    <3> QED BY <1>5, <3>1, <3>2
  <2>2. CASE \E rate \in Tested : b.rates = <<rate>>
    <3>1. Tested' = Tested
      BY <1>1, <2>2 DEF Range
    <3> QED BY <2>0, <3>1
  <2>3. CASE /\ Cardinality(Tested) < prepared.maxRates
             /\ \E mid \in Nat : b.rates = <<mid>> /\ mid \notin Tested
    <3>1. PICK mid \in Nat : b.rates = <<mid>> /\ mid \notin Tested
      BY <2>3
    <3>2. Tested' = Tested \cup {mid}
      BY <1>1, <3>1 DEF Range
    <3>3. IsFiniteSet(Tested \cup {mid}) /\ Cardinality(Tested \cup {mid}) = Cardinality(Tested) + 1
      BY <2>0, <3>1, FS_AddElement
    <3>4. IsFiniteSet(Tested') /\ Cardinality(Tested') = Cardinality(Tested) + 1
      BY <3>2, <3>3
    <3> QED BY <1>5, <2>0, <2>3, <3>4
  <2> QED BY <2>1, <2>2, <2>3 DEF ChosenBatch
<1> QED BY <1>6, <1>7 DEF Counted

\* and everything reserved stays within the budgets.
LEMMA StillWithinBudgets ==
    ASSUME SearchInv, NEW b \in Batch, ChosenBatch(b), history' = Append(history, b),
           prepared' = prepared
    PROVE  WithinBudgets'
<1>1. Refusal(prepared, history, b.rates) = "none"
  BY DEF ChosenBatch
<1>2. /\ ~(UsedTrials(prepared, history) + TrialsOf(prepared, b.rates) > prepared.maxTrials)
      /\ ~(UsedActive(prepared, history) + ActiveOf(prepared, b.rates) > prepared.maxActive)
      /\ ~(BytesFor(UsedBits(prepared, history) + BitsOf(prepared, b.rates)) > prepared.maxBytes)
  BY <1>1 DEF Refusal
<1> DEFINE grown == Append(history, b)
<1>3. /\ UsedTrials(prepared, grown) = UsedTrials(prepared, history) + TrialsOf(prepared, b.rates)
      /\ UsedActive(prepared, grown) = UsedActive(prepared, history) + ActiveOf(prepared, b.rates)
      /\ UsedBits(prepared, grown) = UsedBits(prepared, history) + BitsOf(prepared, b.rates)
      /\ UsedTrials(prepared, grown) \in Int /\ UsedActive(prepared, grown) \in Int
      /\ UsedBits(prepared, grown) \in Int
  BY ReservedGrows DEF SearchInv
<1> HIDE DEF grown
<1>4. /\ ~(UsedTrials(prepared, grown) > prepared.maxTrials)
      /\ ~(UsedActive(prepared, grown) > prepared.maxActive)
      /\ ~(BytesFor(UsedBits(prepared, grown)) > prepared.maxBytes)
  BY <1>2, <1>3
<1>5. prepared.maxTrials \in Nat /\ prepared.maxActive \in Nat /\ prepared.maxBytes \in Nat
  <2>1. prepared \in ExperimentType
    BY PreparedExperiment DEF SearchInv
  <2> QED BY <2>1 DEF ExperimentType
<1>6. BytesFor(UsedBits(prepared, grown)) \in Int
  BY <1>3 DEF BytesFor
<1>7. /\ UsedTrials(prepared, grown) <= prepared.maxTrials
      /\ UsedActive(prepared, grown) <= prepared.maxActive
      /\ BytesFor(UsedBits(prepared, grown)) <= prepared.maxBytes
  BY <1>3, <1>4, <1>5, <1>6
<1>8. history' = grown
  BY DEF grown
<1> QED BY <1>7, <1>8 DEF WithinBudgets

-----------------------------------------------------------------------------
\* Nothing is retained yet, and nothing is reserved.
LEMMA InitSearchInv == Init => SearchInv
<1> SUFFICES ASSUME Init PROVE SearchInv
  OBVIOUS
<1>1. /\ prepared \in Experiments /\ history = <<>> /\ at = "choose"
      /\ history \in Seq(Batch) /\ DOMAIN history = {}
  BY DEF Init
<1>2. Tested = {}
  BY <1>1 DEF Tested
<1>3. ChosenOnce
  BY <1>1, <1>2 DEF ChosenOnce
<1>4. prepared.maxRates \in Nat /\ prepared \in ExperimentType
  BY <1>1, PreparedExperiment
<1>5. Counted
  BY <1>2, <1>4, FS_EmptySet DEF Counted
<1>6. WithinBudgets
  <2>1. /\ UsedTrials(prepared, history) = SumOf(<<>>)
        /\ UsedActive(prepared, history) = SumOf(<<>>)
        /\ UsedBits(prepared, history) = SumOf(<<>>)
    BY <1>1 DEF UsedTrials, UsedActive, UsedBits
  <2>2. prepared.maxTrials \in Nat /\ prepared.maxActive \in Nat /\ prepared.maxBytes \in Nat
    BY <1>4 DEF ExperimentType
  <2>3. BytesFor(0) = 0
    BY DEF BytesFor
  <2> QED BY <2>1, <2>2, <2>3, SumEmpty DEF WithinBudgets
<1>7. Decided
  BY <1>1 DEF Decided
<1> QED BY <1>1, <1>3, <1>5, <1>6, <1>7 DEF SearchInv

\* A step that leaves experiment and history alone keeps what is said of them.
LEMMA HistoryKept ==
    ASSUME SearchInv, UNCHANGED <<prepared, history>>, Decided'
    PROVE  SearchInv'
<1>1. /\ Tested' = Tested
      /\ \A rate : Batches(rate)' = Batches(rate)
      /\ \A rate : Confirmations(rate)' = Confirmations(rate)
  BY PlannerIsAFunction
<1>2. ChosenOnce'
  BY <1>1 DEF SearchInv, ChosenOnce
<1>3. Counted'
  BY <1>1 DEF SearchInv, Counted
<1>4. WithinBudgets'
  BY DEF SearchInv, WithinBudgets
<1>5. \A i \in DOMAIN history' : Sound(history[i])'
  BY DEF SearchInv, Sound
<1> QED BY <1>2, <1>3, <1>4, <1>5 DEF SearchInv

\* next_adaptive_batch decides, and the run of a batch retains it.
LEMMA StepSearchInv == SearchInv /\ [Next]_vars => SearchInv'
<1> SUFFICES ASSUME SearchInv, [Next]_vars PROVE SearchInv'
  OBVIOUS
<1>1. CASE Decide
  <2>1. UNCHANGED <<prepared, history>> /\ decision' = Choose
    BY <1>1 DEF Decide
  <2>2. Choose' = Choose
    BY <2>1, PlannerIsAFunction
  <2>3. Decided'
    BY <1>1, <2>1, <2>2 DEF Decide, Decided
  <2> QED BY <2>1, <2>3, HistoryKept
<1>2. CASE Execute
  <2>1. PICK seen \in [Range(decision.rates) -> Observations], stopped \in BOOLEAN :
             history' = Append(history, [rates |-> decision.rates, reason |-> decision.reason,
                                         depth |-> decision.depth, seen |-> seen,
                                         stopped |-> stopped])
    BY <1>2 DEF Execute
  <2> DEFINE b == [rates |-> decision.rates, reason |-> decision.reason,
                   depth |-> decision.depth, seen |-> seen, stopped |-> stopped]
  <2>2. prepared' = prepared /\ at' = "choose" /\ decision = Choose /\ decision.rates # <<>>
    BY <1>2 DEF Execute, SearchInv, Decided
  <2>3. ChosenBatch(decision)
    BY <2>2, ChooseShape
  <2>4. /\ b \in Batch
        /\ \A rate \in Range(decision.rates) : seen[rate] \in SUBSET Kinds /\ seen[rate] # {}
    BY <2>3, RanIsBatch
  <2>5. ChosenBatch(b)
    BY <2>3 DEF ChosenBatch
  <2>6. \A rate \in Range(b.rates) : b.seen[rate] \in SUBSET Kinds /\ b.seen[rate] # {}
    BY <2>4
  <2>7. history' = Append(history, b)
    BY <2>1
  <2> HIDE DEF b
  <2>8. Sound(b)
    BY <2>4, <2>5, <2>6, RanIsSound
  <2>9. ChosenOnce' /\ Counted' /\ WithinBudgets'
    BY <2>2, <2>4, <2>5, <2>7, StillChosenOnce, StillCounted, StillWithinBudgets
  <2>10. history' \in Seq(Batch) /\ \A i \in DOMAIN history' : Sound(history[i])'
    <3>1. /\ history' \in Seq(Batch)
          /\ DOMAIN history' = DOMAIN history \cup {Len(history) + 1}
          /\ \A i \in DOMAIN history : history'[i] = history[i]
          /\ history'[Len(history) + 1] = b
      BY <2>4, <2>7, Extended DEF SearchInv
    <3>2. \A i \in DOMAIN history : Sound(history[i])
      BY DEF SearchInv
    <3> QED BY <2>2, <2>8, <3>1, <3>2 DEF Sound
  <2>11. Decided'
    BY <2>2 DEF Decided
  <2> QED BY <2>2, <2>9, <2>10, <2>11 DEF SearchInv
<1>3. CASE UNCHANGED vars
  <2>1. UNCHANGED <<prepared, history>> /\ decision' = decision /\ at' = at
    BY <1>3 DEF vars
  <2>2. Choose' = Choose
    BY <2>1, PlannerIsAFunction
  <2>3. Decided'
    BY <2>1, <2>2 DEF SearchInv, Decided
  <2> QED BY <2>1, <2>3, HistoryKept
<1> QED BY <1>1, <1>2, <1>3 DEF Next

\* The invariant holds of every history the search can retain.
THEOREM SearchInvariance == Spec => []SearchInv
  BY InitSearchInv, StepSearchInv, PTL DEF Spec

\* For any experiment and any network, the search stays within its budgets and
\* chooses no rate twice, so that it ends even without them.
THEOREM SearchBoundedHolds == Spec => []SearchBounded
  BY BoundedByInv, SearchInvariance, PTL

-----------------------------------------------------------------------------
(* What is reported                                                        *)

\* What a batch saw of a rate is counted among what was seen of the rate.
LEMMA SeenInBatches ==
    ASSUME SearchInv, NEW rate \in Tested
    PROVE  /\ Seen(rate) \in SUBSET Kinds /\ Seen(rate) # {}
           /\ \A i \in Batches(rate) :
                  /\ history[i].seen[rate] \in SUBSET Seen(rate)
                  /\ history[i].seen[rate] # {}
<1>1. \A i \in Batches(rate) : i \in DOMAIN history /\ rate \in Range(history[i].rates)
  BY DEF Batches
<1>2. \A i \in Batches(rate) : history[i].seen[rate] \in SUBSET Kinds /\ history[i].seen[rate] # {}
  BY <1>1 DEF SearchInv, Sound
<1>3. Batches(rate) # {}
  BY TestedRates DEF SearchInv
<1> QED BY <1>2, <1>3 DEF Seen

\* An eligible rate was seen acceptable in its own batch and in as many
\* confirmations as the experiment asks for, and never otherwise.
LEMMA EligibleIsConfirmed ==
    ASSUME SearchInv, NEW rate \in With("eligible")
    PROVE  /\ Cardinality(Batches(rate)) > prepared.confirmations
           /\ \A i \in Batches(rate) : history[i].seen[rate] = {"acceptable"}
<1>1. rate \in Tested /\ Status(rate) = "eligible"
  BY DEF With
<1>2. /\ "loss" \notin Seen(rate) /\ "invalid" \notin Seen(rate)
      /\ ~(Confirmations(rate) < prepared.confirmations)
  BY <1>1 DEF Status
<1>3. /\ Confirmations(rate) \in Nat
      /\ Cardinality(Batches(rate)) = 1 + Confirmations(rate)
  BY <1>1, ConfirmationCount DEF SearchInv
<1>4. prepared.confirmations \in Nat
  BY PreparedExperiment DEF SearchInv
<1>5. Cardinality(Batches(rate)) > prepared.confirmations
  BY <1>2, <1>3, <1>4
<1>6. ASSUME NEW i \in Batches(rate)
      PROVE  history[i].seen[rate] = {"acceptable"}
  BY <1>1, <1>2, SeenInBatches DEF Kinds
<1> QED BY <1>5, <1>6

\* When no rate is promising, a rate that always looked acceptable is at most
\* the highest eligible one.
LEMMA NothingPromising ==
    ASSUME SearchInv, Promising = {}, NEW rate \in Tested, Seen(rate) = {"acceptable"}
    PROVE  rate <= HighestEligible
<1>1. /\ rate \in Nat
      /\ HighestEligible \in Nat
      /\ \A r \in With("eligible") : r <= HighestEligible
  BY PlannerSets
<1>2. Status(rate) \in {"provisional", "eligible"}
  BY DEF Status
<1>3. CASE Status(rate) = "provisional"
  <2>1. rate \in With("provisional")
    BY <1>3 DEF With
  <2>2. ~(rate > HighestEligible)
    BY <2>1 DEF Promising
  <2> QED BY <1>1, <2>2
<1>4. CASE Status(rate) = "eligible"
  BY <1>1, <1>4 DEF With
<1> QED BY <1>2, <1>3, <1>4

\* When no interval can be split, two tested rates with different outcomes
\* have adjacent integers tested between them.
LEMMA NothingSplittable ==
    ASSUME SearchInv, Splittable = {}, NEW low \in Tested, NEW high \in Tested,
           low < high, Outcome(low) # Outcome(high)
    PROVE  \E rate \in Tested : low <= rate /\ rate < high /\ rate + 1 \in Tested
<1> DEFINE Same == {r \in Tested : low <= r /\ r < high /\ Outcome(r) = Outcome(low)}
<1>1. Tested \in SUBSET Nat /\ IsFiniteSet(Tested)
  BY PlannerSets
<1>2. Same \in SUBSET Int /\ Same \in SUBSET Tested /\ low \in Same
  <2>1. low \in Nat /\ low <= low
    BY <1>1
  <2>2. low \in Same
    BY <2>1
  <2>3. Same \in SUBSET Tested
    OBVIOUS
  <2>4. Tested \in SUBSET Int
    BY <1>1
  <2> QED BY <2>2, <2>3, <2>4
<1>3. IsFiniteSet(Same)
  BY <1>1, <1>2, FS_Subset
<1>4. PICK rate \in Same : \A r \in Same : r <= rate
  <2> HIDE DEF Same
  <2> QED BY <1>2, <1>3, GreatestMember
<1> DEFINE Above == {r \in Tested : rate < r /\ r <= high}
<1>5. rate \in Nat /\ rate \in Tested /\ low <= rate /\ rate < high /\ Outcome(rate) = Outcome(low)
  BY <1>1, <1>4
<1>6. Above \in SUBSET Nat /\ high \in Above
  <2>1. high \in Nat /\ high <= high
    BY <1>1
  <2>2. high \in Above
    BY <1>5, <2>1
  <2>3. Above \in SUBSET Tested
    OBVIOUS
  <2> QED BY <1>1, <2>2, <2>3
<1>7. PICK succ \in Above : \A r \in Above : succ <= r
  <2> HIDE DEF Above
  <2> QED BY <1>6, LeastNumber
<1>8. succ \in Nat /\ succ \in Tested /\ rate < succ /\ succ <= high
  BY <1>1, <1>7
<1>9. Outcome(succ) # Outcome(rate)
  <2>1. CASE succ = high
    BY <1>5, <2>1
  <2>2. CASE succ # high
    <3>1. low <= succ /\ succ < high /\ ~(succ <= rate)
      BY <1>1, <1>5, <1>8, <2>2
    <3> QED BY <1>4, <1>5, <1>8, <3>1
  <2> QED BY <2>1, <2>2
<1>10. ~\E r \in Tested : rate < r /\ r < succ
  <2> SUFFICES ASSUME NEW r \in Tested, rate < r, r < succ PROVE FALSE
    OBVIOUS
  <2>1. r \in Above /\ ~(succ <= r)
    BY <1>1, <1>8
  <2> QED BY <1>7, <2>1
<1> DEFINE pair == <<rate, succ>>
<1>11. pair \in Differing
  <2>1. pair \in Tested \X Tested /\ pair[1] = rate /\ pair[2] = succ
    BY <1>5, <1>8
  <2> QED BY <1>8, <1>9, <1>10, <2>1 DEF Differing
<1>12. ~(succ - rate > 1)
  BY <1>11 DEF Splittable, HasGap
<1>13. rate + 1 = succ
  BY <1>5, <1>8, <1>12
<1> QED BY <1>5, <1>8, <1>13

\* What each reason to end a search by itself says of the history.
LEMMA EndedByItself ==
    /\ Choose.reason \in Inherent => Promising = {}
    /\ Choose.reason \in {"no_differing_adjacent_outcomes", "integer_grid_exhausted"}
           => Splittable = {}
<1>1. ASSUME NEW rates, NEW reason, NEW depth
      PROVE  Propose(rates, reason, depth).reason \in Limits \cup {reason}
  BY ProposeCases
<1>2. \A reason : Ends(reason).reason = reason
  BY DEF Ends
<1>3. Refine.reason \in Limits \cup {"refine_differing_outcomes"}
  BY <1>1 DEF Refine
<1>4. CASE Choose = Propose(prepared.grid, "initial_grid", 0)
  <2>1. Choose.reason \in Limits \cup {"initial_grid"}
    BY <1>1, <1>4
  <2> QED BY <2>1 DEF Limits, Inherent
<1>5. CASE Choose = Ends("execution_stopped")
  BY <1>2, <1>5 DEF Inherent
<1>6. CASE Choose = Propose(<<Max(Promising)>>, Confirming, Depth(Max(Promising)))
  <2>1. Choose.reason \in Limits \cup {Confirming}
    BY <1>1, <1>6
  <2> QED BY <2>1 DEF Limits, Inherent, Confirming
<1>7. CASE Promising = {} /\ Choose = Ends(Exhausted)
  <2>1. Choose.reason = Exhausted
    BY <1>2, <1>7
  <2> QED BY <1>7, <2>1 DEF Exhausted
<1>8. CASE Promising = {} /\ Choose = Ends("distinct_rate_limit")
  BY <1>2, <1>8
<1>9. CASE Promising = {} /\ Choose = Refine
  BY <1>3, <1>9 DEF Limits
<1> QED BY <1>4, <1>5, <1>6, <1>7, <1>8, <1>9, ChooseCases

LEMMA ConservativeByInv == SearchInv => ConservativeResult
<1> SUFFICES ASSUME SearchInv, at = "ended" PROVE ConservativeResult
  BY DEF ConservativeResult
<1>1. decision = Choose
  BY DEF SearchInv, Decided
<1>2. Summary = "no_acceptable_tested_rate" => \A rate \in Tested : "loss" \in Seen(rate)
  <2> SUFFICES ASSUME Summary = "no_acceptable_tested_rate", NEW rate \in Tested
               PROVE  "loss" \in Seen(rate)
    OBVIOUS
  <2>1. With("rejected") = Tested
    BY DEF Summary
  <2>2. Status(rate) = "rejected"
    BY <2>1 DEF With
  <2> QED BY <2>2 DEF Status
<1>3. decision.reason \in Inherent =>
          \A rate \in Tested : Seen(rate) = {"acceptable"} => rate <= HighestEligible
  BY <1>1, EndedByItself, NothingPromising
<1>4. decision.reason \in {"no_differing_adjacent_outcomes", "integer_grid_exhausted"} =>
          \A low, high \in Tested :
              low < high /\ Outcome(low) # Outcome(high) =>
                  \E rate \in Tested : low <= rate /\ rate < high /\ rate + 1 \in Tested
  BY <1>1, EndedByItself, NothingSplittable
<1> QED BY <1>2, <1>3, <1>4, EligibleIsConfirmed DEF ConservativeResult

\* Whatever the network shows, a rate is reported acceptable only after every
\* batch that tested it found it so, and a search that ends by itself has
\* confirmed the highest promising rate and closed every gap it may close.
THEOREM ConservativeResultHolds == Spec => []ConservativeResult
  BY ConservativeByInv, SearchInvariance, PTL
=============================================================================
