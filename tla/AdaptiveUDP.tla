----------------------------- MODULE AdaptiveUDP -----------------------------
(***************************************************************************)
(* adaptive and adaptive_execution.run_adaptive_udp: a bounded search for  *)
(* offered rates whose loss stays acceptable.  The planner is a function   *)
(* of the retained history alone; the network decides what each batch      *)
(* observes, consistently or not.                                          *)
(*                                                                         *)
(* Of the measured trials of one rate in one batch the planner only asks   *)
(* whether all were valid and whether a valid one lost too much: they are  *)
(* the set of the kinds that occurred.  (A complete set always has enough  *)
(* valid trials, because minimum_valid_trials is at most repetitions.)     *)
(***************************************************************************)
EXTENDS Integers, Sequences, FiniteSets, FiniteSetsExt, Functions, Sums

CONSTANTS
    Experiments     \* the PreparedAdaptiveUDP values to consider

VARIABLES
    prepared,   \* the experiment: grid, trials per rate, limits and policies
    history,    \* the AdaptiveBatchResults retained so far
    decision,   \* the last AdaptiveDecision
    at          \* run_adaptive_udp: "choose", "run", "ended"

vars == <<prepared, history, decision, at>>

Kinds == {"acceptable", "loss", "invalid"}

ExperimentType ==
    [grid : Seq(Nat \ {0}), repetitions : Nat \ {0}, warmups : Nat, seconds : Nat \ {0},
     streams : Nat \ {0}, maxTrials : Nat, maxActive : Nat, maxBytes : Nat,
     maxRates : Nat \ {0}, maxDepth : Nat, confirmations : Nat \ {0}, stopOnError : BOOLEAN]

-----------------------------------------------------------------------------
(* _batch_v1 and intent.estimate_plan: whole-experiment admission          *)

\* Warm-ups and measured trials of a batch with these rates.
TrialsOf(p, rates) == (p.repetitions + p.warmups) * Len(rates)

ActiveOf(p, rates) == TrialsOf(p, rates) * p.seconds

\* resolve_rate: per-stream rates are rounded down.
Allocated(p, rate) == (rate \div p.streams) * p.streams

BitsOf(p, rates) ==
    SumOf([i \in DOMAIN rates |-> Allocated(p, rates[i]) * ActiveOf(p, <<rates[i]>>)])

BytesFor(bits) == (bits + 7) \div 8

\* What the plans of the retained batches reserve, unstarted and failed trials
\* included.
UsedTrials(p, past) == SumOf([i \in DOMAIN past |-> TrialsOf(p, past[i].rates)])
UsedActive(p, past) == SumOf([i \in DOMAIN past |-> ActiveOf(p, past[i].rates)])
UsedBits(p, past)   == SumOf([i \in DOMAIN past |-> BitsOf(p, past[i].rates)])

\* The first limit a batch would break, or "none": the trial count, the plan
\* by itself, and the plan on top of everything reserved before.
Refusal(p, past, rates) ==
    IF UsedTrials(p, past) + TrialsOf(p, rates) > p.maxTrials THEN "trial_count_limit"
    ELSE IF ActiveOf(p, rates) > p.maxActive THEN "active_time_limit"
    ELSE IF BytesFor(BitsOf(p, rates)) > p.maxBytes THEN "payload_limit"
    ELSE IF UsedActive(p, past) + ActiveOf(p, rates) > p.maxActive THEN "active_time_limit"
    ELSE IF BytesFor(UsedBits(p, past) + BitsOf(p, rates)) > p.maxBytes THEN "payload_limit"
    ELSE "none"

\* _prepare_v1: distinct rates, each enough for every stream, that fit the
\* limits as a first batch.  The endpoints of the grid are the rate limits.
Prepared(p) ==
    /\ Len(p.grid) \in 1..p.maxRates
    /\ Cardinality(Range(p.grid)) = Len(p.grid)
    /\ \A rate \in Range(p.grid) : rate >= p.streams
    /\ Refusal(p, <<>>, p.grid) = "none"

ASSUME ExperimentsAssumption ==
    \A p \in Experiments : p \in ExperimentType /\ Prepared(p)

-----------------------------------------------------------------------------
(* _rate_summaries_v1, of the batches retained so far                      *)

Confirming == "confirm_promising_rate"

Tested == UNION {Range(history[i].rates) : i \in DOMAIN history}

Batches(rate) == {i \in DOMAIN history : rate \in Range(history[i].rates)}

Seen(rate) == UNION {history[i].seen[rate] : i \in Batches(rate)}

EveryBatch(rate) == Cardinality(Batches(rate))     \* mutant: any batch confirms

Confirmations(rate) == Cardinality({i \in Batches(rate) : history[i].reason = Confirming})

\* One observed loss rejects a rate for good, whatever was seen before.
Status(rate) ==
    IF "loss" \in Seen(rate) THEN "rejected"
    ELSE IF "invalid" \in Seen(rate) THEN "inconclusive"
    ELSE IF Confirmations(rate) < prepared.confirmations THEN "provisional"
    ELSE "eligible"

With(status) == {rate \in Tested : Status(rate) = status}

-----------------------------------------------------------------------------
(* _choose_v1: the next batch, or why there is none                        *)

Ends(reason) == [rates |-> <<>>, reason |-> reason, depth |-> 0]

\* A candidate that does not fit the limits ends the search.
Propose(rates, reason, depth) ==
    LET refusal == Refusal(prepared, history, rates)
    IN  IF refusal # "none" THEN Ends(refusal)
        ELSE [rates |-> rates, reason |-> reason, depth |-> depth]

\* The depth at which a rate was first chosen.
Depth(rate) ==
    history[CHOOSE i \in Batches(rate) : history[i].reason # Confirming].depth

HighestEligible == Max(With("eligible") \cup {0})

Promising == {rate \in With("provisional") : rate > HighestEligible}

Outcome(rate) == IF Status(rate) \in {"eligible", "provisional"} THEN "acceptable" ELSE Status(rate)

\* Neighbours among the tested rates with different outcomes.
Differing ==
    {pair \in Tested \X Tested :
        /\ pair[1] < pair[2]
        /\ ~\E rate \in Tested : pair[1] < rate /\ rate < pair[2]
        /\ Outcome(pair[1]) # Outcome(pair[2])}

AnyGap(pair) == TRUE     \* mutant: adjacent integers are bisected too

HasGap(pair) == pair[2] - pair[1] > 1

DepthOf(pair) == Max({Depth(pair[1]), Depth(pair[2])})

Splittable == {pair \in Differing : HasGap(pair)}
Refinable  == {pair \in Splittable : DepthOf(pair) < prepared.maxDepth}

\* The highest refinable interval is bisected.
Refine ==
    LET pair == CHOOSE pair \in Refinable : \A other \in Refinable : other[1] <= pair[1]
    IN  Propose(<<(pair[1] + pair[2]) \div 2>>, "refine_differing_outcomes", DepthOf(pair) + 1)

Exhausted ==
    IF Splittable # {} THEN "refinement_depth_limit"
    ELSE IF Differing # {} THEN "integer_grid_exhausted" ELSE "no_differing_adjacent_outcomes"

Choose ==
    CASE history = <<>>           -> Propose(prepared.grid, "initial_grid", 0)
      [] history # <<>> /\ \E i \in DOMAIN history : history[i].stopped
                                  -> Ends("execution_stopped")
      [] OTHER ->
            IF Promising # {}
            THEN Propose(<<Max(Promising)>>, Confirming, Depth(Max(Promising)))
            ELSE IF Refinable = {} THEN Ends(Exhausted)
            ELSE IF Cardinality(Tested) >= prepared.maxRates THEN Ends("distinct_rate_limit")
            ELSE Refine

-----------------------------------------------------------------------------
(* run_adaptive_udp                                                        *)

Init ==
    /\ prepared \in Experiments
    /\ history = <<>> /\ decision = Ends("none") /\ at = "choose"

\* next_adaptive_batch; without a batch the history is summarised.
Decide ==
    /\ at = "choose"
    /\ decision' = Choose
    /\ at' = IF decision'.rates = <<>> THEN "ended" ELSE "run"
    /\ UNCHANGED <<prepared, history>>

\* What the measured trials of one rate can show.
Observations == {seen \in SUBSET Kinds : seen # {} /\ Cardinality(seen) <= prepared.repetitions}

\* run_plan: every trial of the batch is recorded.  Under stop_on_error the
\* first trial that does not complete, at rate number `last`, leaves the
\* trials after it unstarted; none of them is valid.
Ran(rates, seen, last, stopped) ==
    /\ stopped => prepared.stopOnError /\ "invalid" \in seen[rates[last]]
    /\ ~stopped => last = Len(rates)
    /\ \A i \in (last + 1)..Len(rates) : seen[rates[i]] = {"invalid"}

Execute ==
    /\ at = "run" /\ at' = "choose"
    /\ \E seen \in [Range(decision.rates) -> Observations],
         last \in DOMAIN decision.rates, stopped \in BOOLEAN :
           /\ Ran(decision.rates, seen, last, stopped)
           /\ history' = Append(history, [rates |-> decision.rates, reason |-> decision.reason,
                                          depth |-> decision.depth, seen |-> seen,
                                          stopped |-> stopped])
    /\ UNCHANGED <<prepared, decision>>

\* _summarize_v1: the outcome reported for the retained history.
Summary ==
    IF With("eligible") # {} THEN "acceptable_tested_rates"
    ELSE IF Tested # {} /\ With("rejected") = Tested THEN "no_acceptable_tested_rate"
    ELSE "inconclusive"

Next == Decide \/ Execute

Spec == Init /\ [][Next]_vars

-----------------------------------------------------------------------------
(* Correctness.                                                            *)

\* Everything admitted, confirmations and unstarted trials included, stays
\* within the trial, active-time and payload limits of the experiment.
WithinBudgets ==
    /\ UsedTrials(prepared, history) <= prepared.maxTrials
    /\ UsedActive(prepared, history) <= prepared.maxActive
    /\ BytesFor(UsedBits(prepared, history)) <= prepared.maxBytes

\* The search cannot go round in circles, however the network contradicts
\* itself: a rate is chosen once, between the endpoints, within the limits on
\* rates and depth, and after that only confirmed, no more often than asked.
\* So the number of batches is bounded without the budgets.
EachRateOnce ==
    /\ Cardinality(Tested) <= prepared.maxRates
    /\ \A rate \in Tested :
           /\ Min(Range(prepared.grid)) <= rate /\ rate <= Max(Range(prepared.grid))
           /\ Depth(rate) <= prepared.maxDepth
           /\ Cardinality(Batches(rate)) = 1 + Confirmations(rate)
           /\ Confirmations(rate) <= prepared.confirmations

\* The search ends: within its budgets, and without them because no rate is
\* chosen twice.
SearchBounded == WithinBudgets /\ EachRateOnce

Inherent == {"no_differing_adjacent_outcomes", "integer_grid_exhausted",
             "refinement_depth_limit", "distinct_rate_limit"}

\* What is reported as acceptable was seen acceptable in its own batch and in
\* every confirmation, and "no acceptable rate" is said only when every tested
\* rate lost too much.  A search that ends by itself left nothing out: the
\* highest rate that always looked acceptable is confirmed, and a change of
\* outcome that was not narrowed down is owed to the depth or rate limit.
ConservativeResult ==
    at = "ended" =>
        /\ \A rate \in With("eligible") :
               /\ Cardinality(Batches(rate)) > prepared.confirmations
               /\ \A i \in Batches(rate) : history[i].seen[rate] = {"acceptable"}
        /\ Summary = "no_acceptable_tested_rate" => \A rate \in Tested : "loss" \in Seen(rate)
        /\ decision.reason \in Inherent =>
               \A rate \in Tested : Seen(rate) = {"acceptable"} => rate <= HighestEligible
        /\ decision.reason \in {"no_differing_adjacent_outcomes", "integer_grid_exhausted"} =>
               \A low, high \in Tested :
                   low < high /\ Outcome(low) # Outcome(high) =>
                       \E rate \in Tested : low <= rate /\ rate < high /\ rate + 1 \in Tested
=============================================================================
