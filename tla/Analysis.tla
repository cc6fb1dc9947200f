------------------------------ MODULE Analysis ------------------------------
(***************************************************************************)
(* analysis.py: what may be concluded from canonical results.  Endpoint    *)
(* throughput, interval stability, stream balance, the compatibility of    *)
(* trials, stream scaling and directional asymmetry, as operators.         *)
(*                                                                         *)
(* A result keeps its status, method, flows and verified settings; times   *)
(* and byte counts are small integers for which 8 * bytes / seconds is     *)
(* whole.  Diagnostics are reduced to what the quality depends on.  Of the *)
(* compared settings, `parallel` and `rate` are those that the code        *)
(* computes with, `tos` stands for the other fixed ones and `mss` for the  *)
(* advanced ones, which are compared only when something asks for them.    *)
(***************************************************************************)
EXTENDS Integers, Sequences, SequencesExt, FiniteSetsExt

None == -1       \* an absent number

FixedFields    == {"tos", "method", "parallel", "rate", "intent"}
ExpandedFields == {"mss"}

Total(values) == FoldLeft(LAMBDA sum, v : sum + v, 0, values)

Sorted(values) == SortSeq(values, <)

UpperMedian(values) ==       \* mutant
    IF values = <<>> THEN None ELSE Sorted(values)[Len(values) \div 2 + 1]

\* The value in the middle, or halfway between the two in the middle.
Median(values) ==
    LET ordered == Sorted(values)
        middle  == Len(ordered) \div 2
    IN  CASE values = <<>> -> None
          [] Len(values) % 2 = 1 -> ordered[middle + 1]
          [] OTHER -> ordered[middle] + (ordered[middle + 1] - ordered[middle]) \div 2

DivideBytes(bytes, seconds) == (8 * bytes) \div seconds

-----------------------------------------------------------------------------
(* summary_throughput                                                      *)

Completed(result) == result.status = "completed"

Insufficient == [quality |-> "insufficient_data", index |-> 0, rate |-> None]

Measured(stats) ==
    /\ stats.bytes # None /\ stats.seconds # None /\ stats.seconds > 0
    /\ ~stats.omitted

\* An endpoint's bytes over its measured time, from exactly one flow.
SummaryThroughput(result, direction, observation) ==
    LET matches == {n \in DOMAIN result.flows : result.flows[n].direction = direction}
        index   == CHOOSE n \in matches : TRUE
        stats   == result.flows[index][observation]
    IN  IF Completed(result) /\ Cardinality(matches) = 1 /\ Measured(stats)
        THEN [quality |-> "complete", index |-> index,
              rate |-> DivideBytes(stats.bytes, stats.seconds)]
        ELSE Insufficient

-----------------------------------------------------------------------------
(* _interval_samples and interval_stability                                *)

Included(interval, policy) ==
    interval.omitted = "no" \/ (interval.omitted = "unknown" /\ policy.include)

\* Measured time of an interval, derived from its bounds where the policy
\* says so.
Seconds(interval, policy) ==
    IF interval.seconds = None /\ policy.derive THEN interval.end - interval.start
    ELSE interval.seconds

Bounded(interval, policy) ==
    Included(interval, policy) /\ interval.known /\ interval.end > interval.start

\* A sample needs provenance, bounds, a duration that agrees with them, and
\* bytes or a reported rate.
Sampled(interval, policy) ==
    /\ Bounded(interval, policy)
    /\ Seconds(interval, policy) = interval.end - interval.start
    /\ interval.bytes # None \/ interval.reported # None

RateOf(interval, policy) ==
    IF interval.bytes # None
    THEN DivideBytes(interval.bytes, Seconds(interval, policy))
    ELSE interval.reported

ByStart(left, right) ==
    left.start < right.start \/ (left.start = right.start /\ left.end < right.end)

Samples(intervals, policy) ==
    SortSeq(SelectSeq(intervals, LAMBDA i : Sampled(i, policy)), ByStart)

NoOverlap(samples) == FALSE      \* mutant

\* Overlapping intervals are not independent measured time.
Overlap(samples) ==
    \E n \in 1 .. Len(samples) - 1 : samples[n + 1].start < samples[n].end

Gaps(samples) ==
    \E n \in 1 .. Len(samples) - 1 : samples[n + 1].start > samples[n].end

\* An interval that was selected, is not declared warm-up and gave no sample.
Lost(intervals, policy) ==
    {n \in DOMAIN intervals :
         Included(intervals[n], policy) /\ ~Sampled(intervals[n], policy)}

\* Lost intervals whose extent is unknown or disputed leave the span unknown.
SpanUnknown(intervals, policy) ==
    \/ \E n \in DOMAIN intervals : intervals[n].omitted = "unknown"
    \/ \E n \in Lost(intervals, policy) :
           LET i == intervals[n] IN
           \/ ~Bounded(i, policy)
           \/ Seconds(i, policy) # None /\ Seconds(i, policy) # i.end - i.start

\* The smallest rate whose cumulative duration reaches half of the total.
MedianRate(samples, policy) ==
    LET Rate(i)  == RateOf(i, policy)
        UpTo(r)  == Total([n \in DOMAIN samples |->
                        IF Rate(samples[n]) <= r THEN Seconds(samples[n], policy) ELSE 0])
        rates    == {Rate(samples[n]) : n \in DOMAIN samples}
    IN  Min({r \in rates : 2 * UpTo(r) >= UpTo(Max(rates))})

NoStability ==
    [quality |-> "insufficient_data", seconds |-> 0, span |-> None, least |-> None,
     weighted |-> None, median |-> None, bytesRate |-> None]

IntervalStability(result, policy) ==
    LET samples  == Samples(result.intervals, policy)
        seconds  == Total([n \in DOMAIN samples |-> Seconds(samples[n], policy)])
        bounds   == SelectSeq(result.intervals, LAMBDA i : Bounded(i, policy))
        span     == IF SpanUnknown(result.intervals, policy) THEN None
                    ELSE Max({bounds[n].end : n \in DOMAIN bounds})
                         - Min({bounds[n].start : n \in DOMAIN bounds})
        allBytes == \A n \in DOMAIN samples : samples[n].bytes # None
        flawed   == \/ \E n \in DOMAIN result.intervals :
                           result.intervals[n].omitted = "unknown"
                    \/ Lost(result.intervals, policy) # {}
                    \/ Gaps(samples) \/ ~allBytes
                    \/ \E n \in DOMAIN samples :
                           \/ samples[n].seconds = None
                           \/ /\ samples[n].reported # None
                              /\ samples[n].reported # RateOf(samples[n], policy)
    IN  IF ~Completed(result) \/ samples = <<>> \/ Overlap(samples)
        THEN [NoStability EXCEPT !.seconds = IF Completed(result) THEN seconds ELSE 0]
        ELSE [quality |-> CASE Len(samples) < policy.minimum -> "insufficient_data"
                            [] Len(samples) >= policy.minimum /\ flawed -> "partial"
                            [] OTHER -> "complete",
              seconds |-> seconds, span |-> span,
              least |-> Min({RateOf(samples[n], policy) : n \in DOMAIN samples}),
              weighted |-> Total([n \in DOMAIN samples |->
                               Seconds(samples[n], policy) * RateOf(samples[n], policy)]),
              median |-> MedianRate(samples, policy),
              bytesRate |-> IF allBytes
                  THEN DivideBytes(Total([n \in DOMAIN samples |-> samples[n].bytes]), seconds)
                  ELSE None]

-----------------------------------------------------------------------------
(* stream_balance, from summaries                                          *)

\* A verified setting with observed evidence; any other is None.
Effective(result, name) == result.effective[name]

\* Balance of the streams that were measured: Jain's index as a fraction.
StreamBalance(result) ==
    LET streams  == result.streams
        expected == Effective(result, "parallel")
        Rate(s)  == IF s # None THEN 8 * s ELSE None
        valid    == SelectSeq([n \in DOMAIN streams |-> Rate(streams[n])], LAMBDA r : r # None)
        quality  == IF ~Completed(result) \/ valid = <<>>
                       \/ (expected # None /\ Len(streams) > expected) THEN "insufficient_data"
                    ELSE IF expected = None \/ Len(valid) # expected
                            \/ Len(valid) # Len(streams) THEN "partial"
                    ELSE "complete"
        known    == quality # "insufficient_data" /\ Max(ToSet(valid)) > 0
        squares  == Total([n \in DOMAIN valid |-> valid[n] * valid[n]])
    IN  [quality |-> quality,
         ratio |-> IF known THEN <<Min(ToSet(valid)), Max(ToSet(valid))>> ELSE <<>>,
         fairness |-> IF known THEN <<Total(valid) * Total(valid), Len(valid) * squares>>
                      ELSE <<>>]

-----------------------------------------------------------------------------
(* check_compatibility: what every pair of trials must have in common      *)

\* Advanced fields that a request or the policy brings into the comparison.
Expanded(results, policy) ==
    {name \in ExpandedFields :
        \/ name \in policy.varying \union policy.allowed
        \/ \E n \in DOMAIN results : results[n].requested # None}

\* An advanced one; what was requested never establishes it.
ExpandedEffective(result, name) == result.effective[name]

\* The aggregate target that was resolved, 0 for a per-stream basis.
RateIntent(result) == result.intent

\* What a result proves about its settings.
Fingerprint(result, expanded) ==
    [name \in FixedFields \union expanded |->
        CASE name = "method" -> result.method
          [] name = "intent" -> RateIntent(result)
          [] name \in expanded -> ExpandedEffective(result, name)
          [] OTHER -> Effective(result, name)]

Missing(name, value) ==
    IF name = "method" THEN value = "unknown" ELSE value = None

\* One aggregate rate intent shared by all.
SharedAggregate(fps) ==
    /\ fps # <<>> /\ fps[1].intent # 0
    /\ \A n \in DOMAIN fps : fps[n].intent = fps[1].intent

Allocated(fp) ==
    /\ fp.parallel >= 1 /\ fp.intent >= fp.parallel
    /\ fp.rate = fp.intent \div fp.parallel

Differs(fps, name) ==
    \E n \in DOMAIN fps : fps[n][name] # fps[1][name]

Unexplained(missing, noted, policy) == noted \ policy.allowed     \* mutant

\* An allowance explains a difference; it cannot supply missing evidence.
Refused(missing, noted, policy) == missing \union (noted \ policy.allowed)

CheckCompatibility(results, policy) ==
    LET expanded == Expanded(results, policy)
        fps   == [n \in DOMAIN results |-> Fingerprint(results[n], expanded)]
        shared   == SharedAggregate(fps)
        resolved == \A n \in DOMAIN fps : Allocated(fps[n])
        varying  == policy.varying \union (IF shared /\ resolved THEN {"rate"} ELSE {})
        missing  == {name \in FixedFields \union expanded :
                         \E n \in DOMAIN fps : Missing(name, fps[n][name])}
        noted    == {name \in FixedFields \union expanded :
                         name \in missing
                         \/ (Differs(fps, name) /\ name \notin varying)}
        refused  == Refused(missing, noted, policy)
        bad      == results = <<>> \/ refused # {} \/ (shared /\ ~resolved)
    IN  [compatible |-> ~bad, fingerprints |-> fps,
         quality |-> CASE bad -> "insufficient_data"
                       [] ~bad /\ noted # {} -> "partial"
                       [] OTHER -> "complete"]

-----------------------------------------------------------------------------
(* stream_scaling, simultaneous_asymmetry and sequential_asymmetry         *)

Eligible(result, direction) ==
    /\ Effective(result, "parallel") # None
    /\ SummaryThroughput(result, direction, "receiver").rate # None

\* The smallest tested count whose median reaches half of the best one.
StreamScaling(results, direction, policy) ==
    LET eligible == SelectSeq(results, LAMBDA r : Eligible(r, direction))
        agreed   == CheckCompatibility(eligible,
                        [policy EXCEPT !.varying = @ \union {"parallel"}])
        Group(n) == SelectSeq(eligible, LAMBDA r : r.effective.parallel = n)
        Rates(g) == [n \in DOMAIN g |-> SummaryThroughput(g[n], direction, "receiver").rate]
        counts   == {eligible[n].effective.parallel : n \in DOMAIN eligible}
        medians  == [n \in counts |-> Median(Rates(Group(n)))]
        best     == IF counts # {} /\ agreed.compatible
                    THEN Max({medians[n] : n \in counts}) ELSE None
        reaching == {n \in counts : best > 0 /\ 2 * medians[n] >= best}
    IN  [best |-> best, chosen |-> IF reaching = {} THEN None ELSE Min(reaching),
         quality |-> CASE reaching = {} -> "insufficient_data"
                       [] reaching # {} /\ (Len(eligible) # Len(results)
                                            \/ agreed.quality # "complete") -> "partial"
                       [] OTHER -> "complete"]

Asymmetry(forward, reverse, comparable, noted) ==
    IF ~comparable \/ forward.rate = None \/ reverse.rate = None
    THEN [quality |-> "insufficient_data", difference |-> 0]
    ELSE [quality |-> IF noted \/ Max({forward.rate, reverse.rate}) = 0 THEN "partial"
                      ELSE "complete",
          difference |-> forward.rate - reverse.rate]

SimultaneousAsymmetry(result) ==
    Asymmetry(SummaryThroughput(result, "client_to_server", "receiver"),
              SummaryThroughput(result, "server_to_client", "receiver"),
              result.method = "bidirectional", FALSE)

SequentialAsymmetry(forward, reverse, policy, cooldownKnown) ==
    LET agreed == CheckCompatibility(<<forward, reverse>>,
                      [policy EXCEPT !.varying = @ \union {"method"}])
    IN  Asymmetry(SummaryThroughput(forward, "client_to_server", "receiver"),
                  SummaryThroughput(reverse, "server_to_client", "receiver"),
                  /\ agreed.compatible
                  /\ forward.method = "forward" /\ reverse.method = "reverse",
                  agreed.quality # "complete" \/ ~cooldownKnown)
=============================================================================
