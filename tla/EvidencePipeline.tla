-------------------------- MODULE EvidencePipeline --------------------------
(***************************************************************************)
(* From trials to archived reports: a plan or a sweep is admitted and run  *)
(* trial by trial (trials.run_plan), the caller may meanwhile change the   *)
(* nested evidence it holds, assess_plan or summarize_sweep draw their     *)
(* conclusions from a validated copy, and the report is written and read   *)
(* back by the frozen rules.  A result under observation grows interval by *)
(* interval and stream by stream, and is analysed at every stage.          *)
(***************************************************************************)
EXTENDS Sweeps

CONSTANTS
    Assessed,        \* assessments to consider: plan, policies and baselines
    Swept,           \* sweeps to consider: axes, policies and intent
    Policies,        \* interval policies to consider
    Artifacts(_, _), \* results that a trial of a configuration and intent may return
    Observed,        \* the result under observation, before its first interval
    Intervals,       \* intervals that a native result may contain
    Streams,         \* bytes of a stream summary, None if it was not measured
    MaxIntervals, MaxStreams       \* bounds on the result under observation

ASSUME BoundsAssumption == MaxIntervals \in Nat /\ MaxStreams \in Nat

VARIABLES
    job,        \* what was asked for
    prepared,   \* PreparedSweep, or <<>>
    records,    \* the caller's trial records
    stop,       \* the stop reason of the plan
    report,     \* AssessmentReport or SweepResult, or <<>>
    verdict,    \* "none", "raised", "accepted" or "refused"
    observed    \* the result under observation

vars == <<job, prepared, records, stop, report, verdict, observed>>

Init ==
    /\ job \in Assessed \union Swept \union [kind : {"observe"}, policy : Policies]
    /\ prepared = <<>> /\ records = <<>> /\ stop = "none"
    /\ report = <<>> /\ verdict = "none"
    /\ observed = Observed

-----------------------------------------------------------------------------
(* prepare_sweep, run_plan                                                 *)

\* A product that is refused is never materialised.
PrepareSweep ==
    /\ job.kind = "sweep" /\ prepared = <<>> /\ verdict = "none"
    /\ IF Admissible(job.axes, job.policy, job.intent)
       THEN /\ \E order \in
                   LET all == 1 .. Len(Product(job.axes)) IN
                   IF job.shuffled THEN SetToSeqs(all) ELSE {[n \in all |-> n]} :
                   prepared' = Prepare(job.axes, job.policy, job.intent, job.shuffled, order)
            /\ UNCHANGED verdict
       ELSE verdict' = "raised" /\ UNCHANGED prepared
    /\ UNCHANGED <<job, records, stop, report, observed>>

\* The trials of the admitted plan, with the configuration of each.
Trials ==
    IF job.kind = "sweep"
    THEN [n \in DOMAIN Specs(prepared) |->
             LET spec == Specs(prepared)[n]
                 cell == CHOOSE c \in ToSet(prepared.cells) : c.id = spec.cell
             IN  [cell |-> spec.cell, phase |-> spec.phase, config |-> cell.config]]
    ELSE [n \in DOMAIN job.plan.phases |->
             [cell |-> 1, phase |-> job.plan.phases[n], config |-> Base]]

Ready ==
    verdict = "none" /\ report = <<>>
    /\ (job.kind = "assess" \/ (job.kind = "sweep" /\ prepared # <<>>))

Plan ==
    [phases |-> [n \in DOMAIN Trials |-> Trials[n].phase],
     stopOnError |-> job.policy.stopOnError, limited |-> job.policy.limited]

Execution == [plan |-> Plan, records |-> records, stop |-> stop]

\* An artifact of the trial's status, or none.  artifact_from_result gives a
\* result without execution metadata an inferred status.
Outcomes(config, intent) ==
    LET any == CHOOSE r \in Artifacts(config, intent) : TRUE IN
    {[status |-> "completed", result |-> r] : r \in Artifacts(config, intent)}
    \union {[status |-> s, result |-> [any EXCEPT !.status = s]] : s \in {"failed", "incomplete"}}
    \union {[status |-> "exception", result |-> <<>>]}

\* One trial; what is not completed stops the plan if the policy says so.
RunTrial ==
    /\ Ready /\ stop = "none" /\ Len(records) < Len(Trials)
    /\ LET trial == Trials[Len(records) + 1]
       IN  \E outcome \in Outcomes(trial.config, job.intent) :
             /\ records' = Append(records,
                    [cell |-> trial.cell, phase |-> trial.phase] @@ outcome)
             /\ stop' = IF outcome.status # "completed" /\ Plan.stopOnError
                        THEN "stop_on_error" ELSE "none"
    /\ UNCHANGED <<job, prepared, report, verdict, observed>>

\* The elapsed-time limit is read before a trial is admitted.
LimitPasses ==
    /\ Ready /\ stop = "none" /\ Len(records) < Len(Trials) /\ Plan.limited
    /\ stop' = "elapsed_admission_limit"
    /\ UNCHANGED <<job, prepared, records, report, verdict, observed>>

Finished == Ready /\ Len(records) = Len(Trials)

\* Every planned trial is retained, the unstarted ones with the stop reason.
RetainUnstarted ==
    /\ Ready /\ stop # "none" /\ Len(records) < Len(Trials)
    /\ records' = [n \in DOMAIN Trials |->
           IF n <= Len(records) THEN records[n]
           ELSE [cell |-> Trials[n].cell, phase |-> Trials[n].phase,
                 status |-> "not_run", result |-> <<>>]]
    /\ UNCHANGED <<job, prepared, stop, report, verdict, observed>>

\* Records are frozen, the results inside them are not: the caller changes
\* the status of the first, before or after the report was drawn up.
ChangeEvidence ==
    /\ verdict = "none" /\ (Finished \/ report # <<>>)
    /\ records[1].status = "completed" /\ records[1].result.status = "completed"
    /\ records' = [records EXCEPT ![1].result.status = "failed"]
    /\ UNCHANGED <<job, prepared, stop, report, verdict, observed>>

-----------------------------------------------------------------------------
(* assess_plan, summarize_sweep and the readers of their reports           *)

\* plan_result_from_dict(plan_result_to_dict(...)) validates and detaches.
Retained(execution) == HistoryValid(execution)

Assess ==
    /\ Finished /\ job.kind = "assess"
    /\ IF Retained(Execution)
       THEN /\ LET r == AssessPlan(Execution, job.baselines, job.requested, job.policy,
                                   job.comparison)
               IN  report' = r @@ [exit |-> ExitCode(r)]
            /\ UNCHANGED verdict
       ELSE verdict' = "raised" /\ UNCHANGED report
    /\ UNCHANGED <<job, prepared, records, stop, observed>>

Summarize ==
    /\ Finished /\ job.kind = "sweep"
    /\ IF Retained(Execution) /\ PreparedValid(prepared)
       THEN /\ report' = SummarizeSweep(prepared, Execution, job.policy.minimum,
                                        job.comparison)
            /\ UNCHANGED verdict
       ELSE verdict' = "raised" /\ UNCHANGED report
    /\ UNCHANGED <<job, prepared, records, stop, observed>>

\* report_to_dict and sweep_report_to_dict read back what they wrote.
Archive ==
    /\ report # <<>> /\ verdict = "none"
    /\ verdict' = IF IF job.kind = "sweep" THEN SweepReportValid(report)
                     ELSE ReportValid(report)
                  THEN "accepted" ELSE "refused"
    /\ UNCHANGED <<job, prepared, records, stop, report, observed>>

-----------------------------------------------------------------------------
(* The result under observation                                            *)

ObserveInterval ==
    /\ job.kind = "observe" /\ Len(observed.intervals) < MaxIntervals
    /\ \E i \in Intervals : observed' = [observed EXCEPT !.intervals = Append(@, i)]
    /\ UNCHANGED <<job, prepared, records, stop, report, verdict>>

ObserveStream ==
    /\ job.kind = "observe" /\ observed.intervals = <<>>
    /\ Len(observed.streams) < MaxStreams
    /\ \E s \in Streams : observed' = [observed EXCEPT !.streams = Append(@, s)]
    /\ UNCHANGED <<job, prepared, records, stop, report, verdict>>

Next ==
    \/ PrepareSweep \/ RunTrial \/ LimitPasses \/ RetainUnstarted \/ ChangeEvidence
    \/ Assess \/ Summarize \/ Archive \/ ObserveInterval \/ ObserveStream

Spec == Init /\ [][Next]_vars

-----------------------------------------------------------------------------
(* Properties                                                              *)

\* Whatever was measured and whatever the caller did to its evidence, a
\* report that assess_plan or summarize_sweep produced is accepted by the
\* reader: the current analysis and the frozen v1 rules of reports.py and
\* sweep_reports.py agree on eligibility, exclusions and compatibility.
ArchiveAgrees == verdict # "refused"

\* The k-th smallest of a sequence of rates, by counting.
Smallest(rates, k) ==
    Min({r \in ToSet(rates) :
            Cardinality({n \in DOMAIN rates : rates[n] <= r}) >= k})

\* A verdict of assess_plan rests on enough completed measured trials of
\* proven equal settings and on the exact median; exit code 0 additionally
\* means that every trial, warm-up included, completed (_decision_v1,
\* ci_exit_code).
DecisionSound ==
    job.kind = "assess" /\ report # <<>> =>
        LET used    == {n \in DOMAIN report.execution.records :
                           /\ report.execution.records[n].phase = "measured"
                           /\ report.execution.records[n].status = "completed"
                           /\ SummaryThroughput(report.execution.records[n].result,
                                  job.policy.direction, job.policy.observation).rate # None}
            Rate(n) == SummaryThroughput(report.execution.records[n].result,
                           job.policy.direction, job.policy.observation).rate
            rates   == SetToSeq({<<n, Rate(n)>> : n \in used})
            middle  == [n \in DOMAIN rates |-> rates[n][2]]
            k       == Len(middle)
            twice   == Smallest(middle, (k + 1) \div 2) + Smallest(middle, (k + 2) \div 2)
            Tos(n)  == report.execution.records[n].result.effective.tos
            outcome == report.decision.outcome
        IN  /\ outcome # "inconclusive" =>
                   /\ Cardinality(used) >= job.policy.minTrials
                   /\ report.requested => report.baselineMeasurements # <<>>
                   /\ \A m, n \in used :
                          /\ Tos(n) # None
                          /\ "tos" \notin job.comparison.allowed => Tos(m) = Tos(n)
                   /\ (outcome = "pass") <=> (twice >= 2 * report.decision.threshold)
            /\ report.exit = 0 =>
                   outcome = "pass" /\ \A n \in DOMAIN report.execution.records :
                       report.execution.records[n].status = "completed"

\* stream_scaling, which groups trials by their verified count, finds the
\* cells that a sweep of counts planned, and the same best of them.
ScalingAgrees(group, results) ==
    LET scaling == StreamScaling(results, group[2], report.comparison)
        Reach(n) == 2 * report.cells[n][group[2]].median >= scaling.best
        cells   == DOMAIN report.cells
    IN  /\ scaling.best = Max({report.cells[n][group[2]].median : n \in cells})
        /\ scaling.best > 0 =>
               /\ scaling.quality = "complete"
               /\ scaling.chosen = Min({report.prepared.cells[n].config.parallel :
                                            n \in {c \in cells : Reach(c)}})

\* The directional differences are those of the cells: of one bidirectional
\* run without any further condition, of two runs only if they agree.
AsymmetryAgrees ==
    LET Cell(m) == CHOOSE n \in DOMAIN report.cells :
                       report.prepared.cells[n].config.method = m
        Sample(m, d) == report.cells[Cell(m)][d].samples
        Trial(m, d)  == report.execution.records[Sample(m, d)[1].trial].result
        up   == "client_to_server"
        down == "server_to_client"
    IN  /\ Sample("bidirectional", up) # <<>> /\ Sample("bidirectional", down) # <<>> =>
               LET a == SimultaneousAsymmetry(Trial("bidirectional", up))
               IN  a.quality # "insufficient_data"
                   /\ a.difference = Sample("bidirectional", up)[1].rate
                                     - Sample("bidirectional", down)[1].rate
        /\ Sample("forward", up) # <<>> /\ Sample("reverse", down) # <<>> =>
               LET f == Trial("forward", up)
                   r == Trial("reverse", down)
                   a == SequentialAsymmetry(f, r, report.comparison, TRUE)
               IN  /\ (a.quality = "insufficient_data") <=>
                          (f.effective # r.effective
                           \/ None \in {f.effective.parallel, f.effective.tos}
                           \/ (f.intent # 0 /\ f.effective.rate * f.effective.parallel # f.intent))
                   /\ a.quality # "insufficient_data" =>
                          a.difference = Sample("forward", up)[1].rate
                                         - Sample("reverse", down)[1].rate

\* In every cell and direction of a sweep each trial is a sample or an
\* exclusion, never both; an eligible sample was measured under the method
\* and the verified settings of its own cell; and a comparison is complete
\* only between cells that are complete, whose results differ in nothing
\* but the axes; the scaling and the asymmetry of the same trials are those
\* of the cells (_cell_summaries_v1, _comparison_quality, stream_scaling,
\* _asymmetry).
SweepHonest ==
    job.kind = "sweep" /\ report # <<>> =>
        LET runs == report.execution.records IN
        /\ \A n \in DOMAIN report.cells : \A d \in DOMAIN report.cells[n] :
             LET cell    == report.prepared.cells[n]
                 summary == report.cells[n][d]
                 kept    == {summary.samples[k].trial : k \in DOMAIN summary.samples}
                 gone    == {e.id : e \in summary.exclusions}
             IN  /\ kept \intersect gone = {}
                 /\ kept \union gone = {m \in DOMAIN runs : runs[m].cell = cell.id}
                 /\ \A k \in DOMAIN summary.samples :
                      LET r == runs[summary.samples[k].trial].result IN
                      summary.samples[k].eligible =>
                          /\ r.method = cell.config.method
                          /\ "parallel" \in AxisNames(job.axes) =>
                                 r.effective.parallel = cell.config.parallel
                          /\ job.intent # 0 =>
                                 r.effective.rate * cell.config.parallel <= job.intent
        /\ \A g \in DOMAIN report.comparisons :
             report.comparisons[g].quality = "complete" =>
               LET results == ToSet(GroupResults(report.prepared, runs, report.cells, g))
               IN  /\ \A r, s \in results :
                        /\ r.method = g[1] /\ r.effective.mss = s.effective.mss
                        /\ "tos" \notin AxisNames(job.axes) => r.effective.tos = s.effective.tos
                   /\ \A n \in DOMAIN report.cells :
                        g[2] \in DOMAIN report.cells[n]
                        /\ report.prepared.cells[n].config.method = g[1] =>
                            report.cells[n][g[2]].quality = "complete"
                   /\ AxisNames(job.axes) = {"parallel"} =>
                        ScalingAgrees(g, GroupResults(report.prepared, runs, report.cells, g))
        /\ AxisNames(job.axes) = {"method"} => AsymmetryAgrees

\* A complete stability analysis used every interval that is not declared
\* warm-up, counted no instant twice and left none of the span out, so that
\* its rate is the transferred amount over the elapsed time; the measured
\* time never exceeds a known span; Jain's index of the streams lies between
\* 1/n and 1 (_interval_samples, interval_stability, stream_balance).
AnalysisHonest ==
    job.kind = "observe" =>
        LET s       == IntervalStability(observed, job.policy)
            all     == observed.intervals
            used    == {n \in DOMAIN all : all[n].omitted = "no"}
            instants == UNION {all[n].start .. all[n].end - 1 : n \in used}
            balance == StreamBalance(observed)
        IN  /\ s.quality = "complete" =>
                   /\ s.seconds = Cardinality(instants)
                   /\ instants = Min(instants) .. Max(instants)
                   /\ s.bytesRate * s.seconds =
                          8 * FoldSet(LAMBDA n, sum : sum + all[n].bytes, 0, used)
                   /\ s.weighted = s.bytesRate * s.seconds
            /\ s.span # None => s.seconds <= s.span
            /\ s.median # None => s.least <= s.median
            /\ balance.fairness # <<>> =>
                   /\ balance.fairness[1] <= balance.fairness[2]
                   /\ balance.fairness[2] <= Len(observed.streams) * balance.fairness[1]
=============================================================================
