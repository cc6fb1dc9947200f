---------------------------- MODULE Assessments ----------------------------
(***************************************************************************)
(* assessments.py and reports.py: the median decision on the trials of a   *)
(* plan, the exit code of a CI job, and the frozen report-v1 rules by      *)
(* which a reader accepts or refuses a stored report.  The reader never    *)
(* calls the current analysis: eligibility, fingerprints and compatibility *)
(* are written a second time there, and so they are here.                  *)
(***************************************************************************)
EXTENDS Analysis

\* TrialRecord: an unstarted trial has no artifact, an exception none either.
HasArtifact(record) == record.status \in {"completed", "failed", "incomplete"}

-----------------------------------------------------------------------------
(* assess_plan                                                             *)

Exclude(id, reason) == [id |-> id, reason |-> reason]

TrialReason(record, policy) ==
    CASE record.phase = "warmup" -> "warmup_run"
      [] record.phase # "warmup" /\ record.status # "completed" -> record.status
      [] record.phase # "warmup" /\ record.status = "completed" ->
             IF SummaryThroughput(record.result, policy.direction, policy.observation).quality
                    = "complete"
             THEN "selected" ELSE "insufficient_summary"

Selected(records, policy) ==
    SelectSeq([n \in DOMAIN records |-> n],
              LAMBDA n : TrialReason(records[n], policy) = "selected")

\* A baseline artifact is judged like a completed measured trial.
AsRecord(result) == [phase |-> "measured", status |-> "completed", result |-> result]

Rates(records, chosen, policy) ==
    [n \in DOMAIN chosen |->
        SummaryThroughput(records[chosen[n]].result, policy.direction,
                          policy.observation).rate]

\* The stricter of the minimum and the tolerated baseline, less the absolute
\* tolerance; relative tolerance is in halves.
Threshold(policy, baseline) ==
    LET limits == (IF policy.minimum # None THEN {policy.minimum} ELSE {})
                  \union (IF baseline # None
                          THEN {(baseline * (2 - policy.relative)) \div 2} ELSE {})
    IN  IF limits = {} THEN None ELSE Max({0, Max(limits) - policy.absolute})

\* _decision_v1: what stands in the way of a verdict, and the verdict.
Reasons(policy, current, base, requested, compatible) ==
    {r \in {"trials", "baselines", "incompatible", "criterion", "relative"} :
        CASE r = "trials"       -> Len(current) < policy.minTrials
          [] r = "baselines"    -> requested /\ Len(base) < policy.minBaselines
          [] r = "incompatible" -> ~compatible
          [] r = "criterion"    -> ~requested /\ policy.minimum = None
          [] r = "relative"     -> ~requested /\ policy.relative # 0}

Decision(policy, current, base, requested, compatible) ==
    LET median    == Median(current)
        baseline  == Median(base)
        threshold == Threshold(policy, IF requested THEN baseline ELSE None)
        reasons   == Reasons(policy, current, base, requested, compatible)
    IN  [median |-> median, baseline |-> baseline, threshold |-> threshold,
         reasons |-> reasons,
         outcome |-> CASE reasons # {} \/ median = None \/ threshold = None -> "inconclusive"
                       [] OTHER -> IF median >= threshold THEN "pass" ELSE "fail"]

\* The report on a detached copy of the execution and the baselines;
\* requested is whether a baseline, even an empty one, was supplied.
AssessPlan(execution, baselines, requested, policy, comparison) ==
    LET records == execution.records
        base    == [n \in DOMAIN baselines |-> AsRecord(baselines[n])]
        chosen  == Selected(records, policy)
        basis   == Selected(base, policy)
        results == [n \in DOMAIN chosen |-> records[chosen[n]].result]
                   \o [n \in DOMAIN basis |-> baselines[basis[n]]]
        agreed  == CheckCompatibility(results, comparison)
        current == Rates(records, chosen, policy)
        before  == Rates(base, basis, policy)
    IN  [execution |-> execution, baselines |-> baselines, requested |-> requested,
         policy |-> policy, comparison |-> comparison,
         measurements |-> [n \in DOMAIN chosen |->
             [id |-> chosen[n], rate |-> current[n]]],
         baselineMeasurements |-> [n \in DOMAIN basis |->
             [id |-> basis[n], rate |-> before[n]]],
         exclusions |-> {Exclude(n, TrialReason(records[n], policy)) :
                             n \in DOMAIN records \ ToSet(chosen)},
         baselineExclusions |-> DOMAIN baselines \ ToSet(basis),
         compatibility |-> agreed,
         decision |-> Decision(policy, current, before, requested, agreed.compatible)]

\* execution_success: every planned trial completed.
ExecutionSuccess(execution) ==
    \A n \in DOMAIN execution.records : execution.records[n].status = "completed"

\* Did a trial, warm-up included, really fail?
HasFailure(execution) ==
    \E n \in DOMAIN execution.records :
        execution.records[n].status \in {"failed", "exception"}

ExitCode(report) ==
    CASE HasFailure(report.execution) -> 2
      [] ~HasFailure(report.execution) /\ report.decision.outcome = "fail" -> 1
      [] OTHER -> IF report.decision.outcome = "inconclusive"
                     \/ ~ExecutionSuccess(report.execution) THEN 3 ELSE 0

-----------------------------------------------------------------------------
(* reports._validate_history and _validate_report                          *)

\* One record against its place in the plan.
RecordValid(execution, n) ==
    LET record == execution.records[n]
        before == {execution.records[m].status : m \in 1 .. n - 1}
    IN  /\ record.phase = execution.plan.phases[n]
        /\ record.status = "not_run" => execution.stop # "none"
        /\ record.status # "not_run" =>
               /\ "not_run" \notin before
               /\ execution.plan.stopOnError => before \subseteq {"completed"}
        /\ HasArtifact(record) => record.result.status = record.status

HistoryValid(execution) ==
    LET statuses == {execution.records[n].status : n \in DOMAIN execution.records}
    IN  /\ DOMAIN execution.records = DOMAIN execution.plan.phases
        /\ \A n \in DOMAIN execution.records : RecordValid(execution, n)
        /\ execution.stop \in {"none", "stop_on_error", "elapsed_admission_limit"}
        /\ execution.stop = "elapsed_admission_limit" => execution.plan.limited
        /\ execution.stop = "stop_on_error" =>
               /\ execution.plan.stopOnError
               /\ ~(statuses \subseteq {"completed", "not_run"})

\* _summary_selection_v1: the frozen rule of eligibility, and its rate.
SummarySelectionV1(result, direction, observation) ==
    LET matches == SelectSeq(result.flows, LAMBDA f : f.direction = direction)
        stats   == matches[1][observation]
    IN  IF \/ result.status # "completed" \/ Len(matches) # 1
           \/ stats.omitted \/ stats.bytes = None \/ stats.seconds = None
           \/ stats.seconds <= 0
        THEN None ELSE (stats.bytes * 8) \div stats.seconds

\* _fingerprint_v1: the frozen projection of the verified settings.
FingerprintV1(result, expanded) ==
    [method |-> result.method, intent |-> result.intent]
    @@ [name \in (FixedFields \union expanded) \ {"method", "intent"} |->
           result.effective[name]]

\* _validate_compatibility_v1, over the selected artifacts.
CompatibilityValid(stored, results, policy) ==
    LET expanded == Expanded(results, policy)
        names    == FixedFields \union expanded
        fps      == [n \in DOMAIN results |-> FingerprintV1(results[n], expanded)]
        shared   == SharedAggregate(fps)
        resolved == \A n \in DOMAIN fps : Allocated(fps[n])
        varying  == policy.varying \union (IF shared /\ resolved THEN {"rate"} ELSE {})
        missing  == \E name \in names, n \in DOMAIN fps : Missing(name, fps[n][name])
        differing == {name \in names \ varying : Differs(fps, name)}
        compatible ==
            /\ fps # <<>> /\ (shared => resolved)
            /\ ~missing /\ differing \subseteq policy.allowed
    IN  /\ stored.fingerprints = fps
        /\ stored.compatible = compatible
        /\ stored.quality = CASE ~compatible -> "insufficient_data"
                              [] compatible /\ differing # {} -> "partial"
                              [] OTHER -> "complete"

MeasurementValid(measurement, result, policy) ==
    /\ SummarySelectionV1(result, policy.direction, policy.observation) # None
    /\ measurement.rate
           = SummarySelectionV1(result, policy.direction, policy.observation)

ExclusionValid(exclusion, record, policy) ==
    exclusion.reason =
        CASE record.phase = "warmup" -> "warmup_run"
          [] record.phase # "warmup" /\ record.status # "completed" -> record.status
          [] OTHER ->
                 IF SummarySelectionV1(record.result, policy.direction,
                                       policy.observation) = None
                 THEN "insufficient_summary" ELSE "refused"

Numbers(measurements) == {measurements[n].id : n \in DOMAIN measurements}

\* _validate_report: what report_from_dict accepts.
ReportValid(report) ==
    LET records  == report.execution.records
        chosen   == report.measurements
        basis    == report.baselineMeasurements
        results  == [n \in DOMAIN chosen |-> records[chosen[n].id].result]
                    \o [n \in DOMAIN basis |-> report.baselines[basis[n].id]]
        excluded == {e.id : e \in report.exclusions}
    IN  /\ HistoryValid(report.execution)
        /\ \A n \in DOMAIN chosen :
               /\ records[chosen[n].id].phase = "measured"
               /\ records[chosen[n].id].status = "completed"
               /\ MeasurementValid(chosen[n], records[chosen[n].id].result, report.policy)
        /\ \A n \in DOMAIN basis :
               MeasurementValid(basis[n], report.baselines[basis[n].id], report.policy)
        /\ Cardinality(Numbers(chosen)) = Len(chosen)
        /\ Cardinality(Numbers(basis)) = Len(basis)
        /\ CompatibilityValid(report.compatibility, results, report.comparison)
        /\ \A e \in report.exclusions :
               ExclusionValid(e, records[e.id], report.policy)
        /\ \A n \in report.baselineExclusions :
               SummarySelectionV1(report.baselines[n], report.policy.direction,
                                  report.policy.observation) = None
        /\ Numbers(chosen) \intersect excluded = {}
        /\ Numbers(chosen) \union excluded = DOMAIN records
        /\ Numbers(basis) \union report.baselineExclusions = DOMAIN report.baselines
        /\ report.decision =
               Decision(report.policy, [n \in DOMAIN chosen |-> chosen[n].rate],
                        [n \in DOMAIN basis |-> basis[n].rate], report.requested,
                        report.compatibility.compatible)
=============================================================================
