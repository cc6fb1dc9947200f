------------------------------- MODULE Sweeps -------------------------------
(***************************************************************************)
(* sweeps.py and sweep_reports.py: the Cartesian product of the declared   *)
(* axes, its expansion into trials, the summary of every cell, the         *)
(* comparison of cells of one method and direction, and the reader that    *)
(* recomputes a stored report by the frozen rules, without the current     *)
(* analysis and without replaying the random order.                        *)
(***************************************************************************)
EXTENDS Assessments

-----------------------------------------------------------------------------
(* _prepare_v1                                                             *)

Protocol == "tcp"       \* of every configuration

Base == [parallel |-> 1, method |-> "forward", tos |-> None]

\* product(*(axis.values ...)): the last axis varies fastest.
Product(axes) ==
    FoldLeft(LAMBDA configs, axis :
                 FlattenSeq([n \in DOMAIN configs |->
                     [m \in DOMAIN axis.values |->
                         [configs[n] EXCEPT ![axis.name] = axis.values[m]]]]),
             <<Base>>, axes)

AxisNames(axes) == {axes[n].name : n \in DOMAIN axes}

PerCell(policy) == policy.warmups + policy.repetitions

\* Distinct axes and values, and a product that fits before it is built.
Admissible(axes, policy, intent) ==
    /\ axes # <<>> /\ Cardinality(AxisNames(axes)) = Len(axes)
    /\ \A n \in DOMAIN axes :
           axes[n].values # <<>> /\ Cardinality(ToSet(axes[n].values)) = Len(axes[n].values)
    /\ Len(Product(axes)) * PerCell(policy) <= policy.maxTrials
    /\ intent # 0 => \A n \in DOMAIN Product(axes) : Product(axes)[n].parallel <= intent

\* resolve_rate: what an aggregate intent leaves for one stream.
ResolvedRate(config, intent) == IF intent = 0 THEN None ELSE intent \div config.parallel

Declared(axes, intent) ==
    [n \in DOMAIN Product(axes) |->
        [id |-> n, config |-> Product(axes)[n],
         rate |-> ResolvedRate(Product(axes)[n], intent)]]

\* The recorded order has every cell once; a declared one is not rearranged.
OrderValid(order, cells) ==
    /\ ToSet(order) = 1 .. cells /\ Len(order) = cells

Prepare(axes, policy, intent, shuffled, order) ==
    LET declared == Declared(axes, intent)
    IN  [axes |-> axes, policy |-> policy, intent |-> intent, shuffled |-> shuffled,
         cells |-> [n \in DOMAIN order |-> declared[order[n]]]]

\* Warm-up runs first, in every cell.
Specs(prepared) ==
    FlattenSeq([n \in DOMAIN prepared.cells |->
        [i \in 1 .. PerCell(prepared.policy) |->
            [cell |-> prepared.cells[n].id,
             phase |-> IF i <= prepared.policy.warmups THEN "warmup" ELSE "measured"]]])

\* _validated_prepared: preparing again, in the recorded order, gives the same.
PreparedValid(prepared) ==
    LET order == [n \in DOMAIN prepared.cells |-> prepared.cells[n].id]
        all   == Len(Product(prepared.axes))
    IN  /\ Admissible(prepared.axes, prepared.policy, prepared.intent)
        /\ OrderValid(order, all)
        /\ ~prepared.shuffled => order = [n \in 1 .. all |-> n]
        /\ prepared = Prepare(prepared.axes, prepared.policy, prepared.intent,
                              prepared.shuffled, order)

-----------------------------------------------------------------------------
(* _setting_checks and _sample_v1                                          *)

\* Expected axis values and allocation against the verified settings.
CheckState(name, cell, result) ==
    LET wanted   == IF name = "rate" THEN cell.rate ELSE cell.config[name]
        observed == IF name = "method" THEN result.verifiedMethod
                    ELSE result.effective[name]
    IN  CASE Missing(name, observed) -> "unknown"
          [] ~Missing(name, observed) /\ Missing(name, wanted) -> "native_default"
          [] OTHER -> IF wanted = observed THEN "matched" ELSE "mismatch"

Expected(axes, intent) ==
    AxisNames(axes) \union (IF intent = 0 THEN {} ELSE {"rate", "parallel"})

AnySetting(result, cell, axes, intent) == TRUE       \* mutant

SettingsHold(result, cell, axes, intent) ==
    \A name \in Expected(axes, intent) :
        CheckState(name, cell, result) \in {"matched", "native_default"}

\* Why a record gives no sample, or "sample".
SampleReason(record, direction, cell) ==
    CASE record.phase = "warmup" -> "warmup_run"
      [] record.phase # "warmup" /\ record.status # "completed" -> record.status
      [] OTHER ->
             IF record.result.method # cell.config.method THEN "method_mismatch"
             ELSE IF record.result.protocol # Protocol THEN "protocol_mismatch"
             ELSE IF SummarySelectionV1(record.result, direction, "receiver") = None
             THEN "receiver_measurement_unavailable" ELSE "sample"

\* The current analysis when a sweep is summarised, the frozen rule when its
\* report is read.
SampleRate(result, direction, current) ==
    IF current THEN SummaryThroughput(result, direction, "receiver").rate
    ELSE SummarySelectionV1(result, direction, "receiver")

-----------------------------------------------------------------------------
(* _cell_summaries_v1 and the comparisons                                  *)

DirectionsOf(method) ==
    CASE method = "bidirectional" -> {"client_to_server", "server_to_client"}
      [] method = "reverse"       -> {"server_to_client"}
      [] OTHER                    -> {"client_to_server"}

Summary(prepared, records, cell, direction, minimum, current) ==
    LET mine     == SelectSeq([n \in DOMAIN records |-> n],
                              LAMBDA n : records[n].cell = cell.id)
        Reason(n) == SampleReason(records[n], direction, cell)
        kept     == SelectSeq(mine, LAMBDA n : Reason(n) = "sample")
        samples  == [k \in DOMAIN kept |->
            [trial |-> kept[k],
             rate |-> SampleRate(records[kept[k]].result, direction, current),
             eligible |-> SettingsHold(records[kept[k]].result, cell, prepared.axes,
                                       prepared.intent)]]
        eligible == SelectSeq(samples, LAMBDA s : s.eligible)
        excluded == {Exclude(n, Reason(n)) : n \in ToSet(mine) \ ToSet(kept)}
        completed == {n \in ToSet(mine) : records[n].status = "completed"}
    IN  [samples |-> samples, exclusions |-> excluded,
         median |-> Median([k \in DOMAIN eligible |-> eligible[k].rate]),
         quality |->
             CASE Len(eligible) < minimum -> "insufficient_data"
               [] Len(eligible) >= minimum
                  /\ (\/ \E e \in excluded : e.reason # "warmup_run"
                      \/ completed # ToSet(mine) \/ Len(eligible) # Len(samples)) -> "partial"
               [] OTHER -> "complete"]

CellSummaries(prepared, records, minimum, current) ==
    [n \in DOMAIN prepared.cells |->
        LET cell == prepared.cells[n]
        IN  [d \in DirectionsOf(cell.config.method) |->
                Summary(prepared, records, cell, d, minimum, current)]]

\* Cells are only compared within one method and direction.
Groups(prepared) ==
    UNION {{<<prepared.cells[n].config.method, d>> :
                d \in DirectionsOf(prepared.cells[n].config.method)} :
           n \in DOMAIN prepared.cells}

Members(prepared, group) ==
    SelectSeq([n \in DOMAIN prepared.cells |-> n],
              LAMBDA n : prepared.cells[n].config.method = group[1])

\* The trials of a group: the eligible samples, cell by cell.
GroupResults(prepared, records, cells, group) ==
    LET members == Members(prepared, group)
        Trials(n) == SelectSeq(cells[n][group[2]].samples, LAMBDA s : s.eligible)
        all     == FlattenSeq([k \in DOMAIN members |-> Trials(members[k])])
    IN  [k \in DOMAIN all |-> records[all[k].trial].result]

EffectivePolicy(prepared, comparison) ==
    [comparison EXCEPT !.varying = AxisNames(prepared.axes)]

ComparisonQuality(prepared, cells, group, agreed) ==
    LET qualities == {cells[n][group[2]].quality : n \in ToSet(Members(prepared, group))}
    IN  CASE \/ Len(Members(prepared, group)) < 2 \/ "insufficient_data" \in qualities
             \/ ~agreed.compatible -> "insufficient_data"
          [] OTHER -> IF agreed.quality = "partial" \/ "partial" \in qualities
                      THEN "partial" ELSE "complete"

SummarizeSweep(prepared, execution, minimum, comparison) ==
    LET cells == CellSummaries(prepared, execution.records, minimum, TRUE)
        Agreed(g) == CheckCompatibility(
                         GroupResults(prepared, execution.records, cells, g),
                         EffectivePolicy(prepared, comparison))
    IN  [prepared |-> prepared, execution |-> execution, minimum |-> minimum,
         comparison |-> comparison, cells |-> cells,
         comparisons |-> [g \in Groups(prepared) |->
             [compatibility |-> Agreed(g),
              quality |-> ComparisonQuality(prepared, cells, g, Agreed(g))]]]

\* sweep_report_from_dict: preparation, cells and comparisons recomputed.
SweepReportValid(report) ==
    LET prepared == report.prepared
        records  == report.execution.records
        specs    == Specs(prepared)
        cells    == CellSummaries(prepared, records, report.minimum, FALSE)
    IN  /\ HistoryValid(report.execution) /\ PreparedValid(prepared)
        /\ \A n \in DOMAIN records : records[n].cell = specs[n].cell
        /\ report.cells = cells
        /\ DOMAIN report.comparisons = Groups(prepared)
        /\ \A g \in Groups(prepared) :
               /\ CompatibilityValid(report.comparisons[g].compatibility,
                      GroupResults(prepared, records, cells, g),
                      EffectivePolicy(prepared, report.comparison))
               /\ report.comparisons[g].quality =
                      ComparisonQuality(prepared, cells, g,
                                        report.comparisons[g].compatibility)
=============================================================================
