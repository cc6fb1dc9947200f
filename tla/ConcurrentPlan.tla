--------------------------- MODULE ConcurrentPlan ---------------------------
(***************************************************************************)
(* concurrent_trials._Run: one asyncio task admits the trials of a plan    *)
(* within worker, rate and resource limits, owns their child tasks, and    *)
(* drains every one of them before it reports; and the validation of       *)
(* concurrent_reports that the history it reports must pass.               *)
(*                                                                         *)
(* Children step only while the parent is at an await, except that a task  *)
(* factory may run them eagerly.  What a child's native run does is that   *)
(* of AsyncOperation: a cancelled child ends cancelled or with a cleanup   *)
(* error.  The clock may advance between any two steps of the parent.      *)
(***************************************************************************)
EXTENDS Integers, FiniteSets, FiniteSetsExt, Sums

CONSTANTS
    N,                   \* number of trials; a trial is its declared index
    Cell, Keys, Target,  \* of each trial
    MaxWorkers, MaxRate, \* ConcurrentExecutionPolicy
    Timeout, Limit,      \* deadline and elapsed admission limit, or NoTime
    Eager,               \* does the task factory run children eagerly?
    MaxTime              \* bound on the clock

NoTime == -1
Trials == 1..N

\* What prepare_concurrent_plan accepts.
PlanAccepted ==
    /\ N \in Nat \ {0} /\ MaxWorkers \in Nat \ {0} /\ MaxRate \in Nat \ {0}
    /\ \A t \in Trials : Target[t] \in 1..MaxRate /\ Keys[t] # {}
    /\ Eager \in BOOLEAN
    /\ Timeout = NoTime \/ Timeout \in Nat \ {0}
    /\ Limit = NoTime \/ Limit \in Nat
    /\ MaxTime \in Nat

ASSUME PlanAssumption == PlanAccepted

VARIABLES
    stopOnError,        \* the plan's TrialPolicy.stop_on_error
    now,                \* offset(), on the monotonic clock
    at,                 \* where run() is
    task, sent,         \* each child task, and how often it was cancelled
    pending, active,    \* sets of trials
    admission,          \* _Owned.admission_index and .admitted
    records,
    stop, term,         \* first admission stop and first hard termination
    scan,               \* the loop of admit_ready with its local sums
    timer,              \* the wake-up time of asyncio.wait
    cancel,             \* cancellation of the parent: ever requested, and due
    result

parent == <<pending, active, admission, records, scan, timer>>
vars   == <<stopOnError, now, at, task, sent, parent, stop, term, cancel, result>>

Native      == {"completed", "failed"}
Cleanups    == {"cleanup", "cleanupCancelled", "cleanupTimeout"}
Outcomes    == Native \cup Cleanups \cup {"exception", "cancelled", "timeout"}
Live        == {"created", "running", "doomed", "stopping"}
Hard        == {"cancelled", "timeout", "cleanup_failed"}
Interrupted == {"cancelled", "timed_out", "cleanup_failed"}
Statuses    == Native \cup Interrupted \cup {"exception", "not_run"}

Undecided == [reason |-> "none", offset |-> NoTime]
NoRecord  == [status |-> "none", reason |-> "none", released |-> NoTime, finished |-> NoTime]

TypeOK ==
    /\ stopOnError \in BOOLEAN
    /\ now \in 0..MaxTime
    /\ at \in {"sleep", "check", "consume", "admit", "instant", "cancel", "wait",
               "finish", "ended"}
    /\ task \in [Trials -> {"none"} \cup Live \cup Outcomes]
    /\ sent \in [Trials -> Nat]
    /\ pending \subseteq Trials /\ active \subseteq Trials
    /\ \A t \in Trials :
           /\ admission[t].index \in 0..N /\ admission[t].offset \in NoTime..MaxTime
           /\ records[t].status \in Statuses \cup {"none"}
    /\ stop.reason \in Hard \cup {"none", "stop_on_error", "elapsed_admission_limit"}
    /\ term.reason \in Hard \cup {"none"}
    /\ scan.index \in 1..(N + 1)

Init ==
    /\ stopOnError \in BOOLEAN
    /\ now = 0 /\ at = "sleep"
    /\ task = [t \in Trials |-> "none"] /\ sent = [t \in Trials |-> 0]
    /\ pending = Trials /\ active = {}
    /\ admission = [t \in Trials |-> [index |-> 0, offset |-> NoTime]]
    /\ records = [t \in Trials |-> NoRecord]
    /\ stop = Undecided /\ term = Undecided
    /\ scan = [index |-> 1, reserved |-> {}, target |-> 0]
    /\ timer = NoTime
    /\ cancel = [requested |-> FALSE, due |-> FALSE]
    /\ result = [kind |-> "none", elapsed |-> NoTime]

-----------------------------------------------------------------------------
(* stop(), terminate() and check_limits(): the first decision stays.       *)

First(decision, reason) ==
    IF decision.reason = "none" THEN [reason |-> reason, offset |-> now] ELSE decision

Terminate(reason) ==
    /\ stop' = First(stop, reason)
    /\ term' = First(term, reason)

DeadlinePassed == Timeout # NoTime /\ now >= Timeout
LimitPassed    == Limit # NoTime /\ now >= Limit

CheckLimits ==
    /\ term' = IF DeadlinePassed THEN First(term, "timeout") ELSE term
    /\ stop' = IF DeadlinePassed THEN First(stop, "timeout")
               ELSE IF LimitPassed THEN First(stop, "elapsed_admission_limit") ELSE stop

-----------------------------------------------------------------------------
(* consume(): the outcome of one child becomes its record.                 *)

\* The hard termination an outcome calls for.
Calls(outcome) ==
    IF outcome \in {"cancelled", "cleanupCancelled"} THEN "cancelled"
    ELSE IF outcome \in {"timeout", "cleanupTimeout"} /\ Timeout # NoTime THEN "timeout"
    ELSE IF outcome \in {"cleanup", "cleanupTimeout"} THEN "cleanup_failed"
    ELSE "none"

OwnStatus(outcome, reason) ==     \* mutant: the child's view of the stop wins
    IF outcome \in Native THEN outcome
    ELSE IF outcome \in Cleanups THEN "cleanup_failed"
    ELSE IF Calls(outcome) = "none" THEN "exception"
    ELSE IF outcome = "timeout" THEN "timed_out" ELSE "cancelled"

StatusOf(outcome, reason) ==
    IF outcome \in Native THEN outcome
    ELSE IF outcome \in Cleanups THEN "cleanup_failed"
    ELSE IF Calls(outcome) = "none" THEN "exception"
    ELSE IF reason = "timeout" THEN "timed_out" ELSE "cancelled"

Consume(t) ==
    LET calls  == Calls(task[t])
        status == StatusOf(task[t], term'.reason)
        early  == IF calls = "none" THEN stop ELSE First(stop, calls)
    IN  /\ term' = IF calls = "none" THEN term ELSE First(term, calls)
        /\ stop' = IF status # "completed" /\ stopOnError
                   THEN First(early, "stop_on_error") ELSE early
        /\ records' =
               [records EXCEPT ![t] =
                    [status   |-> status,
                     reason   |-> IF status \in Interrupted THEN term'.reason ELSE "none",
                     finished |-> now,
                     released |-> IF status = "cleanup_failed" THEN NoTime ELSE now]]
        /\ active' = active \ {t}

-----------------------------------------------------------------------------
(* run(), between its awaits                                               *)

\* await asyncio.sleep(0) returns, or delivers a cancellation.
Resume ==
    /\ at = "sleep" /\ at' = "check"
    /\ IF cancel.due THEN Terminate("cancelled") ELSE UNCHANGED <<stop, term>>
    /\ cancel' = [cancel EXCEPT !.due = FALSE]
    /\ UNCHANGED <<stopOnError, now, task, sent, parent, result>>

Check ==
    /\ at = "check" /\ at' = "consume"
    /\ CheckLimits
    /\ UNCHANGED <<stopOnError, now, task, sent, parent, cancel, result>>

DoneTasks == {t \in active : task[t] \in Outcomes}

ReservedBy(trials) == UNION {Keys[t] : t \in trials}
RateOf(trials)     == SumOf([t \in Trials |-> IF t \in trials THEN Target[t] ELSE 0])

\* consume_done: the whole ready batch, in admission order,
ConsumeDone ==
    /\ at = "consume"
    /\ \E t \in DoneTasks :
           /\ \A u \in DoneTasks : admission[t].index <= admission[u].index
           /\ Consume(t)
    /\ UNCHANGED <<stopOnError, now, at, task, sent, pending, admission, scan, timer,
                   cancel, result>>

BatchConsumed == DoneTasks = {}

\* before any slot is refilled.
StartScan ==
    /\ at = "consume" /\ BatchConsumed
    /\ at' = IF stop.reason = "none" THEN "admit" ELSE "cancel"
    /\ scan' = [index |-> 1, reserved |-> ReservedBy(active), target |-> RateOf(active)]
    /\ UNCHANGED <<stopOnError, now, task, sent, pending, active, admission, records, timer,
                   stop, term, cancel, result>>

NoOrder(t) == FALSE     \* mutant: repetitions of a cell are independent

\* self.predecessors: an earlier trial of the cell has no record yet (it is
\* enough to look at the previous one, which waited for the others).
Waits(t) == \E u \in 1..(t - 1) : Cell[u] = Cell[t] /\ records[u].status = "none"

Blocked(t) ==
    \/ Waits(t)
    \/ scan.reserved \cap Keys[t] # {}
    \/ scan.target + Target[t] > MaxRate

Full == Cardinality(active) >= MaxWorkers

\* The child's first state: an ordinary factory only schedules it, or raises;
\* an eager one runs it up to its first await, or to its end.
FirstStates ==
    {"created", "exception"}
        \cup IF Eager THEN {"running", "completed", "failed", "timeout", "cleanup"} ELSE {}

\* admit(): an outcome that is there at once is consumed at once, unless the
\* parent has a cancellation to receive first.
Admit(t) ==
    /\ \E first \in FirstStates, asks \in {FALSE} \cup {Eager} :
           LET requested == cancel.requested \/ asks
               instant   == first \in Outcomes /\ ~requested
           IN  /\ task' = [task EXCEPT ![t] = first]
               /\ cancel' = [requested |-> requested, due |-> cancel.due \/ asks]
               /\ at' = IF instant THEN "instant" ELSE "admit"
               /\ scan' = IF instant THEN [scan EXCEPT !.index = t]
                          ELSE [index    |-> t + 1,
                                reserved |-> scan.reserved \cup Keys[t],
                                target   |-> scan.target + Target[t]]
    /\ admission' = [admission EXCEPT ![t] =
                         [index  |-> Cardinality(active) + 1
                                       + Cardinality({u \in Trials : records[u].status # "none"}),
                          offset |-> now]]
    /\ pending' = pending \ {t} /\ active' = active \cup {t}
    /\ UNCHANGED records

NextPending == {t \in pending : t >= scan.index}

\* One turn of the loop of admit_ready.
Scan ==
    /\ at = "admit"
    /\ \/ /\ NextPending = {} \/ cancel.requested
          /\ at' = "cancel"
          /\ UNCHANGED <<task, pending, active, admission, records, scan, stop, term, cancel>>
       \/ /\ NextPending # {} /\ ~cancel.requested
          /\ CheckLimits
          /\ LET t == Min(NextPending)
             IN  \/ /\ stop'.reason # "none" \/ Full
                    /\ at' = "cancel"
                    /\ UNCHANGED <<task, pending, active, admission, records, scan, cancel>>
                 \/ /\ stop'.reason = "none" /\ ~Full /\ Blocked(t)
                    /\ scan' = [scan EXCEPT !.index = t + 1]
                    /\ UNCHANGED <<at, task, pending, active, admission, records, cancel>>
                 \/ /\ stop'.reason = "none" /\ ~Full /\ ~Blocked(t)
                    /\ Admit(t)
    /\ UNCHANGED <<stopOnError, now, sent, timer, result>>

KeepSums(trials) ==     \* mutant: an immediate outcome keeps its reservation
    [index    |-> scan.index + 1,
     reserved |-> scan.reserved \cup Keys[scan.index],
     target   |-> scan.target + Target[scan.index]]

\* The local sums are taken again after an immediate outcome.
Retaken(trials) ==
    [index |-> scan.index + 1, reserved |-> ReservedBy(trials), target |-> RateOf(trials)]

ConsumeInstant ==
    /\ at = "instant" /\ at' = "admit"
    /\ Consume(scan.index)
    /\ scan' = Retaken(active \ {scan.index})
    /\ UNCHANGED <<stopOnError, now, task, sent, pending, admission, timer, cancel, result>>

\* cancel_active: children that are not done and were not cancelled before.
ToCancel == {t \in active : task[t] \in Live /\ sent[t] = 0}

CancelActive ==
    /\ task' = [t \in Trials |-> IF t \notin ToCancel THEN task[t]
                                 ELSE IF task[t] \in {"created", "doomed"} THEN "doomed"
                                 ELSE "stopping"]
    /\ sent' = [t \in Trials |-> IF t \in ToCancel THEN sent[t] + 1 ELSE sent[t]]

TimerNever  == NoTime     \* mutant

\* wait_timeout(): no timer once a hard stop is draining.
WaitTimer ==
    LET limit == IF stop.reason = "none" THEN Limit ELSE NoTime
        both  == {Timeout, limit} \ {NoTime}
    IN  IF term.reason # "none" \/ both = {} THEN NoTime ELSE Min(both)

\* Cancel after a hard stop, then wait, go round again, or leave the loop.
Settle ==
    /\ at = "cancel"
    /\ IF term.reason # "none" THEN CancelActive ELSE UNCHANGED <<task, sent>>
    /\ at' = IF active # {} THEN "wait"
             ELSE IF stop.reason = "none" /\ pending # {} THEN "sleep" ELSE "finish"
    /\ timer' = WaitTimer
    /\ UNCHANGED <<stopOnError, now, pending, active, admission, records, scan, stop, term,
                   cancel, result>>

\* asyncio.wait returns for a finished child or its timer ...
WaitReturns ==
    /\ at = "wait" /\ ~cancel.due
    /\ DoneTasks # {} \/ (timer # NoTime /\ now >= timer)
    /\ at' = "sleep"
    /\ UNCHANGED <<stopOnError, now, task, sent, parent, stop, term, cancel, result>>

\* ... or delivers a cancellation.
WaitCancelled ==
    /\ at = "wait" /\ cancel.due /\ at' = "sleep"
    /\ Terminate("cancelled")
    /\ CancelActive
    /\ cancel' = [cancel EXCEPT !.due = FALSE]
    /\ UNCHANGED <<stopOnError, now, parent, result>>

Unconfirmed == {t \in Trials : records[t].status = "cleanup_failed"}

\* Which exception run() raises, if any.
Outward ==
    IF Unconfirmed # {} THEN "cleanup"
    ELSE IF term.reason \in {"cancelled", "timeout"} THEN term.reason ELSE "returned"

\* The trials still pending are recorded as not run.
Finish ==
    /\ at = "finish" /\ at' = "ended"
    /\ records' = [t \in Trials |-> IF t \in pending
                                    THEN [NoRecord EXCEPT !.status = "not_run",
                                                          !.reason = stop.reason]
                                    ELSE records[t]]
    /\ result' = [kind |-> Outward, elapsed |-> now]
    /\ UNCHANGED <<stopOnError, now, task, sent, pending, active, admission, scan, timer,
                   stop, term, cancel>>

-----------------------------------------------------------------------------
(* Children, the parent's owner and the clock                              *)

AtAwait == at \in {"sleep", "wait"}

Becomes(t, state) ==
    /\ task' = [task EXCEPT ![t] = state]
    /\ UNCHANGED <<stopOnError, now, at, sent, parent, stop, term, cancel, result>>

\* The first step of execute(): the fence before a worker can be acquired.
ChildStarts(t) ==
    /\ AtAwait /\ task[t] = "created"
    /\ Becomes(t, IF term.reason # "none" \/ cancel.requested THEN "cancelled"
                  ELSE IF DeadlinePassed THEN "timeout" ELSE "running")

ChildEnds(t) ==
    /\ AtAwait /\ task[t] = "running"
    /\ \E outcome \in Outcomes \ {"cancelled", "cleanupCancelled"} : Becomes(t, outcome)

\* Somebody else cancels the child, as asyncio.run does when it shuts down.
ChildInterrupted(t) ==
    /\ AtAwait /\ task[t] \in {"created", "running"}
    /\ Becomes(t, IF task[t] = "created" THEN "doomed" ELSE "stopping")

\* A cancelled child that never ran just ends; one that ran cleans up first,
\* and a cleanup error keeps the cause that won inside.
ChildStops(t) ==
    /\ AtAwait
    /\ \/ task[t] \in {"doomed", "stopping"} /\ Becomes(t, "cancelled")
       \/ task[t] = "stopping" /\ \E outcome \in Cleanups : Becomes(t, outcome)

\* The parent task is cancelled, perhaps repeatedly.
RequestCancel ==
    /\ AtAwait
    /\ cancel' = [requested |-> TRUE, due |-> TRUE]
    /\ UNCHANGED <<stopOnError, now, at, task, sent, parent, stop, term, result>>

Tick ==
    /\ now < MaxTime /\ at # "ended"
    /\ now' = now + 1
    /\ UNCHANGED <<stopOnError, at, task, sent, parent, stop, term, cancel, result>>

-----------------------------------------------------------------------------
Run ==
    \/ Resume \/ Check \/ ConsumeDone \/ StartScan \/ Scan \/ ConsumeInstant
    \/ Settle \/ WaitReturns \/ WaitCancelled \/ Finish

Next ==
    \/ Run \/ RequestCancel \/ Tick
    \/ \E t \in Trials :
           ChildStarts(t) \/ ChildEnds(t) \/ ChildInterrupted(t) \/ ChildStops(t)

\* The event loop runs every ready task whenever the parent yields to it, time
\* passes, and a cancelled child ends (AsyncOperation!CancelledTaskEnds; the
\* plan's own callback returns).  Strong fairness: a parent that is cancelled
\* again and again yields again and again, for one turn of the loop each time.
\* Nothing makes a native run end by itself.
Fairness ==
    /\ WF_vars(Run) /\ WF_vars(Tick)
    /\ SF_vars(\E t \in Trials : ChildStarts(t) \/ ChildStops(t))

Spec == Init /\ [][Next]_vars /\ Fairness

-----------------------------------------------------------------------------
(* concurrent_reports._validate_history, on the result of run()            *)

Started == {t \in Trials : records[t].status # "not_run"}
Failures == {t \in Started : records[t].status # "completed"}

ValidStops ==
    /\ \A decision \in {stop, term} :
           /\ decision.reason = "none" <=> decision.offset = NoTime
           /\ decision.offset <= result.elapsed
    /\ term.reason # "none" => stop.reason # "none" /\ term.offset >= stop.offset
    /\ stop.reason \in Hard => term = stop
    /\ "timeout" \in {stop.reason, term.reason} => Timeout # NoTime
    /\ stop.reason = "elapsed_admission_limit" => Limit # NoTime /\ stop.offset >= Limit
    /\ stop.reason = "stop_on_error" =>
           stopOnError /\ \E t \in Failures : records[t].finished <= stop.offset
    /\ stopOnError /\ Failures # {} =>
           /\ stop.reason # "none"
           /\ \A t \in Started, u \in Failures : admission[t].offset <= records[u].finished
    /\ "cleanup_failed" \in {stop.reason, term.reason} => Unconfirmed # {}

ValidInterruption(t) ==
    /\ term.reason # "none" /\ records[t].reason = term.reason
    /\ records[t].status = "timed_out" => term.reason = "timeout"
    /\ records[t].status = "cancelled" => term.reason # "timeout"
    /\ records[t].finished >= term.offset

ValidOutcome(t) ==
    IF t \notin Started
    THEN /\ stop.reason # "none" /\ records[t].reason = stop.reason
         /\ admission[t].index = 0
    ELSE /\ 0 <= admission[t].offset /\ admission[t].offset <= records[t].finished
         /\ records[t].finished <= result.elapsed
         /\ records[t].released = IF t \in Unconfirmed THEN NoTime ELSE records[t].finished
         /\ stop.reason # "none" => admission[t].offset <= stop.offset
         /\ IF records[t].status \in Interrupted
            THEN ValidInterruption(t) ELSE records[t].reason = "none"

\* The reservations that are open at an instant; half-open intervals, and an
\* unreleased one never ends.
OpenAt(time) ==
    {t \in Started : /\ admission[t].offset <= time
                     /\ records[t].released = NoTime \/ time < records[t].released}

WithinLimits(trials) ==
    /\ \A t, u \in trials : t # u => Keys[t] \cap Keys[u] = {}
    /\ Cardinality(trials) <= MaxWorkers
    /\ RateOf(trials) <= MaxRate

ValidReservations ==
    /\ {admission[t].index : t \in Started} = 1..Cardinality(Started)
    /\ \A t, u \in Started : admission[t].index < admission[u].index =>
                                 admission[t].offset <= admission[u].offset
    /\ \A t \in Started, u \in Trials :
           u < t /\ Cell[u] = Cell[t] =>
               /\ u \in Started /\ admission[u].index < admission[t].index
               /\ records[u].released # NoTime
               /\ records[u].released <= admission[t].offset
    /\ \A time \in 0..MaxTime : WithinLimits(OpenAt(time))

ValidateHistory == ValidStops /\ (\A t \in Trials : ValidOutcome(t)) /\ ValidReservations

-----------------------------------------------------------------------------
(* Correctness.                                                            *)

\* Whatever the children do and however stops, deadlines and cancellations
\* interleave with admission, the history run() builds passes the strict
\* validation of the report codec: an interrupted plan can always hand out
\* its partial result.
HistoryAccepted == at = "ended" => ValidateHistory

\* Workers that may exist: a child is at work, or its cleanup is unconfirmed.
Occupying == {t \in Trials : task[t] \in Live \cup Cleanups}

\* At every instant the workers that may exist respect the worker, rate and
\* resource limits and follow their predecessors of the same cell, although
\* admission works on sums taken earlier.
ReservationsHold ==
    /\ WithinLimits(Occupying)
    /\ \A t \in Trials : task[t] # "none" =>
           \A u \in 1..(t - 1) : Cell[u] = Cell[t] =>
               records[u].status \notin {"none", "not_run", "cleanup_failed"}

\* run() never abandons a child: it ends with every admitted child finished
\* and recorded exactly once, each was asked to stop at most once, and an
\* unconfirmed cleanup outranks every other way to end.
ChildrenOwned ==
    /\ \A t \in Trials : sent[t] <= 1
    /\ at = "ended" =>
           /\ active = {} /\ DOMAIN records = Trials
           /\ \A t \in Trials : IF task[t] = "none" THEN records[t].status = "not_run"
                                ELSE task[t] \in Outcomes /\ records[t].status # "not_run"
           /\ result.kind = "cleanup" <=> \E t \in Trials : task[t] \in Cleanups
           /\ result.kind = "returned" => term.reason = "none"

\* Children stay within the limits of the policy while they may exist, and
\* every one of them is accounted for at the end.
ChildrenWithinLimits == ReservationsHold /\ ChildrenOwned

\* The parent goes to sleep only for a reason.  With admission open no pending
\* trial could have been admitted: neither an immediate outcome nor a skipped
\* trial leaves a slot, a key or rate unused.  And a timer that has expired
\* leads to a new decision, never to another wait that it ends at once.
WaitIsJustified ==
    at = "wait" =>
        /\ stop.reason = "none" /\ ~cancel.requested =>
               \A t \in pending :
                   \/ Full \/ Waits(t)
                   \/ ReservedBy(active) \cap Keys[t] # {}
                   \/ RateOf(active) + Target[t] > MaxRate
        /\ timer # NoTime /\ now >= timer =>
               \/ DeadlinePassed /\ term.reason = "none"
               \/ LimitPassed /\ stop.reason = "none"

\* Every outcome that is already there is consumed before another trial is
\* admitted, so that admission cannot run ahead of a failure, an unconfirmed
\* cleanup or a freed slot that the parent could have seen.
OutcomesBeforeAdmission ==
    [][pending' # pending => \A t \in active : task[t] \in Live]_vars

\* A plan with a deadline ends although no native run ever has to.
DeadlineEndsPlan == Timeout # NoTime => <>(at = "ended")

\* A plan goes on only with what it has already consumed, and its deadline
\* ends it.
PlanAdvances == OutcomesBeforeAdmission /\ DeadlineEndsPlan
=============================================================================
