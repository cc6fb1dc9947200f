--------------------------- MODULE SequentialPlan ---------------------------
(***************************************************************************)
(* async_trials._Run: one asyncio task runs the trials of a plan one after *)
(* the other, pauses between them, owns at most one child task, and drains *)
(* it when a cancellation or the deadline interrupts; _Events, the bounded *)
(* prefix of events it keeps of each trial; and the validation of          *)
(* plan_reports that every exception and every returned result must pass.  *)
(*                                                                         *)
(* As in ConcurrentPlan a child steps only while the parent is at an await *)
(* (or eagerly, when it is created); its callbacks come from another       *)
(* thread at any time while it runs.  The clock may advance between any    *)
(* two steps.                                                              *)
(***************************************************************************)
EXTENDS Integers, Sequences, FiniteSetsExt, Sums

CONSTANTS
    N,                  \* number of trials
    Timeouts, Limits,   \* deadlines and elapsed limits to consider; NoTime: none
    Pause,              \* TrialPolicy.pause_seconds
    Retained,           \* events kept of one trial: 64 in the code
    Callbacks,          \* bound: callbacks delivered by one trial
    MaxTime             \* bound on the clock

NoTime == -1
Trials == 1..N

\* What prepare_plan and arun_plan accept.
PlanAccepted ==
    /\ N \in Nat \ {0} /\ Pause \in Nat /\ MaxTime \in Nat
    /\ Timeouts \subseteq (Nat \ {0}) \cup {NoTime}
    /\ Limits \subseteq Nat \cup {NoTime}
    /\ Retained \in Nat /\ Callbacks \in Nat

ASSUME SequentialAssumption == PlanAccepted

VARIABLES
    settings,   \* stop_on_error, timeout and stop_after_elapsed_seconds
    now,        \* the monotonic clock, from the start of the plan
    at,         \* where run() is
    index,      \* the trial it is at
    stop,       \* stop_reason
    task, sent, \* child of each trial, and how often drain() cancelled it
    since, wake,\* start of the current pause or trial, and the timer awaited
    paused,     \* pause_elapsed
    events,     \* _Events of the current trial
    records,
    cancel,     \* cancellation of the parent: ever requested, and due
    result      \* how run() ended, and its elapsed time

vars == <<settings, now, at, index, stop, task, sent, since, wake, paused, events,
          records, cancel, result>>

Native      == {"completed", "failed", "incomplete"}
Cleanups    == {"cleanup", "cleanupCancelled", "cleanupTimeout"}
Outcomes    == Native \cup Cleanups \cup {"exception", "cancelled", "timeout"}
Live        == {"created", "running", "doomed", "stopping"}
Interrupted == {"cancelled", "timed_out", "cleanup_failed"}
Statuses    == Native \cup Interrupted \cup {"exception", "not_run"}
Reasons     == {"timeout", "cancelled", "cleanup_failed", "elapsed_admission_limit",
                "stop_on_error"}
Awaits      == {"yield", "pause", "wait", "drain"}

NoEvents == [observed |-> 0, kept |-> <<>>, closed |-> FALSE]
NoRecord == [status |-> "none", reason |-> "none", elapsed |-> NoTime,
             observed |-> 0, kept |-> <<>>]

TypeOK ==
    /\ now \in 0..MaxTime /\ index \in 1..(N + 1)
    /\ at \in Awaits \cup {"next", "rest", "trial", "arm", "classify", "ended"}
    /\ stop \in Reasons \cup {"none"}
    /\ task \in [Trials -> {"none"} \cup Live \cup Outcomes]
    /\ sent \in [Trials -> Nat]
    /\ since \in 0..MaxTime /\ paused \in 0..MaxTime
    /\ \A t \in Trials : records[t].status \in Statuses \cup {"none"}

Init ==
    /\ settings \in [stopOnError : BOOLEAN, timeout : Timeouts, limit : Limits]
    /\ now = 0 /\ at = "next" /\ index = 1 /\ stop = "none"
    /\ task = [t \in Trials |-> "none"] /\ sent = [t \in Trials |-> 0]
    /\ since = 0 /\ wake = NoTime /\ paused = 0
    /\ events = NoEvents
    /\ records = [t \in Trials |-> NoRecord]
    /\ cancel = [requested |-> FALSE, due |-> FALSE]
    /\ result = [kind |-> "none", elapsed |-> NoTime]

-----------------------------------------------------------------------------
First(decided, reason) == IF decided = "none" THEN reason ELSE decided

DeadlinePassed == settings.timeout # NoTime /\ now >= settings.timeout
LimitPassed    == settings.limit # NoTime /\ now >= settings.limit

\* check_limits(): the deadline comes first.
CheckLimits ==
    stop' = IF DeadlinePassed THEN First(stop, "timeout")
            ELSE IF LimitPassed THEN First(stop, "elapsed_admission_limit") ELSE stop

Delivered == cancel' = [cancel EXCEPT !.due = FALSE]

-----------------------------------------------------------------------------
(* run(): the loop over the declared trials                                *)

NextTrial ==
    /\ at = "next" /\ index <= N /\ stop = "none" /\ at' = "yield"
    /\ UNCHANGED <<settings, now, index, stop, task, sent, since, wake, paused, events,
                   records, cancel, result>>

\* Once a stop is decided the other trials are recorded without any await.
NotRun ==
    /\ at = "next" /\ index <= N /\ stop # "none"
    /\ records' = [records EXCEPT ![index] = [NoRecord EXCEPT !.status = "not_run",
                                                              !.reason = stop]]
    /\ index' = index + 1
    /\ UNCHANGED <<settings, now, at, stop, task, sent, since, wake, paused, events,
                   cancel, result>>

Unconfirmed == {t \in Trials : records[t].status = "cleanup_failed"}

\* PlanCleanupError, PlanCancelledError, PlanTimeoutError, or a result.
Outward ==
    IF Unconfirmed # {} THEN "cleanup"
    ELSE IF stop \in {"cancelled", "timeout"} THEN stop ELSE "returned"

Finish ==
    /\ at = "next" /\ index > N /\ at' = "ended"
    /\ result' = [kind |-> Outward, elapsed |-> now]
    /\ UNCHANGED <<settings, now, index, stop, task, sent, since, wake, paused, events,
                   records, cancel>>

-----------------------------------------------------------------------------
(* before_trial()                                                          *)

\* sleep(0) delivers a cancellation queued by the caller, or the limits are
\* checked; the first trial and a plan without pauses go on at once.
Resume ==
    /\ at = "yield"
    /\ IF cancel.due
       THEN stop' = First(stop, "cancelled") /\ at' = "next"
       ELSE /\ CheckLimits
            /\ at' = IF stop' # "none" THEN "next"
                     ELSE IF index = 1 \/ Pause = 0 THEN "trial" ELSE "rest"
    /\ Delivered
    /\ UNCHANGED <<settings, now, index, task, sent, since, wake, paused, events,
                   records, result>>

\* The pause is cut at the deadline and at the elapsed limit, either of which
\* may have passed since the check.
Rest ==
    /\ at = "rest" /\ at' = "pause"
    /\ since' = now
    /\ wake' = Min({now + Pause}
                   \cup {Max({time, now}) : time \in {settings.timeout, settings.limit} \ {NoTime}})
    /\ UNCHANGED <<settings, now, index, stop, task, sent, paused, events, records,
                   cancel, result>>

\* finally: the time slept, however the sleep ended.
PauseCounted == paused + (now - since)

PauseEnds ==
    /\ at = "pause" /\ ~cancel.due /\ now >= wake
    /\ paused' = PauseCounted
    /\ CheckLimits
    /\ at' = IF stop' # "none" THEN "next" ELSE "trial"
    /\ UNCHANGED <<settings, now, index, task, sent, since, wake, events, records,
                   cancel, result>>

PauseCancelled ==
    /\ at = "pause" /\ cancel.due /\ at' = "next"
    /\ paused' = PauseCounted
    /\ stop' = First(stop, "cancelled")
    /\ Delivered
    /\ UNCHANGED <<settings, now, index, task, sent, since, wake, events, records, result>>

-----------------------------------------------------------------------------
(* trial() and drain()                                                     *)

\* A rejected submission fails at once; an eager factory may run the child to
\* its first await or to its end.
FirstStates == {"created", "running", "timeout", "exception", "cleanup"} \cup Native

StartTrial ==
    /\ at = "trial" /\ at' = "arm"
    /\ since' = now
    /\ events' = NoEvents
    /\ \E first \in FirstStates : task' = [task EXCEPT ![index] = first]
    /\ UNCHANGED <<settings, now, index, stop, sent, wake, paused, records, cancel, result>>

ArmWithoutTimer ==     \* mutant: the wait for the child is not bounded
    /\ at = "arm" /\ at' = "wait"
    /\ wake' = NoTime
    /\ UNCHANGED <<settings, now, index, stop, task, sent, since, paused, events, records,
                   cancel, result>>

\* asyncio.wait((child,), timeout=self.remaining())
Arm ==
    /\ at = "arm" /\ at' = "wait"
    /\ wake' = IF settings.timeout = NoTime THEN NoTime ELSE Max({settings.timeout, now})
    /\ UNCHANGED <<settings, now, index, stop, task, sent, since, paused, events, records,
                   cancel, result>>

Done == task[index] \in Outcomes

\* drain() asks a child to stop once, when it is entered.
FirstRequest == ~Done /\ at # "drain"

CancelChild ==
    IF FirstRequest
    THEN /\ task' = [task EXCEPT ![index] = IF @ \in {"created", "doomed"} THEN "doomed"
                                            ELSE "stopping"]
         /\ sent' = [sent EXCEPT ![index] = @ + 1]
    ELSE UNCHANGED <<task, sent>>

DrainOrClassify == at' = IF Done THEN "classify" ELSE "drain"

\* The wait returns with a finished child or at the deadline; a child that
\* finished late stops the plan too, and keeps its own outcome.
WaitReturns ==
    /\ at = "wait" /\ ~cancel.due
    /\ Done \/ (wake # NoTime /\ now >= wake)
    /\ stop' = IF ~Done \/ DeadlinePassed THEN First(stop, "timeout") ELSE stop
    /\ CancelChild /\ DrainOrClassify
    /\ UNCHANGED <<settings, now, index, since, wake, paused, events, records, cancel, result>>

\* A cancellation interrupts the wait, or is absorbed by the drain.
WaitCancelled ==
    /\ at \in {"wait", "drain"} /\ cancel.due
    /\ stop' = First(stop, "cancelled")
    /\ CancelChild /\ DrainOrClassify
    /\ Delivered
    /\ UNCHANGED <<settings, now, index, since, wake, paused, events, records, result>>

DrainReturns ==
    /\ at = "drain" /\ ~cancel.due /\ Done /\ at' = "classify"
    /\ UNCHANGED <<settings, now, index, stop, task, sent, since, wake, paused, events,
                   records, cancel, result>>

\* The stop decision an outcome calls for.
Calls(outcome) ==
    IF outcome \in {"cancelled", "cleanupCancelled"} THEN "cancelled"
    ELSE IF outcome \in {"timeout", "cleanupTimeout"} /\ settings.timeout # NoTime THEN "timeout"
    ELSE IF outcome \in {"cleanup", "cleanupTimeout"} THEN "cleanup_failed"
    ELSE "none"

OwnStatus(outcome, reason) ==     \* mutant: the outcome alone decides
    IF outcome \in Native THEN outcome
    ELSE IF outcome \in Cleanups THEN "cleanup_failed"
    ELSE IF Calls(outcome) = "none" THEN "exception"
    ELSE IF outcome = "timeout" THEN "timed_out" ELSE "cancelled"

\* The status follows the stop that won, not the exception the child raised.
StatusOf(outcome, reason) ==
    IF outcome \in Native THEN outcome
    ELSE IF outcome \in Cleanups THEN "cleanup_failed"
    ELSE IF Calls(outcome) = "none" THEN "exception"
    ELSE IF \/ outcome = "cancelled" /\ reason = "timeout"
            \/ outcome = "timeout" /\ reason # "cancelled" THEN "timed_out"
    ELSE "cancelled"

Classify ==
    LET calls   == Calls(task[index])
        reason  == IF calls = "none" THEN stop ELSE First(stop, calls)
        status  == StatusOf(task[index], reason)
        partial == status \notin Native
    IN  /\ at = "classify" /\ at' = "next" /\ index' = index + 1
        /\ records' = [records EXCEPT ![index] =
               [status   |-> status,
                reason   |-> IF status \in Interrupted THEN reason ELSE "none",
                elapsed  |-> now - since,
                observed |-> IF partial THEN events.observed ELSE 0,
                kept     |-> IF partial THEN events.kept ELSE <<>>]]
        /\ stop' = IF status # "completed" /\ settings.stopOnError
                   THEN First(reason, "stop_on_error") ELSE reason
        /\ UNCHANGED <<settings, now, task, sent, since, wake, paused, events, cancel, result>>

-----------------------------------------------------------------------------
(* The child, its callbacks, the parent's owner and the clock              *)

Current == index <= N /\ at \in {"arm", "wait", "drain"}

Becomes(state) ==
    /\ task' = [task EXCEPT ![index] = state]
    /\ UNCHANGED <<settings, now, at, index, stop, sent, since, wake, paused, events,
                   records, cancel, result>>

\* The first step of execute(): a queued cancellation or the deadline comes
\* before a worker is acquired.
ChildStarts ==
    /\ at = "wait" /\ task[index] = "created"
    /\ Becomes(IF cancel.due THEN "cancelled"
               ELSE IF DeadlinePassed THEN "timeout" ELSE "running")

ChildEnds ==
    /\ at = "wait" /\ task[index] = "running"
    /\ \E outcome \in Outcomes \ {"cancelled", "cleanupCancelled"} : Becomes(outcome)

\* Somebody else cancels the child, as asyncio.run does when it shuts down.
ChildInterrupted ==
    /\ at = "wait" /\ task[index] \in {"created", "running"}
    /\ Becomes(IF task[index] = "created" THEN "doomed" ELSE "stopping")

\* A cancelled child ends cancelled, or with a cleanup error that keeps the
\* cause that won inside.
ChildStops ==
    /\ at \in {"wait", "drain"}
    /\ \/ task[index] \in {"doomed", "stopping"} /\ Becomes("cancelled")
       \/ task[index] = "stopping" /\ \E outcome \in Cleanups : Becomes(outcome)

\* _Events: the first event that does not fit, or one beyond the limit, closes
\* the prefix.
Keep(sequence, fits) ==
    LET closed == events.closed \/ Len(events.kept) >= Retained \/ ~fits
    IN  events' = [observed |-> sequence, closed |-> closed,
                   kept |-> IF closed THEN events.kept ELSE Append(events.kept, sequence)]

\* A callback of the running child; the event may exceed the byte limits.
Callback ==
    /\ Current /\ task[index] \in {"running", "stopping"}
    /\ events.observed < Callbacks
    /\ \E fits \in BOOLEAN : Keep(events.observed + 1, fits)
    /\ UNCHANGED <<settings, now, at, index, stop, task, sent, since, wake, paused,
                   records, cancel, result>>

\* The parent is cancelled, perhaps repeatedly.
RequestCancel ==
    /\ at \in Awaits
    /\ cancel' = [requested |-> TRUE, due |-> TRUE]
    /\ UNCHANGED <<settings, now, at, index, stop, task, sent, since, wake, paused, events,
                   records, result>>

Tick ==
    /\ now < MaxTime /\ at # "ended"
    /\ now' = now + 1
    /\ UNCHANGED <<settings, at, index, stop, task, sent, since, wake, paused, events,
                   records, cancel, result>>

-----------------------------------------------------------------------------
Run ==
    \/ NextTrial \/ NotRun \/ Finish \/ Resume \/ Rest \/ PauseEnds \/ PauseCancelled
    \/ StartTrial \/ Arm \/ WaitReturns \/ WaitCancelled \/ DrainReturns \/ Classify

Next ==
    \/ Run \/ ChildStarts \/ ChildEnds \/ ChildInterrupted \/ ChildStops
    \/ Callback \/ RequestCancel \/ Tick

\* As in ConcurrentPlan: ready tasks run, time passes, a cancelled child ends,
\* and nothing makes a native run end by itself.
Fairness == WF_vars(Run) /\ WF_vars(Tick) /\ SF_vars(ChildStarts \/ ChildStops)

Spec == Init /\ [][Next]_vars /\ Fairness

-----------------------------------------------------------------------------
(* plan_reports._validate_history, on the result of run()                  *)

\* Only an exception or an interruption keeps events: a prefix in order,
\* within the limit, whose length and drops add up to what was observed.
ValidEvents(record) ==
    LET size == Len(record.kept)
    IN  IF record.status \in Native \cup {"not_run"}
        THEN record.observed = 0 /\ size = 0
        ELSE /\ size <= Retained /\ size <= record.observed
             /\ \A i, j \in 1..size : i < j => record.kept[i] < record.kept[j]

Executed == {t \in Trials : records[t].status # "not_run"}

ValidRecord(t) ==
    LET record == records[t]
    IN  IF t \notin Executed
        THEN record.reason # "none" /\ record.reason = stop
        ELSE /\ \A u \in 1..(t - 1) :
                    /\ u \in Executed /\ records[u].status \notin Interrupted
                    /\ settings.stopOnError => records[u].status = "completed"
             /\ record.elapsed >= 0
             /\ record.status \in Interrupted =>
                    /\ record.reason = stop
                    /\ stop \in CASE record.status = "cancelled" -> {"cancelled"}
                                  [] record.status = "timed_out" -> {"timeout"}
                                  [] OTHER -> {"cleanup_failed", "cancelled", "timeout"}

Measured(t) == IF records[t].elapsed = NoTime THEN 0 ELSE records[t].elapsed

ValidateHistory ==
    /\ \A t \in Trials : ValidEvents(records[t]) /\ ValidRecord(t)
    /\ SumOf([t \in Trials |-> Measured(t)]) + paused <= result.elapsed
    /\ stop = "elapsed_admission_limit" => settings.limit # NoTime
    /\ stop = "timeout" => settings.timeout # NoTime
    /\ stop = "stop_on_error" =>
           settings.stopOnError /\ \E t \in Executed : records[t].status # "completed"
    /\ stop = "cleanup_failed" => Unconfirmed # {}

-----------------------------------------------------------------------------
(* Correctness.                                                            *)

\* Whatever the trials do and however pauses, deadline, limit and repeated
\* cancellation interleave, the history passes the validation that every
\* exception and every returned result of arun_plan runs: an interrupted plan
\* never fails to hand out what it measured.  The events kept of a trial are a
\* gap-free prefix of its callbacks.
HistoryAccepted ==
    at = "ended" =>
        /\ ValidateHistory
        /\ \A t \in Trials : \A i \in 1..Len(records[t].kept) : records[t].kept[i] = i

\* One child at a time, owned to its end: before another trial starts or the
\* plan ends the last child is finished and recorded, it was asked to stop at
\* most once, and what interrupted the plan is what the caller sees.
ChildOwned ==
    /\ \A t \in Trials : sent[t] <= 1
    /\ \A t \in Trials : task[t] \in Live => t = index /\ at \in {"arm", "wait", "drain"}
    /\ at = "ended" =>
           /\ \A t \in Trials : (task[t] = "none") <=> (records[t].status = "not_run")
           /\ (result.kind = "cleanup") <=> \E t \in Trials : task[t] \in Cleanups
           /\ cancel.requested => result.kind # "returned"

\* The history of a plan is one that its readers accept, and every child in it
\* was owned to its end.
TrialsOwned == HistoryAccepted /\ ChildOwned

\* A plan with a deadline ends although no native run ever has to, and however
\* often it is cancelled.
DeadlineEndsPlan == settings.timeout # NoTime ~> at = "ended"
=============================================================================
