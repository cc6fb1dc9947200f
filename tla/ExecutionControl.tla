-------------------------- MODULE ExecutionControl --------------------------
(***************************************************************************)
(* One isolated operation: _cancellation._ExecutionControl driven by       *)
(* _execution.run_worker, and the `finally` of Server._run_once that gives *)
(* the admission lock back.                                                *)
(*                                                                         *)
(* Two threads run the cleanup code.  "caller" is the thread that invoked  *)
(* run_worker (a pool thread when the control was handed in by             *)
(* _run_async), "owner" is the thread that register() starts, or the       *)
(* background reaper that a caller without an owner starts.  The reader    *)
(* thread, the watchdog timer, the operating system and the task that asks *)
(* for cancellation are actions of their own.  A step is one critical      *)
(* section, one event operation or one operating-system call.              *)
(*                                                                         *)
(* Every call on the process handle may raise: poll, terminate, kill and   *)
(* wait all do so nondeterministically, and a signalled child may refuse   *)
(* to die.                                                                 *)
(***************************************************************************)
EXTENDS Naturals

CONSTANT
    Interruptible   \* may KeyboardInterrupt break the wait inside close()?

ASSUME InterruptibleAssumption == Interruptible \in BOOLEAN

VARIABLES
    \* fields of _ExecutionControl
    cause, completed, started, process, stop, attempted, reaped,
    cleanupError, callbacks, retained,
    \* the operating system's view of the child
    child,
    \* run_worker: the clock, the watchdog timer, the reader thread
    overdue, watchdog, reader,
    \* threads
    pc, taken, outcome, given,
    \* how often Server._run_lock.release ran for this operation
    released

control == <<cause, completed, started, process, stop, attempted, reaped,
             cleanupError, callbacks, retained>>
session == <<overdue, watchdog, reader>>
result  == <<outcome, given, released>>
vars    == <<control, child, session, pc, taken, result>>

Threads == {"caller", "owner"}
Causes  == {"cancel", "timeout", "transport", "observe", "error"}

CleanupPCs == {"poll", "terminate", "grace", "kill", "killwait", "recheck",
               "fail", "report", "handoff", "mark", "callbacks", "attempted"}
CallerPCs  == {"queued", "start", "spawn", "register", "arm", "loop",
               "callback", "exitwait", "verdict", "commit", "raise", "close", "await",
               "settle", "release", "enroll", "done"} \cup CleanupPCs
OwnerPCs   == {"off", "watch", "reap", "end"} \cup CleanupPCs

TypeOK ==
    /\ cause \in Causes \cup {"none"}
    /\ completed \in BOOLEAN /\ started \in BOOLEAN /\ process \in BOOLEAN
    /\ stop \in BOOLEAN /\ attempted \in BOOLEAN /\ reaped \in BOOLEAN
    /\ cleanupError \in BOOLEAN /\ retained \in BOOLEAN
    /\ callbacks \in Nat /\ taken \in Nat /\ released \in Nat
    /\ child \in {"none", "alive", "exited", "collected"}
    /\ overdue \in BOOLEAN
    /\ watchdog \in {"off", "armed", "firing", "over"}
    /\ reader \in {"off", "reading", "draining", "eof", "failed"}
    /\ pc \in [Threads -> CallerPCs \cup OwnerPCs]
    /\ pc["caller"] \in CallerPCs /\ pc["owner"] \in OwnerPCs
    /\ outcome \in Causes \cup {"none", "success", "stopped", "cleanup", "interrupt"}
    /\ given \in BOOLEAN

\* A synchronous call makes its own control inside run_worker; _run_async and
\* EventStream hand one in, and the invocation first waits in the executor.
Init ==
    /\ cause = "none" /\ completed = FALSE /\ started = FALSE
    /\ process = FALSE /\ stop = FALSE /\ attempted = FALSE /\ reaped = FALSE
    /\ cleanupError = FALSE /\ callbacks = 0 /\ retained = FALSE
    /\ child = "none"
    /\ overdue = FALSE /\ watchdog = "off" /\ reader = "off"
    /\ given \in BOOLEAN
    /\ pc = [t \in Threads |-> IF t = "owner" THEN "off"
                               ELSE IF given THEN "queued" ELSE "start"]
    /\ taken = 0 /\ outcome = "none" /\ released = 0

At(t, label)         == pc[t] = label
Goto(t, label)       == pc' = [pc EXCEPT ![t] = label]
Step(t, here, there) == At(t, here) /\ Goto(t, there)

-----------------------------------------------------------------------------
(* The lock-protected methods.                                             *)

AbortReplacing(c) ==    \* mutant: the last failure wins
    IF ~completed
    THEN cause' = c /\ stop' = TRUE
    ELSE UNCHANGED <<cause, stop>>

AbortWithoutWaking(c) ==    \* mutant: the owner is not woken
    IF ~completed /\ cause = "none"
    THEN cause' = c /\ UNCHANGED stop
    ELSE UNCHANGED <<cause, stop>>

\* abort: the first terminal failure wins unless the operation completed.
Abort(c) ==
    IF ~completed /\ cause = "none"
    THEN cause' = c /\ stop' = TRUE
    ELSE UNCHANGED <<cause, stop>>

ConfirmedByAttempt == ~process \/ attempted     \* mutant

\* cleanup_confirmed
Confirmed == ~process \/ reaped

AlwaysMayComplete == TRUE     \* mutant

\* complete(): the test under the lock.
MayComplete == cause = "none"

CloseNeverRaises == FALSE     \* mutant

\* close(): whether the waiting caller gets the cleanup error.
CloseRaises == cleanupError

OwnsProcess == process        \* mutant

\* when_reaped(): the test under the lock.
AwaitsReap == process /\ ~reaped

\* wait_for_exit(): whether the owner has observed the exit.
ExitSeen == reaped

-----------------------------------------------------------------------------
(* The invoking thread.                                                    *)

\* _run_async.invoke: begin() admits the executor invocation or refuses it.
Begin ==
    /\ At("caller", "queued")
    /\ IF cause = "none"
       THEN started' = TRUE /\ Goto("caller", "start") /\ UNCHANGED outcome
       ELSE outcome' = cause /\ Goto("caller", "done") /\ UNCHANGED started
    /\ UNCHANGED <<cause, completed, process, stop, attempted, reaped,
                   cleanupError, callbacks, retained, child, session, taken,
                   given, released>>

\* control.check(), then should_stop(): nothing has been acquired yet.
Start ==
    /\ At("caller", "start")
    /\ \/ cause # "none" /\ outcome' = cause /\ Goto("caller", "release")
       \/ cause = "none" /\ outcome' = "stopped" /\ Goto("caller", "release")
       \/ cause = "none" /\ Goto("caller", "spawn") /\ UNCHANGED outcome
    /\ UNCHANGED <<control, child, session, taken, given, released>>

\* The "starting" event checks the cause only when a live sink exists, and its
\* callback or Popen itself may raise outside the try block.  An abort that
\* lands after the check does not prevent the spawn.
Spawn ==
    /\ At("caller", "spawn")
    /\ \/ cause # "none" /\ outcome' = cause /\ Goto("caller", "release")
          /\ UNCHANGED child
       \/ outcome' = "error" /\ Goto("caller", "release") /\ UNCHANGED child
       \/ child' = "alive" /\ Goto("caller", "register") /\ UNCHANGED outcome
    /\ UNCHANGED <<control, session, taken, given, released>>

\* register(): the control owns the process before the owner thread is
\* started, and starting it may fail.
Register ==
    /\ At("caller", "register")
    /\ process' = TRUE
    /\ \/ pc' = [pc EXCEPT !["caller"] = "arm", !["owner"] = "watch"]
       \/ Goto("caller", "raise")
    /\ UNCHANGED <<cause, completed, started, stop, attempted, reaped,
                   cleanupError, callbacks, retained, child, session, taken,
                   result>>

\* watchdog.start() when there is a deadline, reader.start(), and the request
\* is written; each may fail and the reader may already run when one does.
Arm ==
    /\ At("caller", "arm")
    /\ watchdog' \in {"off", "armed"}
    /\ reader' \in {"off", "reading"}
    /\ \/ reader' = "reading" /\ Goto("caller", "loop")
       \/ Goto("caller", "raise")
    /\ UNCHANGED <<control, child, overdue, taken, result>>

\* The message loop: check() first expires an overdue deadline, then raises
\* the cause; the inbox reports the reader's failure before anything else.
Loop ==
    /\ At("caller", "loop")
    /\ \/ cause # "none" /\ Goto("caller", "raise") /\ UNCHANGED <<cause, stop>>
       \/ overdue /\ Abort("timeout") /\ Goto("caller", "raise")
       \/ cause = "none" /\ reader = "eof" /\ Goto("caller", "exitwait")
          /\ UNCHANGED <<cause, stop>>
    /\ UNCHANGED <<completed, started, process, attempted, reaped,
                   cleanupError, callbacks, retained, child, session, taken,
                   result>>

\* Application code runs on this thread: on_event, on_result, a live sink, or
\* should_stop.  It is admitted after a check, and may never return.
Deliver ==
    /\ cause = "none"
    /\ Step("caller", "loop", "callback")
    /\ UNCHANGED <<control, child, session, taken, result>>

CallbackReturns ==
    /\ Step("caller", "callback", "loop")
    /\ UNCHANGED <<control, child, session, taken, result>>

\* A frame that cannot be decoded, a broken request pipe, an interrupt.
LoopFails ==
    /\ Step("caller", "loop", "raise")
    /\ UNCHANGED <<control, child, session, taken, result>>

\* wait_for_exit(5): the cause is checked while waiting and again at the end.
ExitWait ==
    /\ At("caller", "exitwait")
    /\ \/ ExitSeen /\ cause = "none" /\ Goto("caller", "verdict")
       \/ cause # "none" /\ Goto("caller", "raise")
       \/ ~ExitSeen /\ Goto("caller", "raise")
    /\ UNCHANGED <<control, child, session, taken, result>>

\* check(), then the worker error, exit status, callback error and missing
\* result, any of which raises.
Verdict ==
    /\ At("caller", "verdict")
    /\ \/ overdue /\ Abort("timeout") /\ Goto("caller", "raise")
       \/ cause # "none" /\ Goto("caller", "raise") /\ UNCHANGED <<cause, stop>>
       \/ cause = "none" /\ ~overdue /\ UNCHANGED <<cause, stop>>
          /\ \E next \in {"commit", "raise"} : Goto("caller", next)
    /\ UNCHANGED <<completed, started, process, attempted, reaped,
                   cleanupError, callbacks, retained, child, session, taken,
                   result>>

\* complete(): commits unless a cause won since the last check.
Complete ==
    /\ At("caller", "commit")
    /\ IF MayComplete
       THEN completed' = TRUE /\ outcome' = "success" /\ Goto("caller", "close")
       ELSE Goto("caller", "raise") /\ UNCHANGED <<completed, outcome>>
    /\ UNCHANGED <<cause, started, process, stop, attempted, reaped,
                   cleanupError, callbacks, retained, child, session, taken,
                   given, released>>

\* except BaseException: expire() when overdue, abort(exc), then check()
\* raises whichever cause won.
Raise ==
    /\ Step("caller", "raise", "close")
    /\ Abort(IF overdue THEN "timeout" ELSE "error")
    /\ outcome' = cause'
    /\ UNCHANGED <<completed, started, process, attempted, reaped,
                   cleanupError, callbacks, retained, child, session, taken,
                   given, released>>

\* finally: watchdog.cancel(), then close() wakes the owner.  A caller whose
\* owner thread never started runs _stop_process itself.
Close ==
    /\ At("caller", "close")
    /\ stop' = TRUE
    /\ watchdog' = IF watchdog = "armed" THEN "over" ELSE watchdog
    /\ Goto("caller", IF At("owner", "off") THEN "poll" ELSE "await")
    /\ UNCHANGED <<cause, completed, started, process, attempted, reaped,
                   cleanupError, callbacks, retained, child, overdue, reader,
                   taken, result>>

\* _cleanup_attempted.wait()
Await ==
    /\ attempted
    /\ Step("caller", "await", "settle")
    /\ UNCHANGED <<control, child, session, taken, result>>

\* KeyboardInterrupt reaches the main thread while it waits inside close().
InterruptClose ==
    /\ Interruptible /\ ~given
    /\ Step("caller", "await", "release")
    /\ outcome' = "interrupt"
    /\ UNCHANGED <<control, child, session, taken, given, released>>

\* close() raises the cleanup error in place of whatever was propagating.
Settle ==
    /\ Step("caller", "settle", "release")
    /\ outcome' = IF CloseRaises THEN "cleanup" ELSE outcome
    /\ UNCHANGED <<control, child, session, taken, given, released>>

\* Server._run_once.finally: with no control to ask (a synchronous call that
\* raised no cleanup error) or a confirmed cleanup the lock is released here.
Release ==
    /\ At("caller", "release")
    /\ IF (~given /\ outcome # "cleanup") \/ Confirmed
       THEN released' = released + 1 /\ Goto("caller", "done")
       ELSE Goto("caller", "enroll") /\ UNCHANGED released
    /\ UNCHANGED <<control, child, session, taken, outcome, given>>

\* when_reaped(): the process may have been reaped since cleanup_confirmed.
WhenReaped ==
    /\ Step("caller", "enroll", "done")
    /\ IF AwaitsReap
       THEN callbacks' = callbacks + 1 /\ UNCHANGED released
       ELSE released' = released + 1 /\ UNCHANGED callbacks
    /\ UNCHANGED <<cause, completed, started, process, stop, attempted, reaped,
                   cleanupError, retained, child, session, taken, outcome,
                   given>>

-----------------------------------------------------------------------------
(* _supervise, _stop_process, _mark_reaped and _reap_later.                *)

\* What a thread does once _stop_process or _mark_reaped returns to it.
Return(t) == IF t = "caller" THEN "await" ELSE "end"

\* _supervise: poll until an exit is seen, stop is set, or poll() raises.
Supervise ==
    /\ At("owner", "watch")
    /\ \/ stop /\ Goto("owner", "poll") /\ UNCHANGED <<cause, stop, child>>
       \/ ~stop /\ child = "exited" /\ child' = "collected"
          /\ Goto("owner", "mark") /\ UNCHANGED <<cause, stop>>
    /\ UNCHANGED <<completed, started, process, attempted, reaped,
                   cleanupError, callbacks, retained, session, taken, result>>

SuperviseFails ==
    /\ ~stop
    /\ Step("owner", "watch", "poll")
    /\ Abort("observe")
    /\ UNCHANGED <<completed, started, process, attempted, reaped,
                   cleanupError, callbacks, retained, child, session, taken,
                   result>>

\* poll() or wait() of the handle at `here`: it collects an exited child (or
\* finds it collected already), reports a live one, or raises.
Observe(t, here, gone, live, raised) ==
    /\ At(t, here)
    /\ \/ child \in {"exited", "collected"} /\ child' = "collected"
          /\ Goto(t, gone)
       \/ child = "alive" /\ Goto(t, live) /\ UNCHANGED child
       \/ Goto(t, raised) /\ UNCHANGED child
    /\ UNCHANGED <<control, session, taken, result>>

\* terminate() or kill(): a signal call only moves the thread on.  Whether
\* the child then exits is up to ChildExits.
Signal(t, here, sent, raised) ==
    /\ At(t, here)
    /\ \E next \in {sent, raised} : Goto(t, next)
    /\ UNCHANGED <<control, child, session, taken, result>>

StopPoll(t)  == Observe(t, "poll", "mark", "terminate", "recheck")
Terminate(t) == Signal(t, "terminate", "grace", "kill")
Grace(t)     == Observe(t, "grace", "mark", "kill", "kill")
Kill(t)      == Signal(t, "kill", "killwait", "recheck")
KillWait(t)  == Observe(t, "killwait", "mark", "recheck", "recheck")
Recheck(t)   == Observe(t, "recheck", "mark", "fail", "fail")

\* The cleanup error is stored and the control rooted in the registry ...
Fail(t) ==
    /\ Step(t, "fail", "report")
    /\ cleanupError' = TRUE /\ retained' = TRUE
    /\ UNCHANGED <<cause, completed, started, process, stop, attempted, reaped,
                   callbacks, child, session, taken, result>>

\* ... before the waiting caller is told that cleanup was attempted.
Report(t) ==
    /\ Step(t, "report", "handoff")
    /\ attempted' = TRUE
    /\ UNCHANGED <<cause, completed, started, process, stop, reaped,
                   cleanupError, callbacks, retained, child, session, taken,
                   result>>

HandoffToNobody(t) ==     \* mutant: the owner stops after reporting
    /\ Step(t, "handoff", Return(t))
    /\ UNCHANGED <<control, child, session, taken, result>>

\* The owner keeps reaping; a caller tries to start a background reaper.
Handoff(t) ==
    /\ At(t, "handoff")
    /\ \/ t = "owner" /\ Goto(t, "reap")
       \/ t = "caller" /\ pc' = [pc EXCEPT !["caller"] = "await", !["owner"] = "reap"]
       \/ t = "caller" /\ Goto(t, "await")
    /\ UNCHANGED <<control, child, session, taken, result>>

\* _reap_later: wait(0.1) until it succeeds, whatever it raises meanwhile.
ReapLater ==
    /\ At("owner", "reap")
    /\ child \in {"exited", "collected"} /\ child' = "collected"
    /\ Goto("owner", "mark")
    /\ UNCHANGED <<control, session, taken, result>>

\* _mark_reaped: set the event and take the callbacks in one critical section,
Mark(t) ==
    /\ Step(t, "mark", "callbacks")
    /\ reaped' = TRUE
    /\ taken' = callbacks /\ callbacks' = 0
    /\ UNCHANGED <<cause, completed, started, process, stop, attempted,
                   cleanupError, retained, child, session, result>>

\* leave the registry and run them,
RunCallbacks(t) ==
    /\ Step(t, "callbacks", "attempted")
    /\ retained' = FALSE
    /\ released' = released + taken /\ taken' = 0
    /\ UNCHANGED <<cause, completed, started, process, stop, attempted, reaped,
                   cleanupError, callbacks, child, session, outcome, given>>

\* and wake the caller.
MarkAttempted(t) ==
    /\ Step(t, "attempted", Return(t))
    /\ attempted' = TRUE
    /\ UNCHANGED <<cause, completed, started, process, stop, reaped,
                   cleanupError, callbacks, retained, child, session, taken,
                   result>>

-----------------------------------------------------------------------------
(* The other actors.                                                       *)

\* request_cancel, from the event loop, on a control that was handed in.
RequestCancel ==
    /\ given
    /\ Abort("cancel")
    /\ UNCHANGED <<completed, started, process, attempted, reaped,
                   cleanupError, callbacks, retained, child, session, pc,
                   taken, result>>

\* The process deadline passes.
Overdue ==
    /\ ~overdue /\ overdue' = TRUE
    /\ UNCHANGED <<control, child, watchdog, reader, pc, taken, result>>

\* Timer.run tests `finished` and then calls expire(): cancel() can land
\* between the two.
WatchdogFires ==
    /\ overdue /\ watchdog = "armed" /\ watchdog' = "firing"
    /\ UNCHANGED <<control, child, overdue, reader, pc, taken, result>>

Expire ==
    /\ watchdog = "firing" /\ watchdog' = "over"
    /\ Abort("timeout")
    /\ UNCHANGED <<completed, started, process, attempted, reaped,
                   cleanupError, callbacks, retained, child, overdue, reader,
                   pc, taken, result>>

\* The reader saw the terminal receipt and end of file; it waits for the exit.
ReaderDrains ==
    /\ reader = "reading" /\ reader' = "draining"
    /\ UNCHANGED <<control, child, overdue, watchdog, pc, taken, result>>

\* Its wait_for_exit(5) sees the exit and no cause; the inbox gets "eof".
ReaderEnds ==
    /\ reader = "draining" /\ reaped /\ cause = "none" /\ reader' = "eof"
    /\ UNCHANGED <<control, child, overdue, watchdog, pc, taken, result>>

\* Invalid transport, a missing receipt, no exit in time, or a cause seen in
\* wait_for_exit: abort and hand the failure to the inbox.
ReaderFails ==
    /\ reader \in {"reading", "draining"} /\ reader' = "failed"
    /\ Abort("transport")
    /\ UNCHANGED <<completed, started, process, attempted, reaped,
                   cleanupError, callbacks, retained, child, overdue, watchdog,
                   pc, taken, result>>

\* The operating system: the child exits by itself or because of a signal.
ChildExits ==
    /\ child = "alive" /\ child' = "exited"
    /\ UNCHANGED <<control, session, pc, taken, result>>

-----------------------------------------------------------------------------
Cleanup(t) ==
    \/ StopPoll(t) \/ Terminate(t) \/ Grace(t) \/ Kill(t) \/ KillWait(t)
    \/ Recheck(t) \/ Fail(t) \/ Report(t) \/ Handoff(t)
    \/ Mark(t) \/ RunCallbacks(t) \/ MarkAttempted(t)

Caller ==
    \/ Start \/ Spawn \/ Register \/ Arm \/ Loop \/ ExitWait \/ Verdict
    \/ Complete \/ Raise \/ Close \/ Await \/ Settle \/ Release \/ WhenReaped
    \/ Cleanup("caller")

Owner == Supervise \/ ReapLater \/ Cleanup("owner")

Others ==
    \/ Overdue \/ WatchdogFires \/ Expire
    \/ ReaderDrains \/ ReaderEnds \/ ReaderFails \/ ChildExits

\* Everything but the request to cancel, which a task model may refine.
Operation ==
    \/ Begin \/ Caller \/ Deliver \/ CallbackReturns \/ LoopFails \/ InterruptClose
    \/ Owner \/ SuperviseFails \/ Others

Next == Operation \/ RequestCancel

\* Threads that are not blocked run.  Nothing forces a queued invocation to
\* start, a callback to return, a loop to fail, poll() to raise or a child to
\* exit.
Fairness ==
    /\ WF_vars(Caller) /\ WF_vars(Owner)
    /\ WF_vars(WatchdogFires) /\ WF_vars(Expire)

Spec == Init /\ [][Next]_vars /\ Fairness

-----------------------------------------------------------------------------
(* Correctness.                                                            *)

Ended    == pc["caller"] \in {"release", "enroll", "done"}
Admitted == started \/ ~given

\* complete() commits success only for a child that has been collected, and
\* then neither a cause nor a cleanup failure exists: cancellation, deadline
\* and success are mutually exclusive however their threads interleave.
Arbitration ==
    completed => /\ cause = "none" /\ reaped /\ child = "collected"
                 /\ ~cleanupError /\ callbacks = 0

\* What run_worker raises or returns is the arbiter's decision: success only
\* when committed, otherwise the winning cause, so a late success never
\* replaces a cause.  Failures before its try block leave no child behind.
OutcomeIsVerdict ==
    Ended =>
        /\ outcome # "none"
        /\ outcome = "success" => completed
        /\ outcome \in Causes =>
               /\ ~completed
               /\ cause = outcome \/ (outcome = "error" /\ child = "none")
        /\ outcome = "stopped" => child = "none"
        /\ outcome = "cleanup" => cause # "none" /\ cleanupError

\* run_worker "reaps on every return/error path": unless the cleanup error
\* says otherwise, no child survives the call.
ReapedOnEveryPath ==
    Ended /\ outcome # "cleanup" => child \in {"none", "collected"}

\* Server admission is released at most once, by whichever of the caller and
\* the reaper gets there, and never while the child may still run.
ReleaseOnceAndSafely ==
    /\ released + callbacks + taken <= 1
    /\ released > 0 => child \in {"none", "collected"}

\* The release is never lost between cleanup_confirmed, when_reaped and
\* _mark_reaped: an operation that finished without releasing has enrolled a
\* callback that an unreaped control still holds or a reaper is running.
ReleaseNotLost ==
    At("caller", "done") /\ Admitted /\ released = 0 =>
        \/ callbacks = 1 /\ process /\ ~reaped
        \/ taken = 1 /\ \E t \in Threads : At(t, "callbacks")

\* A caller that was told "cleanup attempted" without a reaped child finds
\* the cleanup error set, and the registry keeps the control until the reap
\* and not longer.
FailureIsReported ==
    /\ attempted /\ ~reaped => cleanupError /\ retained
    /\ reaped /\ pc["owner"] \in {"off", "end"} /\ pc["caller"] \notin CleanupPCs
           => ~retained

\* Cancellation, deadline and success exclude each other inside the arbiter,
\* and what run_worker raises or returns is the arbiter's decision, however
\* the threads interleave: a late success never replaces a cause.
VerdictStands == Arbitration /\ OutcomeIsVerdict

\* No child survives the call unless the cleanup error says so, and whoever is
\* told of an attempt without a reap finds the error and a rooted control.
OwnershipReported == ReapedOnEveryPath /\ FailureIsReported

\* Server admission is released exactly once: not twice and not while the
\* child may run, and not lost between cleanup_confirmed, when_reaped and
\* _mark_reaped.
AdmissionExact == ReleaseOnceAndSafely /\ ReleaseNotLost

\* Emergency cleanup by the caller never runs beside the owner thread.
OneShutdownOwner ==
    ~(pc["caller"] \in CleanupPCs /\ pc["owner"] # "off")

FinalStep ==
    /\ cause # "none" => cause' = cause /\ ~completed'
    /\ completed => completed'
    /\ outcome # "none" => outcome' \in {outcome, "cleanup", "interrupt"}
    /\ reaped => reaped' /\ child' = child

\* A decision is final: neither a cause nor a completion is ever replaced,
\* a settled outcome only gives way to a cleanup error or an interrupt, and a
\* reaped child stays reaped.
DecisionsAreFinal == [][FinalStep]_vars

\* abort() and the watchdog stop the child even while application code blocks
\* the invoking thread: the owner makes its bounded cleanup attempt.
ContainedDespiteCallback ==
    (process /\ (cause # "none" \/ (overdue /\ watchdog = "armed"))) ~> attempted

\* Every abort ends the call, whatever the child does, as soon as a callback
\* that is already running has returned.
AbortEndsCall ==
    (cause # "none" /\ pc["caller"] # "queued")
        ~> pc["caller"] \in {"done", "callback"}

\* A child that exits while its owner or a background reaper lives is
\* collected, and the admission it held is released.
ExitFreesAdmission ==
    (At("caller", "done") /\ Admitted /\ child # "alive" /\ pc["owner"] # "off")
        ~> released = 1

\* The call of an aborted operation ends, and the admission it leaves behind
\* comes back when its child exits.
CallEnds == AbortEndsCall /\ ExitFreesAdmission
-----------------------------------------------------------------------------
(* The operation as its callers see it.  A child counts as live until its  *)
(* exit status has been collected.                                         *)

workerOf == IF child \in {"alive", "exited"} THEN "live"
            ELSE IF child = "collected" THEN "gone" ELSE "none"

verdictOf == IF completed THEN "success"
             ELSE IF cause # "none" \/ outcome \in Causes \cup {"stopped"}
                  THEN "failure" ELSE "open"

reportOf == IF ~Ended THEN "running"
            ELSE IF outcome = "cleanup" THEN "unconfirmed" ELSE "clean"

admissionOf == IF released = 0 THEN "held" ELSE "free"

Abstract == INSTANCE OwnedWorker
                WITH worker <- workerOf, verdict <- verdictOf,
                     report <- reportOf, admission <- admissionOf

\* The threads, signals and races above implement the promise of OwnedWorker:
\* one child, a final verdict, success only after the collection, and an
\* admission that is only freed when no child can be live.
ImplementsOwnedWorker == Abstract!OwnedSpec
=============================================================================
