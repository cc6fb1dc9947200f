--------------------------- MODULE AsyncOperation ---------------------------
(***************************************************************************)
(* _cancellation._run_async: an asyncio task that runs one operation in    *)
(* the default executor and waits for it.  The operation, its threads and  *)
(* its child are those of ExecutionControl; the cancellation that module   *)
(* leaves to the environment is here delivered by the task, which then     *)
(* decides when it may stop waiting and what it raises.  An operation that *)
(* is called without a task behaves as in ExecutionControl.                *)
(***************************************************************************)
EXTENDS ExecutionControl

VARIABLES
    task,     \* "absent", "waiting", "requested", "draining", "ended"
    again,    \* has a further cancellation been delivered while draining?
    signal    \* what the coroutine raised or returned

asyncVars == <<vars, task, again, signal>>

AsyncInit ==
    /\ Init
    /\ task \in {"absent"} \union (IF given THEN {"waiting"} ELSE {})
    /\ again = FALSE /\ signal = "none"

\* The executor's future is done once the invocation, including the release
\* of server admission, has returned or raised.
FutureDone == At("caller", "done")

\* asyncio.wait returns and future.result() is passed on.
TaskReturns ==
    /\ task = "waiting" /\ FutureDone
    /\ task' = "ended" /\ signal' = outcome
    /\ UNCHANGED <<vars, again>>

\* A cancellation is delivered at the await, perhaps with the future already
\* done.  request_cancel first aborts ...
TaskCancelled ==
    /\ task = "waiting" /\ task' = "requested"
    /\ RequestCancel
    /\ UNCHANGED <<again, signal>>

NeverStarted == TRUE     \* mutant: every invocation is taken for a queued one

\* ... and then, in another critical section, reads whether begin() ran.
NotStarted == ~started

\* A queued invocation is left behind; a started one is awaited.
ReadStarted ==
    /\ task = "requested"
    /\ IF NotStarted
       THEN task' = "ended" /\ signal' = "cancel"
       ELSE task' = "draining" /\ UNCHANGED signal
    /\ UNCHANGED <<vars, again>>

\* A repeated cancellation only continues the loop.
CancelledAgain ==
    /\ task = "draining" /\ ~FutureDone
    /\ again' = TRUE
    /\ UNCHANGED <<vars, task, signal>>

\* A cleanup error is raised, anything else gives way to the cancellation.
Outward == IF outcome = "cleanup" THEN "cleanup" ELSE "cancel"

DrainUntilReleased == FutureDone /\ released = 1     \* mutant

\* The loop leaves when the future is done, confirmed cleanup or not.
DrainEnds == FutureDone

TaskDrains ==
    /\ task = "draining" /\ DrainEnds
    /\ task' = "ended" /\ signal' = Outward
    /\ UNCHANGED <<vars, again>>

Task == TaskReturns \/ ReadStarted \/ TaskDrains

AsyncNext ==
    \/ Operation /\ UNCHANGED <<task, again, signal>>
    \/ task = "absent" /\ RequestCancel /\ UNCHANGED <<task, again, signal>>
    \/ Task \/ TaskCancelled \/ CancelledAgain

\* The event loop resumes a task whose await is over; the threads are those
\* of ExecutionControl.
AsyncSpec ==
    /\ AsyncInit /\ [][AsyncNext]_asyncVars
    /\ Fairness /\ WF_asyncVars(Task)

-----------------------------------------------------------------------------
\* The task never abandons owned work: when it ends, a started invocation has
\* finished and its child is collected (or the cleanup error says it may not
\* be); one that had not started is refused by begin(), so that no child is
\* ever created, however late the executor gets to it.
TaskOwnsWork ==
    task = "ended" =>
        IF started
        THEN /\ FutureDone
             /\ signal # "cleanup" => child \in {"none", "collected"}
        ELSE /\ signal = "cancel" /\ child = "none"
             /\ pc["caller"] \in {"queued", "done"}

\* A delivered cancellation is the outward signal even when success or a
\* deadline won inside just before; only an unconfirmed cleanup takes
\* precedence, and it is never hidden.
CancellationIsOutward ==
    task = "ended" =>
        /\ cause = "cancel" => signal \in {"cancel", "cleanup"}
        /\ again => signal \in {"cancel", "cleanup"}
        /\ signal = "success" => completed
        /\ started => ((signal = "cleanup") <=> (outcome = "cleanup"))

\* A task that has ended left no work behind, and what it raised hides neither
\* a cancellation nor an unconfirmed cleanup.
TaskSettled == TaskOwnsWork /\ CancellationIsOutward

\* A cancelled task ends, even if the child refuses to die and even if the
\* executor never runs the queued invocation; only a running callback can
\* hold it back.
CancelledTaskEnds ==
    task = "requested" ~> (task = "ended" \/ At("caller", "callback"))

=============================================================================
