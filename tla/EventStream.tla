---------------------------- MODULE EventStream ----------------------------
(***************************************************************************)
(* _event_stream.EventStream: an asyncio context that owns one isolated    *)
(* operation.  The operation's thread puts live events into a bounded      *)
(* queue; tasks of one event loop read them, await the result, close the   *)
(* stream and are cancelled.  The owner task behaves as AsyncOperation     *)
(* shows: it ends only when the operation has returned or never started.   *)
(*                                                                         *)
(* The loop runs one step at a time; the operation's thread interleaves    *)
(* with it at the stream's lock.  Events are numbered by `_put`.           *)
(***************************************************************************)
EXTENDS Integers, Sequences

CONSTANTS
    Tasks,      \* tasks of the loop that use the stream
    Main,       \* the one whose `async with` statement it is
    MaxEvents,  \* MAX_STREAM_EVENTS
    MaxBytes,   \* MAX_STREAM_BYTES
    MaxPuts     \* bound: events the operation delivers

ASSUME StreamAssumption ==
    /\ Main \in Tasks
    /\ MaxEvents \in Nat /\ MaxBytes \in Nat /\ MaxPuts \in Nat

VARIABLES
    entered, closed, intentional, observed,   \* the stream's flags
    consumer,     \* _consumer, or NoTask
    operation,    \* the executor invocation: "none", "queued", "running", "returned"
    outcome,      \* what it returned: "none", "value", "error", "cleanup"
    asked,        \* has owner.cancel() been called before the owner was done?
    owner,        \* "none", "active", "done"
    settled,      \* what the owner's result() is: "none", "value", "error", ...
    queue, bytes, \* _queue and _bytes
    dropped, reported,
    terminal,     \* "none", "reserved" or "delivered"
    wakePending,  \* _wake_pending
    scheduled, waking,      \* is _wake due; is it between its two steps?
    available,    \* the asyncio.Event
    at,           \* where each task is
    why,          \* why it closes
    hit,          \* a cancellation reached the call it is in
    exit,         \* how the `async with` statement ended
    raised,       \* history: has the owner's failure been raised to a task?
    put, last, delivered, told   \* history: events put, the last one read, how
                                 \* many were, and the loss the terminal tells

flags   == <<entered, closed, intentional, observed>>
work    == <<operation, outcome, asked, owner>>
buffer  == <<queue, bytes, dropped, reported>>
wakeup  == <<wakePending, scheduled, waking, available>>
calls   == <<at, why, hit, exit, raised>>
history == <<put, last, delivered, told>>
vars    == <<flags, consumer, work, settled, buffer, terminal, wakeup, calls, history>>

NoTask   == "no task"
Places   == {"body", "waiting", "result", "closing", "gone"}
Failures == {"error", "cancelled", "cleanup"}
Sizes    == 1..(MaxBytes + 1)     \* an event that cannot be encoded is oversized

Init ==
    /\ entered = FALSE /\ closed = FALSE /\ intentional = FALSE /\ observed = FALSE
    /\ consumer = NoTask
    /\ operation = "none" /\ outcome = "none" /\ asked = FALSE
    /\ owner = "none" /\ settled = "none"
    /\ queue = <<>> /\ bytes = 0 /\ dropped = 0 /\ reported = 0
    /\ terminal = "none"
    /\ wakePending = FALSE /\ scheduled = FALSE /\ waking = FALSE /\ available = FALSE
    /\ at = [t \in Tasks |-> "body"] /\ why = [t \in Tasks |-> "none"]
    /\ hit = [t \in Tasks |-> FALSE] /\ exit = "open"
    /\ raised = FALSE
    /\ put = 0 /\ last = 0 /\ delivered = 0 /\ told = 0

-----------------------------------------------------------------------------
(* The operation's thread and the owner task.                              *)

\* The executor gets to the invocation; begin() refuses it after a request.
Begin ==
    /\ operation = "queued"
    /\ operation' = IF asked THEN "returned" ELSE "running"
    /\ UNCHANGED <<flags, consumer, outcome, asked, owner, settled, buffer,
                   terminal, wakeup, calls, history>>

DropSilently(size) ==     \* mutant: an oversized event is not counted
    IF Len(queue) >= MaxEvents \/ bytes + size > MaxBytes
    THEN dropped' = (IF size > MaxBytes THEN dropped ELSE dropped + 1)
         /\ UNCHANGED <<queue, bytes>>
    ELSE /\ queue' = Append(queue, [item |-> put + 1, size |-> size])
         /\ bytes' = bytes + size /\ UNCHANGED dropped

Enqueue(size) ==
    IF Len(queue) >= MaxEvents \/ bytes + size > MaxBytes
    THEN dropped' = dropped + 1 /\ UNCHANGED <<queue, bytes>>
    ELSE /\ queue' = Append(queue, [item |-> put + 1, size |-> size])
         /\ bytes' = bytes + size /\ UNCHANGED dropped

\* _put, under the lock; wake-ups in flight are coalesced.
Put(size) ==
    /\ operation = "running" /\ put < MaxPuts
    /\ Enqueue(size)
    /\ put' = put + 1
    /\ wakePending' = TRUE /\ scheduled' = (scheduled \/ ~wakePending)
    /\ UNCHANGED <<flags, consumer, work, settled, reported, terminal,
                   waking, available, calls, last, delivered, told>>

\* Whatever the operation does, a request makes it return; it may also return
\* by itself.
Return ==
    /\ operation = "running" /\ operation' = "returned"
    /\ outcome' \in {"value", "error", "cleanup"}
    /\ UNCHANGED <<flags, consumer, asked, owner, settled, buffer, terminal,
                   wakeup, calls, history>>

\* _run_async ends: after the invocation, or before it began.
OwnerEnds ==
    /\ owner = "active" /\ ~waking
    /\ operation = "returned" \/ (asked /\ operation = "queued")
    /\ owner' = "done"
    /\ UNCHANGED <<flags, consumer, operation, outcome, asked, settled, buffer,
                   terminal, wakeup, calls, history>>

\* A cancellation of the owner that no stream call asked for (loop shutdown).
OwnerCancelled ==
    /\ owner = "active" /\ ~waking /\ asked' = TRUE
    /\ UNCHANGED <<flags, consumer, operation, outcome, owner, settled, buffer,
                   terminal, wakeup, calls, history>>

\* owner.result(): cancellation is the outward signal unless cleanup failed.
OwnerResult == IF asked /\ outcome # "cleanup" THEN "cancelled" ELSE outcome

SettleSilently ==     \* mutant: the Event is not set for the terminal
    IF terminal # "none" THEN UNCHANGED <<settled, terminal, told, available>>
    ELSE /\ settled' = OwnerResult /\ terminal' = "reserved" /\ told' = dropped
         /\ UNCHANGED available

\* _settled: the first caller reserves the terminal and signals it.
Settle ==
    IF terminal # "none" THEN UNCHANGED <<settled, terminal, told, available>>
    ELSE /\ settled' = OwnerResult /\ terminal' = "reserved" /\ told' = dropped
         /\ available' = TRUE

\* The owner's done callback.
SettledCallback ==
    /\ owner = "done" /\ terminal = "none" /\ ~waking
    /\ Settle
    /\ UNCHANGED <<flags, consumer, work, buffer, wakePending, scheduled, waking, calls,
                   put, last, delivered>>

WakeKeepingFlag ==     \* mutant: the flag is never cleared
    /\ scheduled /\ ~waking
    /\ scheduled' = FALSE /\ waking' = TRUE
    /\ UNCHANGED <<flags, consumer, work, settled, buffer, terminal, wakePending,
                   available, calls, history>>

\* _wake: the flag is cleared under the lock, the Event is set after it.
WakeBegin ==
    /\ scheduled /\ ~waking
    /\ scheduled' = FALSE /\ waking' = TRUE /\ wakePending' = FALSE
    /\ UNCHANGED <<flags, consumer, work, settled, buffer, terminal, available,
                   calls, history>>

WakeEnd ==
    /\ waking /\ waking' = FALSE /\ available' = TRUE
    /\ UNCHANGED <<flags, consumer, work, settled, buffer, terminal,
                   wakePending, scheduled, calls, history>>

-----------------------------------------------------------------------------
(* The tasks.  Move(t, place, reason) puts a task at the await of a call.  *)

Move(t, place, reason) ==
    at' = [at EXCEPT ![t] = place] /\ why' = [why EXCEPT ![t] = reason]

Usable(t) == at[t] = "body" /\ owner # "none" /\ ~waking

\* __aenter__: admission or the creation of the task may fail; the stream is
\* then used up.
Enter ==
    /\ ~entered /\ ~closed /\ ~waking /\ entered' = TRUE
    /\ \/ owner' = "active" /\ operation' = "queued"
       \/ UNCHANGED <<owner, operation>>
    /\ UNCHANGED <<closed, intentional, observed, consumer, outcome, asked,
                   settled, buffer, terminal, wakeup, calls, history>>

\* aclose() of a stream that owns nothing
CloseUnentered ==
    /\ owner = "none" /\ ~closed /\ closed' = TRUE
    /\ UNCHANGED <<entered, intentional, observed, consumer, work, settled,
                   buffer, terminal, wakeup, calls, history>>

BytesAfterPop == bytes - Head(queue).size

\* What __anext__ finds under the lock: an event, else a loss, else the
\* terminal, else nothing, in which case it clears the Event and waits.
Find(t) ==
    \/ /\ queue # <<>>
       /\ queue' = Tail(queue) /\ bytes' = BytesAfterPop
       /\ last' = Head(queue).item /\ delivered' = delivered + 1
       /\ Move(t, "body", "none")
       /\ UNCHANGED <<reported, terminal, available>>
    \/ /\ queue = <<>> /\ reported # dropped
       /\ reported' = dropped
       /\ Move(t, "body", "none")
       /\ UNCHANGED <<queue, bytes, last, delivered, terminal, available>>
    \/ /\ queue = <<>> /\ reported = dropped /\ terminal = "reserved"
       /\ terminal' = "delivered"
       /\ Move(t, "body", "none")
       /\ UNCHANGED <<queue, bytes, last, delivered, reported, available>>
    \/ /\ queue = <<>> /\ reported = dropped /\ terminal = "none"
       /\ available' = FALSE
       /\ Move(t, "waiting", "next")
       /\ UNCHANGED <<queue, bytes, last, delivered, reported, terminal>>

Reading == \E t \in Tasks : why[t] = "next"

\* __anext__: the first task to read stays the only consumer.
Read(t) ==
    /\ Usable(t) /\ consumer \in {NoTask, t} /\ ~Reading
    /\ consumer' = t
    /\ Find(t)
    /\ UNCHANGED <<flags, work, settled, dropped, wakePending, scheduled, waking,
                   hit, exit, raised, put, told>>

\* The Event's wait() returns.
Resume(t) ==
    /\ at[t] = "waiting" /\ available /\ ~waking
    /\ Find(t)
    /\ UNCHANGED <<flags, consumer, work, settled, dropped, wakePending, scheduled,
                   waking, hit, exit, raised, put, told>>

\* result()
CallResult(t) ==
    /\ Usable(t) /\ Move(t, "result", "result")
    /\ UNCHANGED <<flags, consumer, work, settled, buffer, terminal, wakeup,
                   hit, exit, raised, history>>

\* ... raises the owner's error, which then counts as observed.
ResultReturns(t) ==
    /\ at[t] = "result" /\ owner = "done" /\ ~waking
    /\ Settle
    /\ observed' = (observed \/ settled' \in Failures)
    /\ raised' = (raised \/ settled' \in Failures)
    /\ Move(t, "body", "none")
    /\ UNCHANGED <<entered, closed, intentional, consumer, work, buffer,
                   wakePending, scheduled, waking, hit, exit, put, last, delivered>>

\* The first half of aclose().
StartClose ==
    /\ closed' = TRUE
    /\ intentional' = (intentional \/ owner = "active")
    /\ asked' = (asked \/ owner = "active")

\* aclose(), or the end of the `async with` body
Close(t, reason) ==
    /\ Usable(t)
    /\ reason \in {"close"} \cup (IF t = Main THEN {"exit", "exit after error"} ELSE {})
    /\ StartClose
    /\ Move(t, "closing", reason)
    /\ UNCHANGED <<entered, observed, consumer, operation, outcome, owner, settled,
                   buffer, terminal, wakeup, hit, exit, raised, history>>

\* A cancellation is delivered at an await: a reader or a waiter closes the
\* stream, a closing task asks again and goes on waiting.
Cancel(t) ==
    /\ at[t] \in {"waiting", "result", "closing"} /\ ~waking
    /\ hit' = [hit EXCEPT ![t] = TRUE]
    /\ IF at[t] = "closing"
       THEN asked' = (asked \/ owner = "active") /\ UNCHANGED <<at, why, closed, intentional>>
       ELSE StartClose /\ Move(t, "closing", why[t])
    /\ UNCHANGED <<entered, observed, consumer, operation, outcome, owner, settled,
                   buffer, terminal, wakeup, exit, raised, history>>

\* __aexit__ without an exception: whether the operation's error is passed over.
PassedOver == observed \/ (intentional /\ settled' = "cancelled")

ExitRaises(t) == why[t] = "exit" /\ settled' \in Failures /\ ~PassedOver

CancellationFirst(t) ==     \* mutant: a cancellation hides the failed cleanup
    CASE hit[t]                        -> "cancelled"
      [] ~hit[t] /\ ExitRaises(t)      -> settled'
      [] OTHER -> IF why[t] = "exit after error" THEN "body" ELSE "none"

\* What the rest of aclose() and, for the context's own close, __aexit__ raise.
Signal(t) ==
    CASE settled' = "cleanup"                       -> "cleanup"
      [] settled' # "cleanup" /\ hit[t]             -> "cancelled"
      [] settled' # "cleanup" /\ ~hit[t] /\ ExitRaises(t) -> settled'
      [] OTHER -> IF why[t] = "exit after error" THEN "body" ELSE "none"

EndClose(t) ==
    /\ at[t] = "closing" /\ owner = "done" /\ ~waking
    /\ Settle
    /\ raised' = (raised \/ Signal(t) = settled')
    /\ observed' = (observed \/ settled' = "cleanup" \/ (~hit[t] /\ ExitRaises(t)))
    /\ hit' = [hit EXCEPT ![t] = FALSE]
    /\ IF why[t] \in {"exit", "exit after error"}
       THEN Move(t, "gone", "none") /\ exit' = Signal(t)
       ELSE Move(t, "body", "none") /\ UNCHANGED exit
    /\ UNCHANGED <<entered, closed, intentional, consumer, work, buffer,
                   wakePending, scheduled, waking, put, last, delivered>>

-----------------------------------------------------------------------------
Reasons == {"close", "exit", "exit after error"}

Thread == Begin \/ (\E size \in Sizes : Put(size)) \/ Return

TaskStep(t) == Resume(t) \/ ResultReturns(t) \/ EndClose(t)

Next ==
    \/ Thread \/ OwnerEnds \/ OwnerCancelled \/ SettledCallback \/ WakeBegin \/ WakeEnd
    \/ Enter \/ CloseUnentered
    \/ \E t \in Tasks :
           \/ TaskStep(t) \/ Read(t) \/ CallResult(t) \/ Cancel(t)
           \/ \E reason \in Reasons : Close(t, reason)

\* The loop runs its callbacks and the tasks that can go on; a request ends
\* the operation.  Nobody has to read, to close, to cancel or to return by
\* itself.
Fairness ==
    /\ WF_vars(WakeBegin \/ WakeEnd) /\ WF_vars(OwnerEnds) /\ WF_vars(SettledCallback)
    /\ WF_vars(asked /\ Return)
    /\ \A t \in Tasks : WF_vars(TaskStep(t))

Spec == Init /\ [][Next]_vars /\ Fairness

-----------------------------------------------------------------------------
SizeOf(entries) == IF entries = <<>> THEN 0
                   ELSE LET total[i \in 1..Len(entries)] ==
                                entries[i].size + IF i = 1 THEN 0 ELSE total[i - 1]
                        IN  total[Len(entries)]

\* The types, with the byte count of the queue kept exactly.
TypeOK ==
    /\ entered \in BOOLEAN /\ closed \in BOOLEAN
    /\ intentional \in BOOLEAN /\ observed \in BOOLEAN
    /\ consumer \in Tasks \cup {NoTask}
    /\ operation \in {"none", "queued", "running", "returned"}
    /\ outcome \in {"none", "value", "error", "cleanup"}
    /\ asked \in BOOLEAN /\ owner \in {"none", "active", "done"}
    /\ settled \in {"none", "value"} \cup Failures
    /\ Len(queue) <= MaxEvents /\ bytes = SizeOf(queue) /\ bytes <= MaxBytes
    /\ terminal \in {"none", "reserved", "delivered"}
    /\ wakePending = scheduled /\ available \in BOOLEAN
    /\ at \in [Tasks -> Places] /\ why \in [Tasks -> {"none", "next", "result"} \cup Reasons]

\* A reader never sleeps through something it could read: an event, a loss or
\* the terminal is there only with a wake-up on its way, although the events
\* come from another thread and wake-ups in flight are coalesced.
Readable == queue # <<>> \/ reported # dropped \/ terminal # "none"

WaiterIsWoken ==
    \A t \in Tasks : at[t] = "waiting" /\ Readable => available \/ scheduled \/ waking

\* Every event is read once and in order, is still queued, or is counted as
\* lost; by the time the terminal is read, every loss has been reported and
\* the terminal's own count agrees.
EventsAccounted ==
    /\ put = delivered + Len(queue) + dropped
    /\ reported <= dropped /\ last <= put
    /\ \A i \in 1..Len(queue) : last < queue[i].item /\ queue[i].item <= put
    /\ \A i, j \in 1..Len(queue) : i < j => queue[i].item < queue[j].item
    /\ terminal # "none" => told = dropped
    /\ terminal = "delivered" => queue = <<>> /\ put = delivered + told /\ reported = told

\* Leaving the context: the operation is over; a failed cleanup is raised
\* whatever else happened; any other failure of the operation itself has been
\* raised to someone, or gave way to the body's exception or a cancellation.
FailureSurfaces ==
    exit # "open" =>
        /\ owner = "done" /\ operation # "running"
        /\ outcome = "cleanup" => exit = "cleanup"
        /\ exit = "none" =>
               \/ settled = "value" \/ raised
               \/ settled = "cancelled" /\ intentional

\* A reader for whom there is something to read returns with it.
ReaderServed ==
    \A t \in Tasks : at[t] = "waiting" /\ Readable ~> at[t] # "waiting"

\* A close ends, however often the closing task is cancelled again.
CloseEnds == \A t \in Tasks : at[t] = "closing" ~> at[t] # "closing"

\* Neither a reader with something to read nor a closing task waits for ever.
StreamServed == ReaderServed /\ CloseEnds
=============================================================================
