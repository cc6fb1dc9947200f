# A TLA+ verification of iperf3-lib

iperf3-lib runs the native iperf3 library in a child process per operation and
puts a Python interface around it: clients and servers, asyncio variants,
live event streams, and plans of many trials.  Its hard part is ownership: a
native run cannot be interrupted from within, so cancellation, deadlines and
failures have to be turned into the end of a process that somebody reaps on
every path.  The second hard part is honesty: what is captured from a native run
is bounded, can be lost or malformed, and must never become a measurement,
direction or verdict that the run did not have.  The modules here model both from
the code, and the schedulers in between.

Paths below are relative to `src/src/iperf3_lib/`.

## Inventory

| part | state | operations | interacts with | what is hard |
|---|---|---|---|---|
| `_cancellation._ExecutionControl` | first cause, completed, process, three events, cleanup error, reap callbacks, registry of unreaped controls | begin, request_cancel, abort, check, complete, register, wait_for_exit, close, when_reaped; owner and reaper threads | everything that runs a worker | five threads decide one verdict; every call on the process can fail; handing the release over to a reaper |
| `_cancellation._run_async` | a task, an executor future | await, cancel, drain | control, executor | cancellation before, during and after the invocation, repeated cancellation |
| `_execution.run_worker` | watchdog, reader thread, inbox, response validator, message loop | spawn, deliver, take results, continue a server, finish | child process, application callbacks | ordering between reader, loop and exit; callbacks that block |
| `_worker.execute`, `_event_capture` | outgoing queue, capture queue, document evidence, parser and writer threads | capture, parse, emit, publish, continue | native library, pipes | bounded queues with losses that have to be counted exactly; a loss ahead of what the parser has seen |
| `_ipc` | sequence numbers, BoundedFrameQueue, FrameDecoder | emit, accept, put, feed | both sides | limits for events and controls, gaps, streams cut anywhere |
| `_worker_lifetime` | parent-death signal | protect_parent | operating system | a parent that is already gone |
| `result`, `artifacts` | none | normalization, strict validation | worker, client | directions and settings from partial documents |
| `_event_stream.EventStream` | event queue, drop counters, terminal, owner task, wake-up flag | enter, iterate, result, close, put, wake, settle | pool thread, event loop | lost wake-ups, loss reports, exception precedence |
| `iperf_server.Server` | run lock, stop event | run_once, aserve_once, events_once, serve_forever, stop | control | admission after a failed cleanup |
| `concurrent_trials._Run` | pending, active, reservations, stop and termination, records | admit, consume, cancel, wait, finish | child tasks, clock | stale sums, batches, repeated cancellation, limits |
| `concurrent_reports` | none | validation of a history | `_Run` | must accept everything the scheduler can produce |
| `async_trials._Run`, `trials.run_plan`, `plan_reports` | stop reason, records, one child | pause, trial, drain | child task, clock | deadline, cancellation and outcome racing |
| `adaptive`, `adaptive_execution` | history of batches | choose, execute, replay | plans | termination and budgets over noisy results |
| `sweeps`, `analysis`, `assessments`, `reports`, `sweep_reports` | none | expand, analyse, decide, archive, read back | plans, artifacts | incomparable or unverified evidence; two implementations of the same rules |
| `intent`, `config`, `native_options`, `capabilities`, `exporters`, `ffi` | none, or data only | conversions, checks, bindings | | pure functions |

`PROJECT.json` lists every part with its status, and under `hazards` the lines
where something can go wrong that a test hardly reaches.

## Modules

How the modules build on each other:

```
OwnedWorker  <--refines--  ExecutionControl  <--extends--  AsyncOperation
     |                          |                                |
 ServerAdmission           WorkerProtocol            EventStream, ConcurrentPlan,
 (many calls, one lock)    (what the session          SequentialPlan (children and
                            carries)                  owners that end as it shows)
                                |                                |
                           FrameTransport                   AdaptiveUDP
                           (its bytes)

Normalization <--extends-- NativeRun
 (one document)            (from callbacks to an artifact)

Analysis <-- Assessments <-- Sweeps <-- EvidencePipeline
                           (from trials to archived reports)
```

A definition marked `mutant` in a comment is a plausible bug in the definition
below it, and is used by no specification; it shows that a property depends on
what the code does there.

**OwnedWorker** is the abstract promise of one isolated operation: at most one
child, one final verdict, one report to the caller, and admission that is given
back only when no child is live.  It has four variables and five actions.

**ExecutionControl** is the detailed specification: `_cancellation.py` driven by
`_execution.run_worker`, with the `finally` of `Server._run_once`.  The control's
fields are variables of the same names (`cause`, `completed`, `process`, `stop`,
`attempted`, `reaped`, `cleanupError`, `callbacks`), and `retained` is the
membership in the registry of unreaped controls.  `pc` places the two threads
that run cleanup code: the invoking thread and the shutdown owner (or background
reaper).  The watchdog, the reader, the clock, the child and a cancelling task
are actions of their own.  One step is one critical section under `_lock`, one
operation on a `threading.Event`, or one call on the process handle, and each
such call may raise.  `AsyncOperation` EXTENDS it with the task of `_run_async`.
`Interruptible` decides whether a `KeyboardInterrupt` may break the wait inside
`close()`.

**ServerAdmission** has any number of calls on one `Server`: `run_once`,
`serve_forever` (which loops until `stop()`), and the asyncio variants whose
control is handed in.  Each worker behaves as OwnedWorker allows; the module is
about the lock.  `Handed` separates the two ways a release is deferred.

**WorkerProtocol** has both ends of the session: `_worker.execute` with its
`EventCapture` parser thread and its writer, the bounded outgoing queue, a
bounded pipe, the parent's reader with `_Responses`, the bounded inbox, and the
message loop of `run_worker`.  A frame is its type, sequence number, run and the
counters the other side compares.  A child that crashes, whose writer is not
joined in time (`ExitUndrained`), or whose parser outlasts its join
(`ParserUnsettled`) ends without its terminal receipt; `worker.cut` remembers it.
The last of them is deliberate: an unsettled parser may still emit, so `execute`
sends neither an error nor a terminal frame and leaves an end of file to the
parent.

**EventStream** interleaves the operation's thread, which puts events under the
stream's lock, with the event loop: `_wake` in its two steps (clear the pending
flag, set the event), the owner task and its done callback, and tasks that
iterate, await `result()`, close, and are cancelled at every await.

**ConcurrentPlan** and **SequentialPlan** are the two asyncio schedulers.  Both
follow `run()` from await to await, with the child tasks stepping only while the
parent is at one (or eagerly, when the task factory does that).  Both contain
the strict validation of the report codec as a predicate, since the code calls it on
every history it hands out, the partial ones of an interrupted plan included.
In `ConcurrentPlan`, `scan` holds the local sums of `admit_ready`, so that a sum
can be stale; in `SequentialPlan`, `events` is the bounded prefix kept by
`_Events`.

**AdaptiveUDP** is the planner `_choose_v1` as a function of the history, with
the loop of `run_adaptive_udp` around it.  What a batch observes is any
combination of acceptable, lossy and invalid trials; a rate may be seen
acceptable in one batch and rejected in the next.  `UsedTrials`, `UsedActive` and
`UsedBits` are the three sums over the history that `_batch_v1` computes before it
admits another batch; **Sums** is the sum of a sequence, which `SequentialPlan`
uses for the recorded time too, and `ConcurrentPlan` for the rates of the active
trials.

**FrameTransport** carries the frames of WorkerProtocol as bytes: the writer's
partial writes, the pipe, `os.read` in chunks, `FrameDecoder`, and both budgets
of `BoundedFrameQueue`.  A byte is the frame it belongs to and its position, so a
frame assembled from the wrong bytes would show.  The child starts with
`protect_parent` and can be killed at any point, even inside a frame; the parent
can die.  `child.settled` tells a session that withholds its terminal frame from
an unsettled parser from one that had no room for it.

**NativeRun** follows one run from its callbacks to its artifact.  `capture` holds
the fields of `EventCapture`; the native thread admits or loses callbacks
(`Callback`), the parser takes them one by one (`Parse`), and the owner returns,
adds the getter's document, closes, joins, publishes, decodes and finishes, or
fails on the way (`JoinFails`, `JoinTimeout`, `ResultFails`).  The native library
may call back until the test is freed, which is before the close.  The
in-process route of `Client._run` with `BoundedDocumentCapture` is the second
value of `route`.  It EXTENDS **Normalization**, the operators of `result.py`
(role, mode, directions, summaries, CPU, effective settings, completeness) and the
predicate `ArtifactAccepts` of `artifacts.py`.

**Analysis**, **Assessments** and **Sweeps** are operators: the conclusions of
`analysis.py`, the decision of `assessments.py`, the expansion and summaries of
`sweeps.py`, and beside each of them the frozen rules of `reports.py` and
`sweep_reports.py`, written a second time as they are in the code.
**EvidencePipeline** is the state machine around them: `run_plan` trial by trial,
a caller that changes the evidence it holds, the assessment or summary, the
archive and its reader, and a result that grows interval by interval.

The `MC*` modules give values to constants that are functions, sequences or
records.  The other modules are checked directly by the `.cfg` of their name.

## Runs

All runs use `CHECK_DEADLOCK FALSE`: calls return, sessions end and plans finish,
and nothing happens after that.  Where it matters that they do end, the run has
a liveness property, which says more.

| run | states | bounds | what it shows |
|---|---|---|---|
| `control` | 72,627 | further cancellations are one flag; the rest of one operation is finite | Success, deadline and cancellation are exclusive and the call reports the one that won (`VerdictStands`). No child survives a call that does not report a cleanup error (`OwnershipReported`). Admission is released once, never beside a live child, and never lost between caller and reaper (`AdmissionExact`). The task never abandons started work and never hides a cancellation or a failed cleanup (`TaskSettled`). The child is stopped even while a callback blocks the caller (`ContainedDespiteCallback`), every abort ends the call and every exit gives admission back (`CallEnds`), a cancelled task ends (`CancelledTaskEnds`), and all of it implements `OwnedWorker` (`ImplementsOwnedWorker`). The task may be absent: the synchronous call. |
| `interrupt` | 26,028 | none | With interrupts in `close()` too, decisions are never replaced (`DecisionsAreFinal`). |
| `interrupt_release` | violated | none | See the finding below. |
| `server` | 3,010 | three calls, one of each kind | The lock has one holder and one worker is live (`ExclusiveAdmission`); admission comes back (`AdmissionReturns`). |
| `protocol` | 2,070,182 | 2 runs, 2 callbacks each, queues and pipe of one frame | No frame of a correct worker is ever rejected, and the transport fails only when its child was cut short or withheld its receipt (`HonestWorkerAccepted`), delivery receipts add up (`DeliveryAccounted`), a server run needs its permission and success means nothing was left behind (`RunsComplete`), and the two sides never wait for each other (`SessionEnds`). |
| `frames` | 135,381 | headers of 2 bytes, bodies of 1 or 2, 2 events, pipe and chunks of 4 bytes | Frames arrive whole and unaltered, and an end of file inside one is a truncation (`FramesExact`); the terminal frame finds room whatever the events take, and only an unsettled parser makes the child withhold it (`TerminalReserved`); an orphaned child stops (`OrphanStops`); the reader reaches a verdict (`StreamDecided`). |
| `native` | 706,226 | 3 callbacks, queue of 2 items and 4 units, 5 producers | The capture calls complete exactly what stands for the whole run (`CaptureIsHonest`), success is native success on both routes (`OutcomeIsNative`), no direction, endpoint or setting is invented (`NothingMisattributed`), strict validation accepts every result (`EvidenceAccepted`), and a returned run is published or reported (`RunSettles`). |
| `stream` | 397,652 | 2 tasks, 2 events of size 1 or 2, queue of 2 | No lost wake-up (`WaiterIsWoken`), every event delivered in order or counted (`EventsAccounted`), failures surface at the end of the context (`FailureSurfaces`), readers and closers are served (`StreamServed`). |
| `plan` | 1,144,676 | 4 trials, 2 cells, 2 workers, clock 0..2 | Every history passes validation (`HistoryAccepted`), limits hold at every instant and no child is lost (`ChildrenWithinLimits`), the scheduler waits only when it has to and for the right time (`WaitIsJustified`), outcomes are recorded before new trials start and a deadline ends the plan (`PlanAdvances`). |
| `sequential` | 993,897 | 3 trials, 2 callbacks each, one retained, clock 0..3 | The same for one child at a time (`TrialsOwned`, `DeadlineEndsPlan`). |
| `adaptive` | 47,490 | 5 experiments, grids of 2 or 3 rates up to 8 | Budgets hold over the whole experiment and no rate is tested twice (`SearchBounded`), and no more is reported than was confirmed (`ConservativeResult`). |
| `evidence` | 2,437,334 | plans of 3 trials, sweeps of up to 4, 9 kinds of evidence per trial, 4 sets of baselines, results of up to 3 intervals and 3 streams | The reader's frozen rules accept every report (`ArchiveAgrees`), a decision rests on enough comparable trials and the exact median (`DecisionSound`), cells hold only samples of their own verified settings (`SweepHonest`), and a complete analysis counts every instant once (`AnalysisHonest`). |

Why these bounds reach the interesting cases:

- `protocol`: with queues and pipe of one frame and two callbacks, each queue
  drops an event while the other one is full, empty or blocked; two runs are the
  least that have a continuation and a carried-over counter.
- `frames`: frames of three and four bytes against reads and a pipe of four, so
  that headers and bodies are cut at every place, and a control allowance computed by the
  formula of the code from the small sizes.
- `native`: three callbacks are a document, a loss and an event in every order;
  the limits are met by count and by size.  The producers differ in mode,
  protocol, endpoint and in what they contradict.
- `evidence`: two measured trials give even and odd numbers of eligible ones;
  three intervals give gap, overlap and contradiction on either side of one.
- `stream`: two events of two sizes fill the queue by count and by bytes; a
  second task is enough to compete with the one that owns the context.
- `plan`: four trials in two cells give order within a cell, a shared resource
  across cells, and a rate that admits one further trial but not two; the
  deadline comes after the elapsed limit, so both decide.
- `sequential`: runs are started with and without deadline, elapsed limit and
  `stop_on_error`, and three trials give a first, a middle and a last one.
- `adaptive`: the experiments were chosen so that each of the eight reasons to
  end occurs in some behaviour.

## Fairness

Liveness is claimed only from what threads and the event loop do anyway: a
thread that is not blocked runs, a timer fires, the loop runs what is ready.

- `control`: weak fairness of the invoking thread, the owner, the
  watchdog and the clock.  Nothing makes a callback return, a child exit or a
  signalled child die; the properties name these cases.
- `server`: weak fairness of a call's `finally` and of the reaper's callback.
  Nobody has to call, to spawn or to exit.
- `protocol`: weak fairness of the child's main thread, parser, writer, the
  reader and the message loop.  This includes that a native run and an
  application callback return; `control` covers the ones that do not.  Nothing
  makes an accident happen (`Accident`: a crash, a failing or unsettled parser, a
  writer that is not joined in time).
- `frames`: weak fairness of the two steps of `protect_parent`, which the
  interpreter runs first, and of the reader.  The writer, the native run and both
  processes' deaths are free.
- `native`: weak fairness of the parser and of the owner once the native call has
  returned.  Nothing makes it return.
- `stream`: weak fairness of each task's steps, wake-ups and the owner.  The
  operation has to return only after it was asked to (`asked /\ Return`), as
  `control` shows.
- `plan`, `sequential`: weak fairness of the parent and the clock, and strong
  fairness of starting a child and ending a cancelled one, because a parent that
  is cancelled again and again leaves its await and returns to it each time.
  That a cancelled child ends is `CancelledTaskEnds`.  No native run ends by
  itself.

## Proofs

The theorems hold for every value of the constants; the runs check the same
formulas on small ones.

- `ExecutionControlProofs`: the inductive invariant `IInv` of one operation
  (`Invariance`), and from it `TypeCorrect` and `VerdictStandsHolds`, and under
  `~Interruptible` `OwnershipReportedHolds`, `AdmissionExactHolds` and
  `ReleaseOnceAndSafelyHolds`.  Each combines theorems about its parts, some of
  which (`ReleaseNotLostHolds`, `FailureIsReportedHolds`) need no assumption.
  None of the properties is inductive: that a release is safe depends on what the
  thread that releases has seen before.
  `IInv` therefore says what each place in the code implies: who owns the child
  (`Ownership`), what a thread in the cleanup code may rely on (`Knows`, for
  each thread), how the control's events depend on each other (`Events`), what
  the invoking thread has decided (`Decisions`), and where the release can be
  (`Releases`).  `OneShutdownOwner`, in `Ownership`, keeps two threads out of
  the cleanup code at once.  `Refinement` shows that the operation implements
  `OwnedWorker` under `~Interruptible` (initial states map to initial states;
  each action is an abstract step or a stutter, from `IInv`), and
  `DecisionsAreFinalHolds` the action property, interrupted or not.  The task of `_run_async` restricts the operation and
  adds nothing to it (`AsyncImplementsOperation`), so the theorems above hold with
  the task too (`AsyncVerdictStands`, `AsyncOwnershipReported`,
  `AsyncAdmissionExact`, `AsyncRefinement`).  `TaskSettledHolds` needs no
  assumption on interrupts.  Its invariant adds what the task may rely on at each
  of its awaits (`TaskStage`), and that an invocation which has not begun owns
  nothing (`NotBegun`).
- `ServerAdmissionProofs`: `ExclusiveAdmissionHolds` (`LockHasOneHolder` and
  `OneLiveWorker`), for any set of calls.  The invariant adds what a call's place says about its
  worker, report and release (`Progress`), and that the call of a live worker
  holds the lock (`LiveIsHeld`).
- `EventStreamProofs`: `WaiterIsWokenHolds`, `EventsAccountedHolds` and
  `FailureSurfacesHolds`, for any tasks and limits.  The invariant adds that a
  pending flag means a scheduled wake-up (`FlagIsHonest`), that a terminal is
  reserved only when the operation can put nothing more (`Quiet`), and what the
  operation's outcome, the settled exception and a closing task know of each
  other (`Settlement`).
- `AdaptiveUDPProofs`: `SearchBoundedHolds` and `ConservativeResultHolds`, for
  any experiments that preparation accepts and any network.  `SearchInv` describes
  the history: one batch chose a rate and the others confirm it (`ChosenOnce`), and
  the decision at hand is what the planner makes of that history (`Decided`).
  From such a history the planner proposes the grid, the confirmation of a rate
  that still needs one, or a rate strictly between two tested ones
  (`ChooseShape`), so that no proposal repeats; an admitted proposal keeps the sums
  within the budgets.  That the gaps of an exhausted search are closed
  (`NothingSplittable`) takes the greatest tested rate with the outcome of the
  lower one, and the tested rate above it.
- `SequentialPlanProofs`: `TrialsOwnedHolds`, for any number of trials, deadlines,
  limits and pauses.  The validation of a finished history needs facts about
  every moment before: where `run()` may be with which child and which stop
  (`Position`, `Owned`), that a record agrees with its child and names the stop
  that won (`Recorded`), that a trial is only started after trials that call for
  no stop (`Open`), what a stop is owed to (`Stopped`), that a cancellation is
  due or has decided (`Asked`), and that the clock has passed the recorded time
  (`Clock`).
- `ConcurrentPlanProofs`: `HistoryAcceptedHolds`, `ChildrenWithinLimitsHolds`,
  `WaitIsJustifiedHolds` and `OutcomesBeforeAdmissionHolds`, for any plan that
  `prepare_concurrent_plan` accepts, with eager children or not.  That a finished
  history is valid rests on what holds all along: a record agrees with its child
  and names the first hard stop (`Entries`), each stop is owed to a record, a limit
  or a cancellation and precedes no admission (`Decisions`, `Causes`), admission
  indices count up and follow the predecessors of the cell (`Order`), and at every
  instant so far the open reservations are within the limits (`Reservations`).
  The last holds when a trial is admitted because the sums of `admit_ready` are
  then those of the active trials, an immediate outcome included (`Scanning`), and
  because no cleanup can be unconfirmed while admission is open
  (`OpenAdmission`).  A trial that the scan has passed stays obstructed until the
  parent waits (`Scanned`), which is what justifies the wait.
- `WorkerProtocolProofs`: `HonestWorkerAcceptedHolds`, `DeliveryAccountedHolds` and
  `RunsCompleteHolds`, for any number of runs, callbacks and queue slots, both
  roles, with and without legacy and live events, with a crash at any point, and
  with a parser or a writer that is not joined in time.
  None of the three is inductive: whether `_Responses.accept` takes a frame was
  decided when the child emitted it, several queues earlier.  `SessionInv`
  therefore speaks of the frames under way, in the child's queue and the pipe
  together, as a set whose order is that of the sequence numbers.  They are
  numbered without a gap although events are dropped (`Numbered`), and each type
  follows only those it may follow (`Ordered`).  What the reader will find is
  settled while they travel: phase and run (`Ahead`, `FinalPhase`), event numbers
  (`EventsAhead`), capture numbers and gaps (`LivesAhead`), and the counters of
  a result (`ResultAhead`).  What the child has yet to send keeps this true:
  its place (`Places`), its capture queue (`Captured`), and the counters that the
  next result will carry (`Counted`).  The parent's half: every event
  is delivered, lost, waiting or counted as dropped (`Accounts`, over the
  cardinalities of these sets), the two sides differ by at most one run and each
  place of the message loop says what they have exchanged (`Rounds`), and a
  transport fails only at the end of file of a session that was cut short, that
  is, crashed, not drained, or left without a receipt because its parser had not
  settled (`Endings`).
- `NumberLemmas` says nothing of the system; it holds the arithmetic that the
  proofs above rest on: what a sum, a minimum and a maximum are, for every input
  (`SumAppend`, `SumMonotone`, `SumChange`, `MaxIsGreatest`, `MinIsLeast`).  The
  library's induction theorems cannot be used by the installed provers; these
  inductions are by the least counterexample, from the well-foundedness of the
  natural numbers (`LeastNumber`).

Assumptions on constants are the named `ASSUME`s of the modules; no other fact
is assumed.

Only model-checked: every liveness property (fairness and `ENABLED` are out of
the prover's reach), the exact byte count of the stream's queue (a sum over
entries that are removed at the front), what the folds over callbacks, samples
and frames compute for every input (inductions over data), and the safety
properties of `FrameTransport`, `NativeRun` and `EvidencePipeline`, which speak of
what such folds compute or of finite tables of evidence.

## Finding

`interrupt_release`: a `KeyboardInterrupt` that arrives while a synchronous
`Server.run_once` waits inside `close()` leaves `run_worker` without an
`IperfCleanupError`, so `_run_once` finds no control to defer its release to and
releases the lock at once, whether or not the child has been reaped
(`iperf_server.py:144`).  Its docstring says ownership is retained until the
worker has ended (`iperf_server.py:124`).  The owner thread still stops and
reaps the child, so the overlap lasts as long as its cleanup attempt.  Without
such an interrupt the property is proved.

## Not modelled

- Data without control: configuration, native options, capabilities, live event
  types and exporters.
- The codecs of artifacts and reports.  What their readers validate and recompute
  is modelled; the JSON, text and JUnit renderings are not, and neither are the
  canonical encoding and sanitizing of evidence.
- Floating point: rates and times are whole numbers chosen so that the divisions
  of the code are exact.  Rounding and the dispersion figures are left out.
- `adaptive_reports`, and in `AdaptiveUDP` the validity of one trial, which is the
  environment's choice.
- `ffi` and the native library: foreign code, here callbacks, a return status and
  a getter.
- Release and qualification scripts: outside of the library.

## Plan

In the order of importance.  The first eight steps are done.

1. The owned operation: `OwnedWorker`, `ExecutionControl`, `AsyncOperation`, with
   the invariance and refinement proofs.
2. What carries it: `ServerAdmission`, `WorkerProtocol`, `EventStream`, with
   proofs for admission and stream.
3. What schedules it: `ConcurrentPlan`, `SequentialPlan`, `AdaptiveUDP`.
4. Bytes and lifetime: `FrameTransport`.
5. What a run is taken to have measured: `NativeRun`, `Normalization`.
6. What is concluded from many: `Analysis`, `Assessments`, `Sweeps`,
   `EvidencePipeline`.
7. Theorems about the task of `_run_async`, the adaptive search and both
   schedulers.
8. Theorems about the session: `HonestWorkerAccepted`, `DeliveryAccounted` and
   `RunsComplete` of `WorkerProtocol`.
9. Theorems about the bytes: `TerminalReserved` of `FrameTransport`.
10. The replay of adaptive histories against the planner that produced them.
