-------------------------- MODULE ServerAdmission --------------------------
(***************************************************************************)
(* iperf_server.Server: any number of threads and tasks call run_once,     *)
(* aserve_once and serve_forever on one instance.  A non-blocking lock     *)
(* admits one operation; its `finally` gives the lock back at once, or     *)
(* leaves that to whoever reaps the worker.  Each operation's worker       *)
(* behaves as OwnedWorker promises.                                        *)
(***************************************************************************)
EXTENDS Naturals

CONSTANTS
    Ops,        \* calls made on the Server
    Loops,      \* those that are serve_forever
    Handed      \* those whose control was handed in (aserve_once, events_once)

ASSUME LoopsAssumption == Loops \subseteq Ops /\ Handed \subseteq Ops \ Loops

VARIABLES
    locked,     \* Server._run_lock
    stopped,    \* Server._stop_event
    at,         \* where each call is
    worker,     \* its child: "none", "live", "gone"
    report,     \* "running", "clean", "unconfirmed"
    release     \* its deferred release: "none", "enrolled", "taken", "run"

server == <<locked, stopped>>
vars   == <<locked, stopped, at, worker, report, release>>

Places == {"idle", "rejected", "admitted", "running", "finally", "enroll", "ended"}

TypeOK ==
    /\ locked \in BOOLEAN /\ stopped \in BOOLEAN
    /\ at \in [Ops -> Places]
    /\ worker \in [Ops -> {"none", "live", "gone"}]
    /\ report \in [Ops -> {"running", "clean", "unconfirmed"}]
    /\ release \in [Ops -> {"none", "enrolled", "taken", "run"}]

Init ==
    /\ locked = FALSE /\ stopped = FALSE
    /\ at = [o \in Ops |-> "idle"]
    /\ worker = [o \in Ops |-> "none"]
    /\ report = [o \in Ops |-> "running"]
    /\ release = [o \in Ops |-> "none"]

Move(o, here, there) == at[o] = here /\ at' = [at EXCEPT ![o] = there]

CanAcquire == ~locked

\* _run_lock.acquire(blocking=False)
Call(o) ==
    /\ \/ CanAcquire /\ Move(o, "idle", "admitted") /\ locked' = TRUE
       \/ ~CanAcquire /\ Move(o, "idle", "rejected") /\ UNCHANGED locked
    /\ UNCHANGED <<stopped, worker, report, release>>

\* serve_forever returns without a worker when stop() came first; an invalid
\* configuration snapshot raises in either kind of call.
Prepare(o) ==
    /\ \/ Move(o, "admitted", "running") /\ ~(o \in Loops /\ stopped)
          /\ UNCHANGED report
       \/ Move(o, "admitted", "finally")
          /\ report' = [report EXCEPT ![o] = "clean"]
    /\ UNCHANGED <<server, worker, release>>

\* run_worker creates its child; should_stop and the cancellation are checked
\* before, and may change afterwards.
Spawn(o) ==
    /\ at[o] = "running" /\ worker[o] = "none"
    /\ worker' = [worker EXCEPT ![o] = "live"]
    /\ UNCHANGED <<server, at, report, release>>

CollectLosing(o) ==     \* mutant: a callback enrolled just before is dropped
    /\ worker[o] = "live"
    /\ worker' = [worker EXCEPT ![o] = "gone"]
    /\ release' = [release EXCEPT ![o] = "none"]
    /\ UNCHANGED <<server, at, report>>

\* The owner or the background reaper collects the exit and, in the same
\* critical section, takes the callbacks enrolled so far.
Collect(o) ==
    /\ worker[o] = "live"
    /\ worker' = [worker EXCEPT ![o] = "gone"]
    /\ release' = [release EXCEPT ![o] = IF @ = "enrolled" THEN "taken" ELSE @]
    /\ UNCHANGED <<server, at, report>>

\* run_worker returns or raises; only a cleanup error leaves a live child.
Conclude(o) ==
    /\ Move(o, "running", "finally")
    /\ \/ worker[o] # "live" /\ report' = [report EXCEPT ![o] = "clean"]
       \/ worker[o] # "none" /\ report' = [report EXCEPT ![o] = "unconfirmed"]
    /\ UNCHANGED <<server, worker, release>>

ConfirmedAlways(o) == TRUE     \* mutant: a cleanup failure also releases

\* release_control is None for a call that made its own control and raised no
\* cleanup error; otherwise cleanup_confirmed decides.
ReleasesNow(o) ==
    \/ o \notin Handed /\ report[o] = "clean"
    \/ worker[o] # "live"

\* The `finally` of _run_once and serve_forever
Finally(o) ==
    /\ \/ ReleasesNow(o) /\ Move(o, "finally", "ended") /\ locked' = FALSE
       \/ ~ReleasesNow(o) /\ Move(o, "finally", "enroll") /\ UNCHANGED locked
    /\ UNCHANGED <<stopped, worker, report, release>>

\* when_reaped(_run_lock.release): the child may be gone by now.
Enroll(o) ==
    /\ Move(o, "enroll", "ended")
    /\ \/ worker[o] = "live" /\ release' = [release EXCEPT ![o] = "enrolled"]
          /\ UNCHANGED locked
       \/ worker[o] # "live" /\ locked' = FALSE /\ UNCHANGED release
    /\ UNCHANGED <<stopped, worker, report>>

\* The reaper runs the callback it took.
RunRelease(o) ==
    /\ release[o] = "taken"
    /\ release' = [release EXCEPT ![o] = "run"]
    /\ locked' = FALSE
    /\ UNCHANGED <<stopped, at, worker, report>>

Stop ==
    /\ stopped' = TRUE
    /\ UNCHANGED <<locked, at, worker, report, release>>

Step(o) ==
    \/ Call(o) \/ Prepare(o) \/ Spawn(o) \/ Collect(o) \/ Conclude(o)
    \/ Finally(o) \/ Enroll(o) \/ RunRelease(o)

Next == Stop \/ \E o \in Ops : Step(o)

\* A `finally` and a reaper's callback run; nobody has to call, to spawn, to
\* stop or to exit: a server may wait for its peer for ever.
Fairness == \A o \in Ops : WF_vars(Finally(o) \/ Enroll(o) \/ RunRelease(o))

Spec == Init /\ [][Next]_vars /\ Fairness

-----------------------------------------------------------------------------
\* A call holds admission from its acquire until it or the reaper releases.
Holds(o) ==
    \/ at[o] \in {"admitted", "running", "finally", "enroll"}
    \/ release[o] \in {"enrolled", "taken"}

\* The lock is held for exactly one reason at a time: it is never released
\* twice, never released for somebody else, and never left behind.
LockHasOneHolder ==
    /\ locked <=> \E o \in Ops : Holds(o)
    /\ \A a, b \in Ops : Holds(a) /\ Holds(b) => a = b

\* A Server never has two live native workers, even when the cleanup of one
\* failed and its call has long returned; the live one's call holds the lock.
OneLiveWorker ==
    \A a \in Ops : worker[a] = "live" =>
        locked /\ \A b \in Ops : worker[b] = "live" => a = b

\* Server._run_lock has one reason at a time, and with it at most one worker
\* of a Server is live.
ExclusiveAdmission == LockHasOneHolder /\ OneLiveWorker

\* Admission comes back: once the operation of a call is over and its child is
\* gone, or was never created, the lock is free or has passed to another call.
\* Neither the `finally` nor the reaper leaves the release to the other.
Over(o) == at[o] \in {"finally", "enroll", "ended"} /\ worker[o] # "live"

AdmissionReturns ==
    \A o \in Ops : Over(o) ~> ~locked \/ \E other \in Ops \ {o} : Holds(other)
=============================================================================
