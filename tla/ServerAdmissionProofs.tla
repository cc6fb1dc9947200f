----------------------- MODULE ServerAdmissionProofs -----------------------
(***************************************************************************)
(* For every set of calls on one Server: the admission lock has exactly    *)
(* one holder while it is held, and at most one native worker is live.     *)
(***************************************************************************)
EXTENDS ServerAdmission, TLAPS

\* Where a call is bounds what its worker, its report and its deferred release
\* can be: nothing is spawned before admission, a clean report excludes a live
\* worker, and a release is deferred only by a call that has returned.
Progress(o) ==
    /\ at[o] \in {"idle", "rejected", "admitted"} => worker[o] = "none"
    /\ at[o] \in {"idle", "rejected", "admitted", "running"} => report[o] = "running"
    /\ report[o] = "clean" => worker[o] # "live"
    /\ release[o] # "none" => at[o] = "ended"
    /\ release[o] = "enrolled" => worker[o] = "live"
    /\ release[o] \in {"taken", "run"} => worker[o] = "gone"

\* A live worker belongs to a call that still holds admission.
LiveIsHeld == \A o \in Ops : worker[o] = "live" => Holds(o)

IInv ==
    /\ TypeOK
    /\ LockHasOneHolder
    /\ LiveIsHeld
    /\ \A o \in Ops : Progress(o)

\* Initially no call has been made.
LEMMA InitIInv == Init => IInv
<1> SUFFICES ASSUME Init PROVE IInv
  OBVIOUS
<1>1. TypeOK
  BY DEF Init, TypeOK, Places
<1>2. \A o \in Ops : at[o] = "idle" /\ worker[o] = "none" /\ report[o] = "running" /\ release[o] = "none"
  BY DEF Init
<1>3. LockHasOneHolder
  BY <1>2 DEF Init, LockHasOneHolder, Holds
<1>4. LiveIsHeld /\ \A o \in Ops : Progress(o)
  BY <1>2 DEF LiveIsHeld, Progress
<1> QED BY <1>1, <1>3, <1>4 DEF IInv

\* A call that takes the lock becomes its only holder: nobody held it before.
LEMMA AcquirePreserves ==
    ASSUME IInv, NEW o \in Ops, Call(o)
    PROVE  IInv'
<1>1. TypeOK'
  BY DEF IInv, TypeOK, Call, Move, Places
<1>2. (\A p \in Ops : Progress(p))' /\ LiveIsHeld'
  BY DEF IInv, TypeOK, LiveIsHeld, Progress, Holds, Call, Move
<1>3. LockHasOneHolder'
  <2>1. CASE CanAcquire
    <3>1. \A p \in Ops : ~Holds(p)
      BY <2>1 DEF IInv, LockHasOneHolder, CanAcquire
    <3>2. locked' /\ \A p \in Ops : Holds(p)' <=> p = o
      BY <2>1, <3>1 DEF IInv, TypeOK, Holds, Call, Move, CanAcquire
    <3> QED BY <3>2 DEF LockHasOneHolder
  <2>2. CASE ~CanAcquire
    <3>1. locked' = locked /\ \A p \in Ops : Holds(p)' <=> Holds(p)
      BY <2>2 DEF IInv, TypeOK, Holds, Call, Move, CanAcquire
    <3> QED BY <3>1 DEF IInv, LockHasOneHolder
  <2> QED BY <2>1, <2>2
<1> QED BY <1>1, <1>2, <1>3 DEF IInv

\* The steps of an admitted call leave the lock and its holder alone.
LEMMA WorkPreserves ==
    ASSUME IInv, NEW o \in Ops, Prepare(o) \/ Spawn(o) \/ Collect(o) \/ Conclude(o)
    PROVE  IInv'
<1>1. TypeOK'
  BY DEF IInv, TypeOK, Prepare, Spawn, Collect, Conclude, Move, Places, server
<1>2. locked' = locked /\ \A p \in Ops : Holds(p)' <=> Holds(p)
  BY DEF IInv, TypeOK, Progress, Holds, Prepare, Spawn, Collect, Conclude, Move, server
<1>3. LockHasOneHolder'
  BY <1>2 DEF IInv, LockHasOneHolder
<1>4. LiveIsHeld'
  BY <1>2 DEF IInv, TypeOK, LiveIsHeld, Holds, Prepare, Spawn, Collect, Conclude, Move, server
<1>5. \A p \in Ops : Progress(p)'
  BY DEF IInv, TypeOK, Progress, Prepare, Spawn, Collect, Conclude, Move, server
<1> QED BY <1>1, <1>3, <1>4, <1>5 DEF IInv

\* Only the holder releases, and it then holds nothing and has no live worker.
LEMMA ReleasePreserves ==
    ASSUME IInv, NEW o \in Ops, Finally(o) \/ Enroll(o) \/ RunRelease(o)
    PROVE  IInv'
<1>1. TypeOK'
  BY DEF IInv, TypeOK, Finally, Enroll, RunRelease, Move, Places
<1>2. \A p \in Ops : Progress(p)'
  BY DEF IInv, TypeOK, Progress, Finally, Enroll, RunRelease, Move
<1>3. Holds(o) /\ locked /\ \A p \in Ops : Holds(p) => p = o
  BY DEF IInv, LockHasOneHolder, Holds, Finally, Enroll, RunRelease, Move
<1>4. \A p \in Ops : p # o => (Holds(p)' <=> Holds(p))
  BY DEF IInv, TypeOK, Holds, Finally, Enroll, RunRelease, Move
<1>5. locked' <=> Holds(o)'
  BY <1>3 DEF IInv, TypeOK, Progress, Holds, Finally, Enroll, RunRelease, Move
<1>6. LockHasOneHolder'
  BY <1>3, <1>4, <1>5 DEF LockHasOneHolder
<1>7. worker' = worker /\ (worker[o] = "live" => Holds(o)')
  BY DEF IInv, TypeOK, Progress, Holds, Finally, Enroll, RunRelease, Move, ReleasesNow
<1>8. LiveIsHeld'
  BY <1>3, <1>4, <1>7 DEF IInv, LiveIsHeld
<1> QED BY <1>1, <1>2, <1>6, <1>8 DEF IInv

\* Every step of every call, and stop(), preserves the invariant.
LEMMA StepIInv == IInv /\ [Next]_vars => IInv'
<1> SUFFICES ASSUME IInv, [Next]_vars PROVE IInv'
  OBVIOUS
<1>1. CASE Stop
  BY <1>1 DEF Stop, IInv, TypeOK, LockHasOneHolder, LiveIsHeld, Progress, Holds
<1>2. ASSUME NEW o \in Ops, Step(o) PROVE IInv'
  BY <1>2, AcquirePreserves, WorkPreserves, ReleasePreserves DEF Step
<1>3. CASE UNCHANGED vars
  BY <1>3 DEF vars, IInv, TypeOK, LockHasOneHolder, LiveIsHeld, Progress, Holds
<1> QED BY <1>1, <1>2, <1>3 DEF Next

\* The invariant holds in every reachable state of any number of calls.
THEOREM Invariance == Spec => []IInv
  BY InitIInv, StepIInv, PTL DEF Spec

\* Server._run_lock is held exactly while one call is responsible for it, for
\* any number of concurrent calls and deferred releases.
THEOREM LockHasOneHolderHolds == Spec => []LockHasOneHolder
<1>1. IInv => LockHasOneHolder
  BY DEF IInv
<1> QED BY <1>1, Invariance, PTL

\* At most one native worker of a Server is live, whatever number of calls
\* compete and however many cleanups failed.
THEOREM OneLiveWorkerHolds == Spec => []OneLiveWorker
<1>1. IInv => OneLiveWorker
  BY DEF IInv, LockHasOneHolder, LiveIsHeld, OneLiveWorker
<1> QED BY <1>1, Invariance, PTL

\* The lock and the live worker are exclusive together, for any set of calls.
THEOREM ExclusiveAdmissionHolds == Spec => []ExclusiveAdmission
<1>1. LockHasOneHolder /\ OneLiveWorker => ExclusiveAdmission
  BY DEF ExclusiveAdmission
<1> QED BY <1>1, LockHasOneHolderHolds, OneLiveWorkerHolds, PTL
=============================================================================
