----------------------- MODULE ExecutionControlProofs -----------------------
(***************************************************************************)
(* The safety of ExecutionControl, proved for uninterrupted and for        *)
(* interruptible callers.  The inductive invariant says, for each place a  *)
(* thread can be, what the control already knows there.                    *)
(*                                                                         *)
(* An asyncio task neither widens nor narrows what one operation may do:   *)
(* every behaviour of AsyncOperation is one of ExecutionControl, so all    *)
(* that is proved there holds under a task.  What the task adds is proved  *)
(* from an invariant of its own: how far the invocation has come decides   *)
(* what the task may have raised.                                          *)
(***************************************************************************)
EXTENDS AsyncOperation, TLAPS

BeforeSpawn == {"queued", "start", "spawn"}
Serving     == {"arm", "loop", "callback", "exitwait", "verdict", "commit"}
Trying      == {"poll", "terminate", "grace", "kill", "killwait", "recheck", "fail"}
Marking     == {"mark", "callbacks", "attempted"}
Finishing   == {"close", "await", "settle"} \cup CleanupPCs
Unattended  == BeforeSpawn \cup {"register", "raise", "close"}
EndPlaces   == {"release", "enroll", "done"}

\* Who owns the child: nobody before the spawn, the control from register()
\* on, and never two threads that shut it down.
Ownership ==
    /\ pc["caller"] \in BeforeSpawn \cup {"register"} => ~process
    /\ pc["caller"] \in Serving => process /\ pc["owner"] # "off"
    /\ pc["caller"] \in Finishing \cup {"raise"} => process
    /\ process \/ pc["caller"] = "register" => child # "none"
    /\ ~process => pc["owner"] = "off"
    /\ ~process /\ pc["caller"] # "register" => child = "none"
    /\ pc["owner"] = "off" /\ pc["caller"] \in Unattended
           => ~reaped /\ ~attempted /\ ~cleanupError
    /\ OneShutdownOwner

\* What a thread inside _supervise, _stop_process, _reap_later or
\* _mark_reaped may rely on.
Knows(t) ==
    /\ pc[t] \in Trying \cup {"watch"} => ~reaped /\ ~attempted /\ ~cleanupError
    /\ pc[t] \in Trying \cup {"report", "handoff", "reap"} => stop
    /\ pc[t] = "report" => ~reaped /\ ~attempted /\ cleanupError /\ retained
    /\ pc[t] \in {"handoff", "reap"} => ~reaped /\ attempted /\ cleanupError /\ retained
    /\ pc[t] \in Marking => child = "collected"
    /\ pc[t] = "mark" => ~reaped
    /\ pc[t] \in {"callbacks", "attempted"} => reaped
    /\ pc[t] = "attempted" => ~retained
    /\ pc[t] = "end" => reaped /\ attempted /\ ~retained

\* How the events of the control are related.
Events ==
    /\ reaped => child = "collected"
    /\ attempted => reaped \/ (cleanupError /\ retained)
    /\ retained => cleanupError
    /\ retained /\ reaped => \E t \in Threads : pc[t] = "callbacks"
    /\ cleanupError => cause # "none"
    /\ cause # "none" => stop
    /\ stop => cause # "none" \/ completed
    /\ completed => cause = "none" /\ reaped
    /\ pc["caller"] = "settle" => attempted
    /\ pc["caller"] = "await" /\ pc["owner"] = "off" => attempted

\* What the invoking thread has decided at each place.
Decisions ==
    /\ pc["caller"] \in BeforeSpawn \cup {"register", "raise"} \cup Serving
           => ~completed /\ outcome = "none"
    /\ pc["caller"] = "queued" => given /\ ~started
    /\ pc["caller"] \in {"verdict", "commit"} => reaped
    /\ pc["caller"] \in Finishing =>
           \/ completed /\ outcome = "success"
           \/ ~completed /\ cause # "none" /\ outcome = cause
    /\ outcome = "interrupt" => Interruptible
    /\ outcome \in {"interrupt", "cleanup"} => pc["caller"] \in EndPlaces
    /\ Ended /\ process /\ outcome \notin {"cleanup", "interrupt"} => reaped

\* The release of admission is nowhere twice and never too early.
Releases ==
    /\ pc["caller"] # "done" => released = 0 /\ callbacks = 0 /\ taken = 0
    /\ released + callbacks + taken <= 1
    /\ callbacks > 0 => process /\ ~reaped
    /\ taken > 0 => \E t \in Threads : pc[t] = "callbacks"
    /\ ~Interruptible /\ released > 0 => child \in {"none", "collected"}

IInv ==
    /\ TypeOK /\ Ownership /\ Knows("caller") /\ Knows("owner")
    /\ Events /\ Decisions /\ OutcomeIsVerdict /\ Releases /\ ReleaseNotLost

USE DEF BeforeSpawn, Unattended, Serving, Trying, Marking, Finishing, EndPlaces,
        CleanupPCs, CallerPCs, OwnerPCs, Threads, Causes, control, session, result,
        At, Goto, Step

-----------------------------------------------------------------------------
\* No thread has run: nothing is owned, known or decided.
LEMMA InitIInv == Init => IInv
<1> SUFFICES ASSUME Init PROVE IInv
  OBVIOUS
<1>1. /\ pc["owner"] = "off"
      /\ pc["caller"] = IF given THEN "queued" ELSE "start"
  BY DEF Init
<1>2. TypeOK
  BY <1>1 DEF Init, TypeOK
<1>3. Ownership /\ Knows("caller") /\ Knows("owner") /\ Events
  BY <1>1 DEF Init, Ownership, OneShutdownOwner, Knows, Events
<1>4. Decisions /\ OutcomeIsVerdict /\ Releases /\ ReleaseNotLost
  BY <1>1 DEF Init, Decisions, OutcomeIsVerdict, Ended, Releases, ReleaseNotLost
<1> QED BY <1>2, <1>3, <1>4 DEF IInv

\* abort() stores a cause and sets the stop event, or does nothing.
LEMMA AbortTypes ==
    ASSUME TypeOK, NEW c \in Causes, Abort(c)
    PROVE  cause' \in Causes \cup {"none"} /\ stop' \in BOOLEAN
<1>1. CASE ~completed /\ cause = "none"
  BY <1>1 DEF Abort
<1>2. CASE ~(~completed /\ cause = "none")
  BY <1>2 DEF TypeOK, Abort
<1> QED BY <1>1, <1>2

\* begin() refuses an invocation once a cause is set and touches nothing else.
LEMMA BeginStep ==
    ASSUME IInv, Begin
    PROVE  IInv'
<1>1. TypeOK'
  <2>1. CASE cause = "none"
    BY <2>1 DEF IInv, TypeOK, Begin
  <2>2. CASE ~(cause = "none")
    BY <2>2 DEF IInv, TypeOK, Begin
  <2> QED BY <2>1, <2>2
<1>2. (Ownership /\ Knows("caller") /\ Knows("owner") /\ Events)'
  BY DEF IInv, TypeOK, Ownership, OneShutdownOwner, Knows, Events, Decisions, Begin
<1>3. (Decisions /\ OutcomeIsVerdict)'
  BY DEF IInv, TypeOK, Ownership, Knows, Events, Decisions,
         OutcomeIsVerdict, Ended, Begin
<1>4. (Releases /\ ReleaseNotLost)'
  BY DEF IInv, TypeOK, Ownership, OneShutdownOwner, Knows, Events, Decisions,
         Releases, ReleaseNotLost, Ended, Admitted, Begin
<1> QED BY <1>1, <1>2, <1>3, <1>4 DEF IInv

\* Before the spawn the call can only end without a child.
LEMMA StartStep ==
    ASSUME IInv, Start
    PROVE  IInv'
<1>1. TypeOK'
  BY DEF IInv, TypeOK, Start
<1>2. (Ownership /\ Knows("caller") /\ Knows("owner") /\ Events)'
  BY DEF IInv, TypeOK, Ownership, OneShutdownOwner, Knows, Events, Decisions, Start
<1>3. (Decisions /\ OutcomeIsVerdict)'
  BY DEF IInv, TypeOK, Ownership, Knows, Events, Decisions,
         OutcomeIsVerdict, Ended, Start
<1>4. (Releases /\ ReleaseNotLost)'
  BY DEF IInv, TypeOK, Ownership, OneShutdownOwner, Knows, Events, Decisions,
         Releases, ReleaseNotLost, Ended, Admitted, Start
<1> QED BY <1>1, <1>2, <1>3, <1>4 DEF IInv

\* The spawn is the only step that creates a child.
LEMMA SpawnStep ==
    ASSUME IInv, Spawn
    PROVE  IInv'
<1>1. TypeOK'
  BY DEF IInv, TypeOK, Spawn
<1>2. (Ownership /\ Knows("caller") /\ Knows("owner") /\ Events)'
  BY DEF IInv, TypeOK, Ownership, OneShutdownOwner, Knows, Events, Decisions, Spawn
<1>3. (Decisions /\ OutcomeIsVerdict)'
  BY DEF IInv, TypeOK, Ownership, Knows, Events, Decisions,
         OutcomeIsVerdict, Ended, Spawn
<1>4. (Releases /\ ReleaseNotLost)'
  BY DEF IInv, TypeOK, Ownership, OneShutdownOwner, Knows, Events, Decisions,
         Releases, ReleaseNotLost, Ended, Admitted, Spawn
<1> QED BY <1>1, <1>2, <1>3, <1>4 DEF IInv

\* register() makes the control the owner, with or without a thread.
LEMMA RegisterStep ==
    ASSUME IInv, Register
    PROVE  IInv'
<1>1. TypeOK'
  BY DEF IInv, TypeOK, Register
<1>2. (Ownership /\ Knows("caller") /\ Knows("owner") /\ Events)'
  <2>1. CASE pc' = [pc EXCEPT !["caller"] = "arm", !["owner"] = "watch"]
    BY <2>1 DEF IInv, TypeOK, Ownership, OneShutdownOwner, Knows, Events, Decisions, Register
  <2>2. CASE Goto("caller", "raise")
    BY <2>2 DEF IInv, TypeOK, Ownership, OneShutdownOwner, Knows, Events, Decisions, Register
  <2> QED BY <2>1, <2>2 DEF Register
<1>3. (Decisions /\ OutcomeIsVerdict)'
  BY DEF IInv, TypeOK, Ownership, Knows, Events, Decisions,
         OutcomeIsVerdict, Ended, Register
<1>4. (Releases /\ ReleaseNotLost)'
  BY DEF IInv, TypeOK, Ownership, OneShutdownOwner, Knows, Events, Decisions,
         Releases, ReleaseNotLost, Ended, Admitted, Register
<1> QED BY <1>1, <1>2, <1>3, <1>4 DEF IInv

\* Starting the watchdog and the reader changes no ownership.
LEMMA ArmStep ==
    ASSUME IInv, Arm
    PROVE  IInv'
<1>1. TypeOK'
  BY DEF IInv, TypeOK, Arm
<1>2. (Ownership /\ Knows("caller") /\ Knows("owner") /\ Events)'
  BY DEF IInv, TypeOK, Ownership, OneShutdownOwner, Knows, Events, Decisions, Arm
<1>3. (Decisions /\ OutcomeIsVerdict)'
  BY DEF IInv, TypeOK, Ownership, Knows, Events, Decisions,
         OutcomeIsVerdict, Ended, Arm
<1>4. (Releases /\ ReleaseNotLost)'
  BY DEF IInv, TypeOK, Ownership, OneShutdownOwner, Knows, Events, Decisions,
         Releases, ReleaseNotLost, Ended, Admitted, Arm
<1> QED BY <1>1, <1>2, <1>3, <1>4 DEF IInv

\* The loop leaves with a cause or with the reader's end of file.
LEMMA LoopStep ==
    ASSUME IInv, Loop
    PROVE  IInv'
<1>1. TypeOK'
  <2>1. CASE UNCHANGED <<cause, stop>>
    BY <2>1 DEF IInv, TypeOK, Loop
  <2>2. CASE Abort("timeout")
    <3>1. cause' \in Causes \cup {"none"} /\ stop' \in BOOLEAN
      BY <2>2, AbortTypes DEF IInv
    <3> QED BY <3>1 DEF IInv, TypeOK, Loop
  <2> QED BY <2>1, <2>2 DEF Loop
<1>2. (Ownership /\ Knows("caller") /\ Knows("owner") /\ Events)'
  BY DEF IInv, TypeOK, Ownership, OneShutdownOwner, Knows, Events, Decisions, Loop, Abort
<1>3. (Decisions /\ OutcomeIsVerdict)'
  BY DEF IInv, TypeOK, Ownership, Knows, Events, Decisions,
         OutcomeIsVerdict, Ended, Loop, Abort
<1>4. (Releases /\ ReleaseNotLost)'
  BY DEF IInv, TypeOK, Ownership, OneShutdownOwner, Knows, Events, Decisions,
         Releases, ReleaseNotLost, Ended, Admitted, Loop, Abort
<1> QED BY <1>1, <1>2, <1>3, <1>4 DEF IInv

\* Callbacks change nothing the control knows.
LEMMA DeliverStep ==
    ASSUME IInv, Deliver
    PROVE  IInv'
<1>1. TypeOK'
  BY DEF IInv, TypeOK, Deliver
<1>2. (Ownership /\ Knows("caller") /\ Knows("owner") /\ Events)'
  BY DEF IInv, TypeOK, Ownership, OneShutdownOwner, Knows, Events, Decisions, Deliver
<1>3. (Decisions /\ OutcomeIsVerdict)'
  BY DEF IInv, TypeOK, Ownership, Knows, Events, Decisions,
         OutcomeIsVerdict, Ended, Deliver
<1>4. (Releases /\ ReleaseNotLost)'
  BY DEF IInv, TypeOK, Ownership, OneShutdownOwner, Knows, Events, Decisions,
         Releases, ReleaseNotLost, Ended, Admitted, Deliver
<1> QED BY <1>1, <1>2, <1>3, <1>4 DEF IInv

\* Nor does their return.
LEMMA CallbackReturnsStep ==
    ASSUME IInv, CallbackReturns
    PROVE  IInv'
<1>1. TypeOK'
  BY DEF IInv, TypeOK, CallbackReturns
<1>2. (Ownership /\ Knows("caller") /\ Knows("owner") /\ Events)'
  BY DEF IInv, TypeOK, Ownership, OneShutdownOwner, Knows, Events, Decisions, CallbackReturns
<1>3. (Decisions /\ OutcomeIsVerdict)'
  BY DEF IInv, TypeOK, Ownership, Knows, Events, Decisions,
         OutcomeIsVerdict, Ended, CallbackReturns
<1>4. (Releases /\ ReleaseNotLost)'
  BY DEF IInv, TypeOK, Ownership, OneShutdownOwner, Knows, Events, Decisions,
         Releases, ReleaseNotLost, Ended, Admitted, CallbackReturns
<1> QED BY <1>1, <1>2, <1>3, <1>4 DEF IInv

\* An exception in the loop only moves the caller.
LEMMA LoopFailsStep ==
    ASSUME IInv, LoopFails
    PROVE  IInv'
<1>1. TypeOK'
  BY DEF IInv, TypeOK, LoopFails
<1>2. (Ownership /\ Knows("caller") /\ Knows("owner") /\ Events)'
  BY DEF IInv, TypeOK, Ownership, OneShutdownOwner, Knows, Events, Decisions, LoopFails
<1>3. (Decisions /\ OutcomeIsVerdict)'
  BY DEF IInv, TypeOK, Ownership, Knows, Events, Decisions,
         OutcomeIsVerdict, Ended, LoopFails
<1>4. (Releases /\ ReleaseNotLost)'
  BY DEF IInv, TypeOK, Ownership, OneShutdownOwner, Knows, Events, Decisions,
         Releases, ReleaseNotLost, Ended, Admitted, LoopFails
<1> QED BY <1>1, <1>2, <1>3, <1>4 DEF IInv

\* Only a reaped child lets the caller on to the verdict.
LEMMA ExitWaitStep ==
    ASSUME IInv, ExitWait
    PROVE  IInv'
<1>1. TypeOK'
  BY DEF IInv, TypeOK, ExitWait, ExitSeen
<1>2. (Ownership /\ Knows("caller") /\ Knows("owner") /\ Events)'
  BY DEF IInv, TypeOK, Ownership, OneShutdownOwner, Knows, Events, Decisions, ExitWait, ExitSeen
<1>3. (Decisions /\ OutcomeIsVerdict)'
  BY DEF IInv, TypeOK, Ownership, Knows, Events, Decisions,
         OutcomeIsVerdict, Ended, ExitWait, ExitSeen
<1>4. (Releases /\ ReleaseNotLost)'
  BY DEF IInv, TypeOK, Ownership, OneShutdownOwner, Knows, Events, Decisions,
         Releases, ReleaseNotLost, Ended, Admitted, ExitWait, ExitSeen
<1> QED BY <1>1, <1>2, <1>3, <1>4 DEF IInv

\* The last check may still find a cause.
LEMMA VerdictStep ==
    ASSUME IInv, Verdict
    PROVE  IInv'
<1>1. TypeOK'
  <2>1. CASE UNCHANGED <<cause, stop>>
    BY <2>1 DEF IInv, TypeOK, Verdict
  <2>2. CASE Abort("timeout")
    <3>1. cause' \in Causes \cup {"none"} /\ stop' \in BOOLEAN
      BY <2>2, AbortTypes DEF IInv
    <3> QED BY <3>1 DEF IInv, TypeOK, Verdict
  <2> QED BY <2>1, <2>2 DEF Verdict
<1>2. (Ownership /\ Knows("caller") /\ Knows("owner") /\ Events)'
  BY DEF IInv, TypeOK, Ownership, OneShutdownOwner, Knows, Events, Decisions, Verdict, Abort
<1>3. (Decisions /\ OutcomeIsVerdict)'
  BY DEF IInv, TypeOK, Ownership, Knows, Events, Decisions,
         OutcomeIsVerdict, Ended, Verdict, Abort
<1>4. (Releases /\ ReleaseNotLost)'
  BY DEF IInv, TypeOK, Ownership, OneShutdownOwner, Knows, Events, Decisions,
         Releases, ReleaseNotLost, Ended, Admitted, Verdict, Abort
<1> QED BY <1>1, <1>2, <1>3, <1>4 DEF IInv

\* complete() commits only without a cause, for a reaped child.
LEMMA CompleteStep ==
    ASSUME IInv, Complete
    PROVE  IInv'
<1>1. TypeOK'
  <2>1. CASE MayComplete
    BY <2>1 DEF IInv, TypeOK, Complete
  <2>2. CASE ~(MayComplete)
    BY <2>2 DEF IInv, TypeOK, Complete
  <2> QED BY <2>1, <2>2
<1>2. (Ownership /\ Knows("caller") /\ Knows("owner") /\ Events)'
  BY DEF IInv, TypeOK, Ownership, OneShutdownOwner, Knows, Events, Decisions, Complete, MayComplete
<1>3. (Decisions /\ OutcomeIsVerdict)'
  BY DEF IInv, TypeOK, Ownership, Knows, Events, Decisions,
         OutcomeIsVerdict, Ended, Complete, MayComplete
<1>4. (Releases /\ ReleaseNotLost)'
  BY DEF IInv, TypeOK, Ownership, OneShutdownOwner, Knows, Events, Decisions,
         Releases, ReleaseNotLost, Ended, Admitted, Complete, MayComplete
<1> QED BY <1>1, <1>2, <1>3, <1>4 DEF IInv

\* The except clause makes sure that a cause exists.
LEMMA RaiseStep ==
    ASSUME IInv, Raise
    PROVE  IInv'
<1>1. TypeOK'
  <2>1. cause' \in Causes \cup {"none"} /\ stop' \in BOOLEAN
    BY AbortTypes DEF IInv, Raise
  <2>2. outcome' = cause'
    BY DEF Raise
  <2> QED BY <2>1, <2>2 DEF IInv, TypeOK, Raise
<1>2. (Ownership /\ Knows("caller") /\ Knows("owner") /\ Events)'
  BY DEF IInv, TypeOK, Ownership, OneShutdownOwner, Knows, Events, Decisions, Raise, Abort
<1>3. (Decisions /\ OutcomeIsVerdict)'
  BY DEF IInv, TypeOK, Ownership, Knows, Events, Decisions,
         OutcomeIsVerdict, Ended, Raise, Abort
<1>4. (Releases /\ ReleaseNotLost)'
  BY DEF IInv, TypeOK, Ownership, OneShutdownOwner, Knows, Events, Decisions,
         Releases, ReleaseNotLost, Ended, Admitted, Raise, Abort
<1> QED BY <1>1, <1>2, <1>3, <1>4 DEF IInv

\* close() sets stop with a decision made, and takes over without an owner.
LEMMA CloseStep ==
    ASSUME IInv, Close
    PROVE  IInv'
<1>1. TypeOK'
  BY DEF IInv, TypeOK, Close
<1>2. (Ownership /\ Knows("caller") /\ Knows("owner") /\ Events)'
  BY DEF IInv, TypeOK, Ownership, OneShutdownOwner, Knows, Events, Decisions, Close
<1>3. (Decisions /\ OutcomeIsVerdict)'
  BY DEF IInv, TypeOK, Ownership, Knows, Events, Decisions,
         OutcomeIsVerdict, Ended, Close
<1>4. (Releases /\ ReleaseNotLost)'
  BY DEF IInv, TypeOK, Ownership, OneShutdownOwner, Knows, Events, Decisions,
         Releases, ReleaseNotLost, Ended, Admitted, Close
<1> QED BY <1>1, <1>2, <1>3, <1>4 DEF IInv

\* close() returns from its wait only after an attempt.
LEMMA AwaitStep ==
    ASSUME IInv, Await
    PROVE  IInv'
<1>1. TypeOK'
  BY DEF IInv, TypeOK, Await
<1>2. (Ownership /\ Knows("caller") /\ Knows("owner") /\ Events)'
  BY DEF IInv, TypeOK, Ownership, OneShutdownOwner, Knows, Events, Decisions, Await
<1>3. (Decisions /\ OutcomeIsVerdict)'
  BY DEF IInv, TypeOK, Ownership, Knows, Events, Decisions,
         OutcomeIsVerdict, Ended, Await
<1>4. (Releases /\ ReleaseNotLost)'
  BY DEF IInv, TypeOK, Ownership, OneShutdownOwner, Knows, Events, Decisions,
         Releases, ReleaseNotLost, Ended, Admitted, Await
<1> QED BY <1>1, <1>2, <1>3, <1>4 DEF IInv

\* An interrupt leaves the wait early.
LEMMA InterruptCloseStep ==
    ASSUME IInv, InterruptClose
    PROVE  IInv'
<1>1. TypeOK'
  BY DEF IInv, TypeOK, InterruptClose
<1>2. (Ownership /\ Knows("caller") /\ Knows("owner") /\ Events)'
  BY DEF IInv, TypeOK, Ownership, OneShutdownOwner, Knows, Events, Decisions, InterruptClose
<1>3. (Decisions /\ OutcomeIsVerdict)'
  BY DEF IInv, TypeOK, Ownership, Knows, Events, Decisions,
         OutcomeIsVerdict, Ended, InterruptClose
<1>4. (Releases /\ ReleaseNotLost)'
  BY DEF IInv, TypeOK, Ownership, OneShutdownOwner, Knows, Events, Decisions,
         Releases, ReleaseNotLost, Ended, Admitted, InterruptClose
<1> QED BY <1>1, <1>2, <1>3, <1>4 DEF IInv

\* An attempt without cleanup error has reaped the child.
LEMMA SettleStep ==
    ASSUME IInv, Settle
    PROVE  IInv'
<1>1. TypeOK'
  BY DEF IInv, TypeOK, Settle, CloseRaises
<1>2. (Ownership /\ Knows("caller") /\ Knows("owner") /\ Events)'
  BY DEF IInv, TypeOK, Ownership, OneShutdownOwner, Knows, Events, Decisions, Settle, CloseRaises
<1>3. (Decisions /\ OutcomeIsVerdict)'
  BY DEF IInv, TypeOK, Ownership, Knows, Events, Decisions,
         OutcomeIsVerdict, Ended, Settle, CloseRaises
<1>4. (Releases /\ ReleaseNotLost)'
  BY DEF IInv, TypeOK, Ownership, OneShutdownOwner, Knows, Events, Decisions,
         Releases, ReleaseNotLost, Ended, Admitted, Settle, CloseRaises
<1> QED BY <1>1, <1>2, <1>3, <1>4 DEF IInv

\* A release by the caller needs a collected child, unless it was interrupted.
LEMMA ReleaseStep ==
    ASSUME IInv, Release
    PROVE  IInv'
<1>1. TypeOK'
  BY DEF IInv, TypeOK, Release, Confirmed
<1>2. (Ownership /\ Knows("caller") /\ Knows("owner") /\ Events)'
  BY DEF IInv, TypeOK, Ownership, OneShutdownOwner, Knows, Events, Decisions, Release, Confirmed
<1>3. (Decisions /\ OutcomeIsVerdict)'
  BY DEF IInv, TypeOK, Ownership, Knows, Events, Decisions,
         OutcomeIsVerdict, Ended, Release, Confirmed
<1>4. (Releases /\ ReleaseNotLost)'
  BY DEF IInv, TypeOK, Ownership, OneShutdownOwner, Knows, Events, Decisions,
         Releases, ReleaseNotLost, Ended, Admitted, Release, Confirmed
<1> QED BY <1>1, <1>2, <1>3, <1>4 DEF IInv

\* Enrolling re-reads the event under the lock.
LEMMA WhenReapedStep ==
    ASSUME IInv, WhenReaped
    PROVE  IInv'
<1>1. TypeOK'
  BY DEF IInv, TypeOK, WhenReaped, AwaitsReap
<1>2. (Ownership /\ Knows("caller") /\ Knows("owner") /\ Events)'
  BY DEF IInv, TypeOK, Ownership, OneShutdownOwner, Knows, Events, Decisions, WhenReaped, AwaitsReap
<1>3. (Decisions /\ OutcomeIsVerdict)'
  BY DEF IInv, TypeOK, Ownership, Knows, Events, Decisions,
         OutcomeIsVerdict, Ended, WhenReaped, AwaitsReap
<1>4. (Releases /\ ReleaseNotLost)'
  BY DEF IInv, TypeOK, Ownership, OneShutdownOwner, Knows, Events, Decisions,
         Releases, ReleaseNotLost, Ended, Admitted, WhenReaped, AwaitsReap
<1> QED BY <1>1, <1>2, <1>3, <1>4 DEF IInv

\* The supervising owner stops or collects.
LEMMA SuperviseStep ==
    ASSUME IInv, Supervise
    PROVE  IInv'
<1>1. TypeOK'
  BY DEF IInv, TypeOK, Supervise
<1>2. (Ownership /\ Knows("caller") /\ Knows("owner") /\ Events)'
  BY DEF IInv, TypeOK, Ownership, OneShutdownOwner, Knows, Events, Decisions, Supervise
<1>3. (Decisions /\ OutcomeIsVerdict)'
  BY DEF IInv, TypeOK, Ownership, Knows, Events, Decisions,
         OutcomeIsVerdict, Ended, Supervise
<1>4. (Releases /\ ReleaseNotLost)'
  BY DEF IInv, TypeOK, Ownership, OneShutdownOwner, Knows, Events, Decisions,
         Releases, ReleaseNotLost, Ended, Admitted, Supervise
<1> QED BY <1>1, <1>2, <1>3, <1>4 DEF IInv

\* A failing poll() becomes a cause before cleanup starts.
LEMMA SuperviseFailsStep ==
    ASSUME IInv, SuperviseFails
    PROVE  IInv'
<1>1. TypeOK'
  <2>1. cause' \in Causes \cup {"none"} /\ stop' \in BOOLEAN
    BY AbortTypes DEF IInv, SuperviseFails
  <2> QED BY <2>1 DEF IInv, TypeOK, SuperviseFails
<1>2. (Ownership /\ Knows("caller") /\ Knows("owner") /\ Events)'
  BY DEF IInv, TypeOK, Ownership, OneShutdownOwner, Knows, Events, Decisions, SuperviseFails, Abort
<1>3. (Decisions /\ OutcomeIsVerdict)'
  BY DEF IInv, TypeOK, Ownership, Knows, Events, Decisions,
         OutcomeIsVerdict, Ended, SuperviseFails, Abort
<1>4. (Releases /\ ReleaseNotLost)'
  BY DEF IInv, TypeOK, Ownership, OneShutdownOwner, Knows, Events, Decisions,
         Releases, ReleaseNotLost, Ended, Admitted, SuperviseFails, Abort
<1> QED BY <1>1, <1>2, <1>3, <1>4 DEF IInv

\* The background reaper collects the child.
LEMMA ReapLaterStep ==
    ASSUME IInv, ReapLater
    PROVE  IInv'
<1>1. TypeOK'
  BY DEF IInv, TypeOK, ReapLater
<1>2. (Ownership /\ Knows("caller") /\ Knows("owner") /\ Events)'
  BY DEF IInv, TypeOK, Ownership, OneShutdownOwner, Knows, Events, Decisions, ReapLater
<1>3. (Decisions /\ OutcomeIsVerdict)'
  BY DEF IInv, TypeOK, Ownership, Knows, Events, Decisions,
         OutcomeIsVerdict, Ended, ReapLater
<1>4. (Releases /\ ReleaseNotLost)'
  BY DEF IInv, TypeOK, Ownership, OneShutdownOwner, Knows, Events, Decisions,
         Releases, ReleaseNotLost, Ended, Admitted, ReapLater
<1> QED BY <1>1, <1>2, <1>3, <1>4 DEF IInv

\* A cancellation changes at most the cause and the stop event.
LEMMA RequestCancelStep ==
    ASSUME IInv, RequestCancel
    PROVE  IInv'
<1>1. TypeOK'
  <2>1. cause' \in Causes \cup {"none"} /\ stop' \in BOOLEAN
    BY AbortTypes DEF IInv, RequestCancel
  <2> QED BY <2>1 DEF IInv, TypeOK, RequestCancel
<1>2. (Ownership /\ Knows("caller") /\ Knows("owner") /\ Events)'
  BY DEF IInv, TypeOK, Ownership, OneShutdownOwner, Knows, Events, Decisions, RequestCancel, Abort
<1>3. (Decisions /\ OutcomeIsVerdict)'
  BY DEF IInv, TypeOK, Ownership, Knows, Events, Decisions,
         OutcomeIsVerdict, Ended, RequestCancel, Abort
<1>4. (Releases /\ ReleaseNotLost)'
  BY DEF IInv, TypeOK, Ownership, OneShutdownOwner, Knows, Events, Decisions,
         Releases, ReleaseNotLost, Ended, Admitted, RequestCancel, Abort
<1> QED BY <1>1, <1>2, <1>3, <1>4 DEF IInv

\* The clock decides nothing by itself.
LEMMA OverdueStep ==
    ASSUME IInv, Overdue
    PROVE  IInv'
<1>1. TypeOK'
  BY DEF IInv, TypeOK, Overdue
<1>2. (Ownership /\ Knows("caller") /\ Knows("owner") /\ Events)'
  BY DEF IInv, TypeOK, Ownership, OneShutdownOwner, Knows, Events, Decisions, Overdue
<1>3. (Decisions /\ OutcomeIsVerdict)'
  BY DEF IInv, TypeOK, Ownership, Knows, Events, Decisions,
         OutcomeIsVerdict, Ended, Overdue
<1>4. (Releases /\ ReleaseNotLost)'
  BY DEF IInv, TypeOK, Ownership, OneShutdownOwner, Knows, Events, Decisions,
         Releases, ReleaseNotLost, Ended, Admitted, Overdue
<1> QED BY <1>1, <1>2, <1>3, <1>4 DEF IInv

\* A timer that fires has decided nothing yet.
LEMMA WatchdogFiresStep ==
    ASSUME IInv, WatchdogFires
    PROVE  IInv'
<1>1. TypeOK'
  BY DEF IInv, TypeOK, WatchdogFires
<1>2. (Ownership /\ Knows("caller") /\ Knows("owner") /\ Events)'
  BY DEF IInv, TypeOK, Ownership, OneShutdownOwner, Knows, Events, Decisions, WatchdogFires
<1>3. (Decisions /\ OutcomeIsVerdict)'
  BY DEF IInv, TypeOK, Ownership, Knows, Events, Decisions,
         OutcomeIsVerdict, Ended, WatchdogFires
<1>4. (Releases /\ ReleaseNotLost)'
  BY DEF IInv, TypeOK, Ownership, OneShutdownOwner, Knows, Events, Decisions,
         Releases, ReleaseNotLost, Ended, Admitted, WatchdogFires
<1> QED BY <1>1, <1>2, <1>3, <1>4 DEF IInv

\* expire() is an abort.
LEMMA ExpireStep ==
    ASSUME IInv, Expire
    PROVE  IInv'
<1>1. TypeOK'
  <2>1. cause' \in Causes \cup {"none"} /\ stop' \in BOOLEAN
    BY AbortTypes DEF IInv, Expire
  <2> QED BY <2>1 DEF IInv, TypeOK, Expire
<1>2. (Ownership /\ Knows("caller") /\ Knows("owner") /\ Events)'
  BY DEF IInv, TypeOK, Ownership, OneShutdownOwner, Knows, Events, Decisions, Expire, Abort
<1>3. (Decisions /\ OutcomeIsVerdict)'
  BY DEF IInv, TypeOK, Ownership, Knows, Events, Decisions,
         OutcomeIsVerdict, Ended, Expire, Abort
<1>4. (Releases /\ ReleaseNotLost)'
  BY DEF IInv, TypeOK, Ownership, OneShutdownOwner, Knows, Events, Decisions,
         Releases, ReleaseNotLost, Ended, Admitted, Expire, Abort
<1> QED BY <1>1, <1>2, <1>3, <1>4 DEF IInv

\* The reader waits.
LEMMA ReaderDrainsStep ==
    ASSUME IInv, ReaderDrains
    PROVE  IInv'
<1>1. TypeOK'
  BY DEF IInv, TypeOK, ReaderDrains
<1>2. (Ownership /\ Knows("caller") /\ Knows("owner") /\ Events)'
  BY DEF IInv, TypeOK, Ownership, OneShutdownOwner, Knows, Events, Decisions, ReaderDrains
<1>3. (Decisions /\ OutcomeIsVerdict)'
  BY DEF IInv, TypeOK, Ownership, Knows, Events, Decisions,
         OutcomeIsVerdict, Ended, ReaderDrains
<1>4. (Releases /\ ReleaseNotLost)'
  BY DEF IInv, TypeOK, Ownership, OneShutdownOwner, Knows, Events, Decisions,
         Releases, ReleaseNotLost, Ended, Admitted, ReaderDrains
<1> QED BY <1>1, <1>2, <1>3, <1>4 DEF IInv

\* The reader reports the end of file.
LEMMA ReaderEndsStep ==
    ASSUME IInv, ReaderEnds
    PROVE  IInv'
<1>1. TypeOK'
  BY DEF IInv, TypeOK, ReaderEnds
<1>2. (Ownership /\ Knows("caller") /\ Knows("owner") /\ Events)'
  BY DEF IInv, TypeOK, Ownership, OneShutdownOwner, Knows, Events, Decisions, ReaderEnds
<1>3. (Decisions /\ OutcomeIsVerdict)'
  BY DEF IInv, TypeOK, Ownership, Knows, Events, Decisions,
         OutcomeIsVerdict, Ended, ReaderEnds
<1>4. (Releases /\ ReleaseNotLost)'
  BY DEF IInv, TypeOK, Ownership, OneShutdownOwner, Knows, Events, Decisions,
         Releases, ReleaseNotLost, Ended, Admitted, ReaderEnds
<1> QED BY <1>1, <1>2, <1>3, <1>4 DEF IInv

\* Transport failure is an abort.
LEMMA ReaderFailsStep ==
    ASSUME IInv, ReaderFails
    PROVE  IInv'
<1>1. TypeOK'
  <2>1. cause' \in Causes \cup {"none"} /\ stop' \in BOOLEAN
    BY AbortTypes DEF IInv, ReaderFails
  <2> QED BY <2>1 DEF IInv, TypeOK, ReaderFails
<1>2. (Ownership /\ Knows("caller") /\ Knows("owner") /\ Events)'
  BY DEF IInv, TypeOK, Ownership, OneShutdownOwner, Knows, Events, Decisions, ReaderFails, Abort
<1>3. (Decisions /\ OutcomeIsVerdict)'
  BY DEF IInv, TypeOK, Ownership, Knows, Events, Decisions,
         OutcomeIsVerdict, Ended, ReaderFails, Abort
<1>4. (Releases /\ ReleaseNotLost)'
  BY DEF IInv, TypeOK, Ownership, OneShutdownOwner, Knows, Events, Decisions,
         Releases, ReleaseNotLost, Ended, Admitted, ReaderFails, Abort
<1> QED BY <1>1, <1>2, <1>3, <1>4 DEF IInv

\* An exit is unknown until it is collected.
LEMMA ChildExitsStep ==
    ASSUME IInv, ChildExits
    PROVE  IInv'
<1>1. TypeOK'
  BY DEF IInv, TypeOK, ChildExits
<1>2. (Ownership /\ Knows("caller") /\ Knows("owner") /\ Events)'
  BY DEF IInv, TypeOK, Ownership, OneShutdownOwner, Knows, Events, Decisions, ChildExits
<1>3. (Decisions /\ OutcomeIsVerdict)'
  BY DEF IInv, TypeOK, Ownership, Knows, Events, Decisions,
         OutcomeIsVerdict, Ended, ChildExits
<1>4. (Releases /\ ReleaseNotLost)'
  BY DEF IInv, TypeOK, Ownership, OneShutdownOwner, Knows, Events, Decisions,
         Releases, ReleaseNotLost, Ended, Admitted, ChildExits
<1> QED BY <1>1, <1>2, <1>3, <1>4 DEF IInv

\* _stop_process polls first.
LEMMA StopPollStep ==
    ASSUME IInv, NEW t \in Threads, StopPoll(t)
    PROVE  IInv'
<1>1. TypeOK'
  BY DEF IInv, TypeOK, StopPoll, Observe
<1>2. (Ownership /\ Knows("caller") /\ Knows("owner") /\ Events)'
  BY DEF IInv, TypeOK, Ownership, OneShutdownOwner, Knows, Events, Decisions, StopPoll, Observe
<1>3. (Decisions /\ OutcomeIsVerdict)'
  BY DEF IInv, TypeOK, Ownership, Knows, Events, Decisions,
         OutcomeIsVerdict, Ended, StopPoll, Observe
<1>4. (Releases /\ ReleaseNotLost)'
  BY DEF IInv, TypeOK, Ownership, OneShutdownOwner, Knows, Events, Decisions,
         Releases, ReleaseNotLost, Ended, Admitted, StopPoll, Observe
<1> QED BY <1>1, <1>2, <1>3, <1>4 DEF IInv

\* A signal only moves its sender.
LEMMA TerminateStep ==
    ASSUME IInv, NEW t \in Threads, Terminate(t)
    PROVE  IInv'
<1>1. TypeOK'
  BY DEF IInv, TypeOK, Terminate, Signal
<1>2. (Ownership /\ Knows("caller") /\ Knows("owner") /\ Events)'
  BY DEF IInv, TypeOK, Ownership, OneShutdownOwner, Knows, Events, Decisions, Terminate, Signal
<1>3. (Decisions /\ OutcomeIsVerdict)'
  BY DEF IInv, TypeOK, Ownership, Knows, Events, Decisions,
         OutcomeIsVerdict, Ended, Terminate, Signal
<1>4. (Releases /\ ReleaseNotLost)'
  BY DEF IInv, TypeOK, Ownership, OneShutdownOwner, Knows, Events, Decisions,
         Releases, ReleaseNotLost, Ended, Admitted, Terminate, Signal
<1> QED BY <1>1, <1>2, <1>3, <1>4 DEF IInv

\* The wait after TERM collects the child or escalates.
LEMMA GraceStep ==
    ASSUME IInv, NEW t \in Threads, Grace(t)
    PROVE  IInv'
<1>1. TypeOK'
  BY DEF IInv, TypeOK, Grace, Observe
<1>2. (Ownership /\ Knows("caller") /\ Knows("owner") /\ Events)'
  BY DEF IInv, TypeOK, Ownership, OneShutdownOwner, Knows, Events, Decisions, Grace, Observe
<1>3. (Decisions /\ OutcomeIsVerdict)'
  BY DEF IInv, TypeOK, Ownership, Knows, Events, Decisions,
         OutcomeIsVerdict, Ended, Grace, Observe
<1>4. (Releases /\ ReleaseNotLost)'
  BY DEF IInv, TypeOK, Ownership, OneShutdownOwner, Knows, Events, Decisions,
         Releases, ReleaseNotLost, Ended, Admitted, Grace, Observe
<1> QED BY <1>1, <1>2, <1>3, <1>4 DEF IInv

\* So does KILL.
LEMMA KillStep ==
    ASSUME IInv, NEW t \in Threads, Kill(t)
    PROVE  IInv'
<1>1. TypeOK'
  BY DEF IInv, TypeOK, Kill, Signal
<1>2. (Ownership /\ Knows("caller") /\ Knows("owner") /\ Events)'
  BY DEF IInv, TypeOK, Ownership, OneShutdownOwner, Knows, Events, Decisions, Kill, Signal
<1>3. (Decisions /\ OutcomeIsVerdict)'
  BY DEF IInv, TypeOK, Ownership, Knows, Events, Decisions,
         OutcomeIsVerdict, Ended, Kill, Signal
<1>4. (Releases /\ ReleaseNotLost)'
  BY DEF IInv, TypeOK, Ownership, OneShutdownOwner, Knows, Events, Decisions,
         Releases, ReleaseNotLost, Ended, Admitted, Kill, Signal
<1> QED BY <1>1, <1>2, <1>3, <1>4 DEF IInv

\* The wait after KILL collects the child or gives up.
LEMMA KillWaitStep ==
    ASSUME IInv, NEW t \in Threads, KillWait(t)
    PROVE  IInv'
<1>1. TypeOK'
  BY DEF IInv, TypeOK, KillWait, Observe
<1>2. (Ownership /\ Knows("caller") /\ Knows("owner") /\ Events)'
  BY DEF IInv, TypeOK, Ownership, OneShutdownOwner, Knows, Events, Decisions, KillWait, Observe
<1>3. (Decisions /\ OutcomeIsVerdict)'
  BY DEF IInv, TypeOK, Ownership, Knows, Events, Decisions,
         OutcomeIsVerdict, Ended, KillWait, Observe
<1>4. (Releases /\ ReleaseNotLost)'
  BY DEF IInv, TypeOK, Ownership, OneShutdownOwner, Knows, Events, Decisions,
         Releases, ReleaseNotLost, Ended, Admitted, KillWait, Observe
<1> QED BY <1>1, <1>2, <1>3, <1>4 DEF IInv

\* The last poll decides between reap and failure.
LEMMA RecheckStep ==
    ASSUME IInv, NEW t \in Threads, Recheck(t)
    PROVE  IInv'
<1>1. TypeOK'
  BY DEF IInv, TypeOK, Recheck, Observe
<1>2. (Ownership /\ Knows("caller") /\ Knows("owner") /\ Events)'
  BY DEF IInv, TypeOK, Ownership, OneShutdownOwner, Knows, Events, Decisions, Recheck, Observe
<1>3. (Decisions /\ OutcomeIsVerdict)'
  BY DEF IInv, TypeOK, Ownership, Knows, Events, Decisions,
         OutcomeIsVerdict, Ended, Recheck, Observe
<1>4. (Releases /\ ReleaseNotLost)'
  BY DEF IInv, TypeOK, Ownership, OneShutdownOwner, Knows, Events, Decisions,
         Releases, ReleaseNotLost, Ended, Admitted, Recheck, Observe
<1> QED BY <1>1, <1>2, <1>3, <1>4 DEF IInv

\* A failure is recorded, with a cause, while the child is not reaped.
LEMMA FailStep ==
    ASSUME IInv, NEW t \in Threads, Fail(t)
    PROVE  IInv'
<1>1. TypeOK'
  BY DEF IInv, TypeOK, Fail
<1>2. (Ownership /\ Knows("caller") /\ Knows("owner") /\ Events)'
  BY DEF IInv, TypeOK, Ownership, OneShutdownOwner, Knows, Events, Decisions, Fail
<1>3. (Decisions /\ OutcomeIsVerdict)'
  BY DEF IInv, TypeOK, Ownership, Knows, Events, Decisions,
         OutcomeIsVerdict, Ended, Fail
<1>4. (Releases /\ ReleaseNotLost)'
  BY DEF IInv, TypeOK, Ownership, OneShutdownOwner, Knows, Events, Decisions,
         Releases, ReleaseNotLost, Ended, Admitted, Fail
<1> QED BY <1>1, <1>2, <1>3, <1>4 DEF IInv

\* The caller is woken only after the error was stored.
LEMMA ReportStep ==
    ASSUME IInv, NEW t \in Threads, Report(t)
    PROVE  IInv'
<1>1. TypeOK'
  BY DEF IInv, TypeOK, Report
<1>2. (Ownership /\ Knows("caller") /\ Knows("owner") /\ Events)'
  BY DEF IInv, TypeOK, Ownership, OneShutdownOwner, Knows, Events, Decisions, Report
<1>3. (Decisions /\ OutcomeIsVerdict)'
  BY DEF IInv, TypeOK, Ownership, Knows, Events, Decisions,
         OutcomeIsVerdict, Ended, Report
<1>4. (Releases /\ ReleaseNotLost)'
  BY DEF IInv, TypeOK, Ownership, OneShutdownOwner, Knows, Events, Decisions,
         Releases, ReleaseNotLost, Ended, Admitted, Report
<1> QED BY <1>1, <1>2, <1>3, <1>4 DEF IInv

\* Exactly one thread keeps the child after a failure.
LEMMA HandoffStep ==
    ASSUME IInv, NEW t \in Threads, Handoff(t)
    PROVE  IInv'
<1>1. TypeOK'
  BY DEF IInv, TypeOK, Handoff
<1>2. (Ownership /\ Knows("caller") /\ Knows("owner") /\ Events)'
  BY DEF IInv, TypeOK, Ownership, OneShutdownOwner, Knows, Events, Decisions, Handoff
<1>3. (Decisions /\ OutcomeIsVerdict)'
  BY DEF IInv, TypeOK, Ownership, Knows, Events, Decisions,
         OutcomeIsVerdict, Ended, Handoff
<1>4. (Releases /\ ReleaseNotLost)'
  BY DEF IInv, TypeOK, Ownership, OneShutdownOwner, Knows, Events, Decisions,
         Releases, ReleaseNotLost, Ended, Admitted, Handoff
<1> QED BY <1>1, <1>2, <1>3, <1>4 DEF IInv

\* The reap takes every enrolled callback.
LEMMA MarkStep ==
    ASSUME IInv, NEW t \in Threads, Mark(t)
    PROVE  IInv'
<1>1. TypeOK'
  BY DEF IInv, TypeOK, Mark
<1>2. (Ownership /\ Knows("caller") /\ Knows("owner") /\ Events)'
  BY DEF IInv, TypeOK, Ownership, OneShutdownOwner, Knows, Events, Decisions, Mark
<1>3. (Decisions /\ OutcomeIsVerdict)'
  BY DEF IInv, TypeOK, Ownership, Knows, Events, Decisions,
         OutcomeIsVerdict, Ended, Mark
<1>4. (Releases /\ ReleaseNotLost)'
  BY DEF IInv, TypeOK, Ownership, OneShutdownOwner, Knows, Events, Decisions,
         Releases, ReleaseNotLost, Ended, Admitted, Mark
<1> QED BY <1>1, <1>2, <1>3, <1>4 DEF IInv

\* Callbacks taken by the reap are run once.
LEMMA RunCallbacksStep ==
    ASSUME IInv, NEW t \in Threads, RunCallbacks(t)
    PROVE  IInv'
<1>1. TypeOK'
  <2>1. released' \in Nat /\ taken' \in Nat
    BY DEF IInv, TypeOK, RunCallbacks
  <2>2. retained' \in BOOLEAN
    BY DEF RunCallbacks
  <2>3. /\ pc' \in [Threads -> CallerPCs \cup OwnerPCs]
        /\ pc'["caller"] \in CallerPCs /\ pc'["owner"] \in OwnerPCs
    BY DEF IInv, TypeOK, RunCallbacks
  <2>4. UNCHANGED <<cause, completed, started, process, stop, attempted, reaped,
                    cleanupError, callbacks, child, session, outcome, given>>
    BY DEF RunCallbacks
  <2> QED BY <2>1, <2>2, <2>3, <2>4 DEF IInv, TypeOK
<1>2. (Ownership /\ Knows("caller") /\ Knows("owner") /\ Events)'
  BY DEF IInv, TypeOK, Ownership, OneShutdownOwner, Knows, Events, Decisions, RunCallbacks
<1>3. (Decisions /\ OutcomeIsVerdict)'
  BY DEF IInv, TypeOK, Ownership, Knows, Events, Decisions,
         OutcomeIsVerdict, Ended, RunCallbacks
<1>4. (Releases /\ ReleaseNotLost)'
  BY DEF IInv, TypeOK, Ownership, OneShutdownOwner, Knows, Events, Decisions,
         Releases, ReleaseNotLost, Ended, Admitted, RunCallbacks
<1> QED BY <1>1, <1>2, <1>3, <1>4 DEF IInv

\* The reap counts as the attempt.
LEMMA MarkAttemptedStep ==
    ASSUME IInv, NEW t \in Threads, MarkAttempted(t)
    PROVE  IInv'
<1>1. TypeOK'
  BY DEF IInv, TypeOK, MarkAttempted, Return
<1>2. (Ownership /\ Knows("caller") /\ Knows("owner") /\ Events)'
  BY DEF IInv, TypeOK, Ownership, OneShutdownOwner, Knows, Events, Decisions, MarkAttempted, Return
<1>3. (Decisions /\ OutcomeIsVerdict)'
  BY DEF IInv, TypeOK, Ownership, Knows, Events, Decisions,
         OutcomeIsVerdict, Ended, MarkAttempted, Return
<1>4. (Releases /\ ReleaseNotLost)'
  BY DEF IInv, TypeOK, Ownership, OneShutdownOwner, Knows, Events, Decisions,
         Releases, ReleaseNotLost, Ended, Admitted, MarkAttempted, Return
<1> QED BY <1>1, <1>2, <1>3, <1>4 DEF IInv
-----------------------------------------------------------------------------
\* The shutdown code preserves the invariant whichever thread runs it.
LEMMA CleanupStep ==
    ASSUME IInv, NEW t \in Threads, Cleanup(t)
    PROVE  IInv'
  BY StopPollStep, TerminateStep, GraceStep, KillStep, KillWaitStep, RecheckStep,
     FailStep, ReportStep, HandoffStep, MarkStep, RunCallbacksStep, MarkAttemptedStep
     DEF Cleanup

\* Every step of every actor preserves the invariant.
LEMMA StepIInv == IInv /\ [Next]_vars => IInv'
<1> SUFFICES ASSUME IInv, [Next]_vars PROVE IInv'
  OBVIOUS
<1>1. CASE Caller
  <2>1. CASE Cleanup("caller")
    BY <2>1, CleanupStep
  <2> QED
    BY <1>1, <2>1, StartStep, SpawnStep, RegisterStep, ArmStep, LoopStep, ExitWaitStep,
       VerdictStep, CompleteStep, RaiseStep, CloseStep, AwaitStep, SettleStep,
       ReleaseStep, WhenReapedStep DEF Caller
<1>2. CASE Owner
  BY <1>2, SuperviseStep, ReapLaterStep, CleanupStep DEF Owner
<1>3. CASE Others
  BY <1>3, OverdueStep, WatchdogFiresStep, ExpireStep, ReaderDrainsStep,
     ReaderEndsStep, ReaderFailsStep, ChildExitsStep DEF Others
<1>4. CASE Begin \/ Deliver \/ CallbackReturns \/ LoopFails \/ InterruptClose
           \/ SuperviseFails \/ RequestCancel
  BY <1>4, BeginStep, DeliverStep, CallbackReturnsStep, LoopFailsStep,
     InterruptCloseStep, SuperviseFailsStep, RequestCancelStep
<1>5. CASE UNCHANGED vars
  <2>1. TypeOK'
    BY <1>5 DEF vars, IInv, TypeOK
  <2>2. (Ownership /\ Knows("caller") /\ Knows("owner") /\ Events)'
    BY <1>5 DEF vars, IInv, Ownership, OneShutdownOwner, Knows, Events
  <2>3. (Decisions /\ OutcomeIsVerdict /\ Releases /\ ReleaseNotLost)'
    BY <1>5 DEF vars, IInv, Decisions, OutcomeIsVerdict, Ended, Releases,
                ReleaseNotLost, Admitted
  <2> QED BY <2>1, <2>2, <2>3 DEF IInv
<1> QED BY <1>1, <1>2, <1>3, <1>4, <1>5 DEF Next, Operation

\* The inductive invariant holds in every reachable state.
THEOREM Invariance == Spec => []IInv
  BY InitIInv, StepIInv, PTL DEF Spec

\* Every variable keeps its type.
THEOREM TypeCorrect == Spec => []TypeOK
<1>1. IInv => TypeOK
  BY DEF IInv
<1> QED BY <1>1, Invariance, PTL

\* Success, cancellation, deadline and cleanup failure exclude one another in
\* every interleaving of the caller, the owner, the watchdog and the reader.
THEOREM ArbitrationHolds == Spec => []Arbitration
<1>1. IInv => Arbitration
  BY DEF IInv, TypeOK, Events, Releases, Arbitration
<1> QED BY <1>1, Invariance, PTL

\* The outcome that run_worker raises or returns is the arbiter's decision.
THEOREM OutcomeIsVerdictHolds == Spec => []OutcomeIsVerdict
<1>1. IInv => OutcomeIsVerdict
  BY DEF IInv
<1> QED BY <1>1, Invariance, PTL

\* Without an interrupt inside close(), a call that raises no cleanup error
\* leaves no child behind.
THEOREM ReapedOnEveryPathHolds ==
    ASSUME ~Interruptible
    PROVE  Spec => []ReapedOnEveryPath
<1>1. IInv => ReapedOnEveryPath
  BY DEF IInv, TypeOK, Ownership, Events, Decisions, Ended, ReapedOnEveryPath
<1> QED BY <1>1, Invariance, PTL

\* Without an interrupt inside close(), admission is released at most once
\* and never while the child may run.
THEOREM ReleaseOnceAndSafelyHolds ==
    ASSUME ~Interruptible
    PROVE  Spec => []ReleaseOnceAndSafely
<1>1. IInv => ReleaseOnceAndSafely
  BY DEF IInv, Releases, ReleaseOnceAndSafely
<1> QED BY <1>1, Invariance, PTL

\* The release of admission is never lost between caller and reaper, even
\* when an interrupt ends the call early.
THEOREM ReleaseNotLostHolds == Spec => []ReleaseNotLost
<1>1. IInv => ReleaseNotLost
  BY DEF IInv
<1> QED BY <1>1, Invariance, PTL

\* An attempt that did not reap the child has stored its error and rooted the
\* control, and the root goes with the reap.
THEOREM FailureIsReportedHolds == Spec => []FailureIsReported
<1>1. IInv => FailureIsReported
  BY DEF IInv, TypeOK, Events, FailureIsReported
<1> QED BY <1>1, Invariance, PTL

\* The arbiter decides once and run_worker reports that decision.
THEOREM VerdictStandsHolds == Spec => []VerdictStands
<1>1. Arbitration /\ OutcomeIsVerdict => VerdictStands
  BY DEF VerdictStands
<1> QED BY <1>1, ArbitrationHolds, OutcomeIsVerdictHolds, PTL

\* Without an interrupt inside close(), a child that survives the call is
\* reported and stays rooted.
THEOREM OwnershipReportedHolds ==
    ASSUME ~Interruptible
    PROVE  Spec => []OwnershipReported
<1>1. ReapedOnEveryPath /\ FailureIsReported => OwnershipReported
  BY DEF OwnershipReported
<1> QED BY <1>1, ReapedOnEveryPathHolds, FailureIsReportedHolds, PTL

\* Without an interrupt inside close(), admission is released exactly once.
THEOREM AdmissionExactHolds ==
    ASSUME ~Interruptible
    PROVE  Spec => []AdmissionExact
<1>1. ReleaseOnceAndSafely /\ ReleaseNotLost => AdmissionExact
  BY DEF AdmissionExact
<1> QED BY <1>1, ReleaseOnceAndSafelyHolds, ReleaseNotLostHolds, PTL

-----------------------------------------------------------------------------
(***************************************************************************)
(* ExecutionControl implements OwnedWorker, and its decisions are final.   *)
(* Both are step properties, and both rest on the invariant above.         *)
(***************************************************************************)

\* A step of the implementation as seen through the mapping.
AbstractStep == [Abstract!OwnedNext]_(Abstract!owned)

\* The initial state maps to the initial state.
LEMMA InitMaps == Init => Abstract!OwnedInit
  BY DEF Init, Abstract!OwnedInit, workerOf, verdictOf, reportOf, admissionOf, Ended

\* Steps that neither touch the child nor decide nor end nor release anything are
\* invisible.
LEMMA SilentMaps ==
    ASSUME ~Interruptible, IInv,
           Register \/ Arm \/ Deliver \/ CallbackReturns \/ LoopFails \/ ExitWait \/ Close \/ Await
    PROVE  AbstractStep
<1>1. CASE Register
  BY <1>1 DEF IInv, TypeOK, Ownership, Decisions,
         AbstractStep, Abstract!owned, workerOf, verdictOf, reportOf,
         admissionOf, Ended, Register
<1>2. CASE Arm
  BY <1>2 DEF IInv, TypeOK, Ownership, Decisions,
         AbstractStep, Abstract!owned, workerOf, verdictOf, reportOf,
         admissionOf, Ended, Arm
<1>3. CASE Deliver
  BY <1>3 DEF IInv, TypeOK, Ownership, Decisions,
         AbstractStep, Abstract!owned, workerOf, verdictOf, reportOf,
         admissionOf, Ended, Deliver
<1>4. CASE CallbackReturns
  BY <1>4 DEF IInv, TypeOK, Ownership, Decisions,
         AbstractStep, Abstract!owned, workerOf, verdictOf, reportOf,
         admissionOf, Ended, CallbackReturns
<1>5. CASE LoopFails
  BY <1>5 DEF IInv, TypeOK, Ownership, Decisions,
         AbstractStep, Abstract!owned, workerOf, verdictOf, reportOf,
         admissionOf, Ended, LoopFails
<1>6. CASE ExitWait
  BY <1>6 DEF IInv, TypeOK, Ownership, Decisions,
         AbstractStep, Abstract!owned, workerOf, verdictOf, reportOf,
         admissionOf, Ended, ExitWait, ExitSeen
<1>7. CASE Close
  BY <1>7 DEF IInv, TypeOK, Ownership, Decisions,
         AbstractStep, Abstract!owned, workerOf, verdictOf, reportOf,
         admissionOf, Ended, Close
<1>8. CASE Await
  BY <1>8 DEF IInv, TypeOK, Ownership, Decisions,
         AbstractStep, Abstract!owned, workerOf, verdictOf, reportOf,
         admissionOf, Ended, Await
<1> QED BY <1>1, <1>2, <1>3, <1>4, <1>5, <1>6, <1>7, <1>8

\* Neither the clock nor the reader nor an exit nobody has collected is visible.
LEMMA SilentOthersMaps ==
    ASSUME ~Interruptible, IInv,
           Overdue \/ WatchdogFires \/ ReaderDrains \/ ReaderEnds \/ ChildExits
    PROVE  AbstractStep
<1>1. CASE Overdue
  BY <1>1 DEF IInv, TypeOK, Ownership, Decisions,
         AbstractStep, Abstract!owned, workerOf, verdictOf, reportOf,
         admissionOf, Ended, Overdue
<1>2. CASE WatchdogFires
  BY <1>2 DEF IInv, TypeOK, Ownership, Decisions,
         AbstractStep, Abstract!owned, workerOf, verdictOf, reportOf,
         admissionOf, Ended, WatchdogFires
<1>3. CASE ReaderDrains
  BY <1>3 DEF IInv, TypeOK, Ownership, Decisions,
         AbstractStep, Abstract!owned, workerOf, verdictOf, reportOf,
         admissionOf, Ended, ReaderDrains
<1>4. CASE ReaderEnds
  BY <1>4 DEF IInv, TypeOK, Ownership, Decisions,
         AbstractStep, Abstract!owned, workerOf, verdictOf, reportOf,
         admissionOf, Ended, ReaderEnds
<1>5. CASE ChildExits
  BY <1>5 DEF IInv, TypeOK, Ownership, Decisions,
         AbstractStep, Abstract!owned, workerOf, verdictOf, reportOf,
         admissionOf, Ended, ChildExits
<1> QED BY <1>1, <1>2, <1>3, <1>4, <1>5

\* Signals and bookkeeping of the shutdown are invisible.
LEMMA SilentCleanupMaps ==
    ASSUME ~Interruptible, IInv, NEW t \in Threads,
           Terminate(t) \/ Kill(t) \/ Fail(t) \/ Report(t) \/ Handoff(t) \/ Mark(t) \/ MarkAttempted(t)
    PROVE  AbstractStep
<1>1. CASE Terminate(t)
  BY <1>1 DEF IInv, TypeOK, Ownership, Decisions,
         AbstractStep, Abstract!owned, workerOf, verdictOf, reportOf,
         admissionOf, Ended, Terminate, Signal
<1>2. CASE Kill(t)
  BY <1>2 DEF IInv, TypeOK, Ownership, Decisions,
         AbstractStep, Abstract!owned, workerOf, verdictOf, reportOf,
         admissionOf, Ended, Kill, Signal
<1>3. CASE Fail(t)
  BY <1>3 DEF IInv, TypeOK, Ownership, Decisions,
         AbstractStep, Abstract!owned, workerOf, verdictOf, reportOf,
         admissionOf, Ended, Fail
<1>4. CASE Report(t)
  BY <1>4 DEF IInv, TypeOK, Ownership, Decisions,
         AbstractStep, Abstract!owned, workerOf, verdictOf, reportOf,
         admissionOf, Ended, Report
<1>5. CASE Handoff(t)
  BY <1>5 DEF IInv, TypeOK, Ownership, Decisions,
         AbstractStep, Abstract!owned, workerOf, verdictOf, reportOf,
         admissionOf, Ended, Handoff
<1>6. CASE Mark(t)
  BY <1>6 DEF IInv, TypeOK, Ownership, Decisions,
         AbstractStep, Abstract!owned, workerOf, verdictOf, reportOf,
         admissionOf, Ended, Mark
<1>7. CASE MarkAttempted(t)
  BY <1>7 DEF IInv, TypeOK, Ownership, Decisions,
         AbstractStep, Abstract!owned, workerOf, verdictOf, reportOf,
         admissionOf, Ended, MarkAttempted, Return
<1> QED BY <1>1, <1>2, <1>3, <1>4, <1>5, <1>6, <1>7

\* The spawn acquires the child or the call concludes without one.
LEMMA AcquireMaps ==
    ASSUME ~Interruptible, IInv,
           Spawn
    PROVE  AbstractStep
<1>1. CASE Spawn
  BY <1>1 DEF IInv, TypeOK, Ownership, Knows, Events, Decisions, Releases, OutcomeIsVerdict,
         AbstractStep, Abstract!OwnedNext, Abstract!Acquire, Abstract!Conclude, Abstract!owned, workerOf, verdictOf, reportOf,
         admissionOf, Ended, Spawn
<1> QED BY <1>1

\* Collecting an exit is visible once.
LEMMA CollectMaps ==
    ASSUME ~Interruptible, IInv,
           Supervise \/ ReapLater
    PROVE  AbstractStep
<1>1. CASE Supervise
  BY <1>1 DEF IInv, TypeOK, Ownership, Knows, Events, Decisions, Releases, OutcomeIsVerdict,
         AbstractStep, Abstract!OwnedNext, Abstract!Collect, Abstract!owned, workerOf, verdictOf, reportOf,
         admissionOf, Ended, Supervise
<1>2. CASE ReapLater
  BY <1>2 DEF IInv, TypeOK, Ownership, Knows, Events, Decisions, Releases, OutcomeIsVerdict,
         AbstractStep, Abstract!OwnedNext, Abstract!Collect, Abstract!owned, workerOf, verdictOf, reportOf,
         admissionOf, Ended, ReapLater
<1> QED BY <1>1, <1>2

\* So is a collection by the shutdown code.
LEMMA CollectCleanupMaps ==
    ASSUME ~Interruptible, IInv, NEW t \in Threads,
           StopPoll(t) \/ Grace(t) \/ KillWait(t) \/ Recheck(t)
    PROVE  AbstractStep
<1>1. CASE StopPoll(t)
  BY <1>1 DEF IInv, TypeOK, Ownership, Knows, Events, Decisions, Releases, OutcomeIsVerdict,
         AbstractStep, Abstract!OwnedNext, Abstract!Collect, Abstract!owned, workerOf, verdictOf, reportOf,
         admissionOf, Ended, StopPoll, Observe
<1>2. CASE Grace(t)
  BY <1>2 DEF IInv, TypeOK, Ownership, Knows, Events, Decisions, Releases, OutcomeIsVerdict,
         AbstractStep, Abstract!OwnedNext, Abstract!Collect, Abstract!owned, workerOf, verdictOf, reportOf,
         admissionOf, Ended, Grace, Observe
<1>3. CASE KillWait(t)
  BY <1>3 DEF IInv, TypeOK, Ownership, Knows, Events, Decisions, Releases, OutcomeIsVerdict,
         AbstractStep, Abstract!OwnedNext, Abstract!Collect, Abstract!owned, workerOf, verdictOf, reportOf,
         admissionOf, Ended, KillWait, Observe
<1>4. CASE Recheck(t)
  BY <1>4 DEF IInv, TypeOK, Ownership, Knows, Events, Decisions, Releases, OutcomeIsVerdict,
         AbstractStep, Abstract!OwnedNext, Abstract!Collect, Abstract!owned, workerOf, verdictOf, reportOf,
         admissionOf, Ended, Recheck, Observe
<1> QED BY <1>1, <1>2, <1>3, <1>4

\* The first abort and the completion decide the verdict.
LEMMA DecideMaps ==
    ASSUME ~Interruptible, IInv,
           Loop \/ Verdict \/ Complete \/ Raise \/ SuperviseFails \/ RequestCancel \/ Expire \/ ReaderFails
    PROVE  AbstractStep
<1>1. CASE Loop
  BY <1>1 DEF IInv, TypeOK, Ownership, Knows, Events, Decisions, Releases, OutcomeIsVerdict,
         AbstractStep, Abstract!OwnedNext, Abstract!Decide, Abstract!owned, workerOf, verdictOf, reportOf,
         admissionOf, Ended, Loop, Abort
<1>2. CASE Verdict
  BY <1>2 DEF IInv, TypeOK, Ownership, Knows, Events, Decisions, Releases, OutcomeIsVerdict,
         AbstractStep, Abstract!OwnedNext, Abstract!Decide, Abstract!owned, workerOf, verdictOf, reportOf,
         admissionOf, Ended, Verdict, Abort
<1>3. CASE Complete
  BY <1>3 DEF IInv, TypeOK, Ownership, Knows, Events, Decisions, Releases, OutcomeIsVerdict,
         AbstractStep, Abstract!OwnedNext, Abstract!Decide, Abstract!owned, workerOf, verdictOf, reportOf,
         admissionOf, Ended, Complete, MayComplete
<1>4. CASE Raise
  BY <1>4 DEF IInv, TypeOK, Ownership, Knows, Events, Decisions, Releases, OutcomeIsVerdict,
         AbstractStep, Abstract!OwnedNext, Abstract!Decide, Abstract!owned, workerOf, verdictOf, reportOf,
         admissionOf, Ended, Raise, Abort
<1>5. CASE SuperviseFails
  BY <1>5 DEF IInv, TypeOK, Ownership, Knows, Events, Decisions, Releases, OutcomeIsVerdict,
         AbstractStep, Abstract!OwnedNext, Abstract!Decide, Abstract!owned, workerOf, verdictOf, reportOf,
         admissionOf, Ended, SuperviseFails, Abort
<1>6. CASE RequestCancel
  BY <1>6 DEF IInv, TypeOK, Ownership, Knows, Events, Decisions, Releases, OutcomeIsVerdict,
         AbstractStep, Abstract!OwnedNext, Abstract!Decide, Abstract!owned, workerOf, verdictOf, reportOf,
         admissionOf, Ended, RequestCancel, Abort
<1>7. CASE Expire
  BY <1>7 DEF IInv, TypeOK, Ownership, Knows, Events, Decisions, Releases, OutcomeIsVerdict,
         AbstractStep, Abstract!OwnedNext, Abstract!Decide, Abstract!owned, workerOf, verdictOf, reportOf,
         admissionOf, Ended, Expire, Abort
<1>8. CASE ReaderFails
  BY <1>8 DEF IInv, TypeOK, Ownership, Knows, Events, Decisions, Releases, OutcomeIsVerdict,
         AbstractStep, Abstract!OwnedNext, Abstract!Decide, Abstract!owned, workerOf, verdictOf, reportOf,
         admissionOf, Ended, ReaderFails, Abort
<1> QED BY <1>1, <1>2, <1>3, <1>4, <1>5, <1>6, <1>7, <1>8

\* The call concludes, silently only without a live child.
LEMMA ConcludeMaps ==
    ASSUME ~Interruptible, IInv,
           Begin \/ Start \/ Settle
    PROVE  AbstractStep
<1>1. CASE Begin
  BY <1>1 DEF IInv, TypeOK, Ownership, Knows, Events, Decisions, Releases, OutcomeIsVerdict,
         AbstractStep, Abstract!OwnedNext, Abstract!Conclude, Abstract!owned, workerOf, verdictOf, reportOf,
         admissionOf, Ended, Begin
<1>2. CASE Start
  BY <1>2 DEF IInv, TypeOK, Ownership, Knows, Events, Decisions, Releases, OutcomeIsVerdict,
         AbstractStep, Abstract!OwnedNext, Abstract!Conclude, Abstract!owned, workerOf, verdictOf, reportOf,
         admissionOf, Ended, Start
<1>3. CASE Settle
  BY <1>3 DEF IInv, TypeOK, Ownership, Knows, Events, Decisions, Releases, OutcomeIsVerdict,
         AbstractStep, Abstract!OwnedNext, Abstract!Conclude, Abstract!owned, workerOf, verdictOf, reportOf,
         admissionOf, Ended, Settle, CloseRaises
<1> QED BY <1>1, <1>2, <1>3

\* The caller frees admission.
LEMMA FreeMaps ==
    ASSUME ~Interruptible, IInv,
           Release \/ WhenReaped
    PROVE  AbstractStep
<1>1. CASE Release
  BY <1>1 DEF IInv, TypeOK, Ownership, Knows, Events, Decisions, Releases, OutcomeIsVerdict,
         AbstractStep, Abstract!OwnedNext, Abstract!FreeAdmission, Abstract!owned, workerOf, verdictOf, reportOf,
         admissionOf, Ended, Release, Confirmed
<1>2. CASE WhenReaped
  BY <1>2 DEF IInv, TypeOK, Ownership, Knows, Events, Decisions, Releases, OutcomeIsVerdict,
         AbstractStep, Abstract!OwnedNext, Abstract!FreeAdmission, Abstract!owned, workerOf, verdictOf, reportOf,
         admissionOf, Ended, WhenReaped, AwaitsReap
<1> QED BY <1>1, <1>2

\* The reaper frees admission.
LEMMA FreeByReaperMaps ==
    ASSUME ~Interruptible, IInv, NEW t \in Threads,
           RunCallbacks(t)
    PROVE  AbstractStep
<1>1. CASE RunCallbacks(t)
  BY <1>1 DEF IInv, TypeOK, Ownership, Knows, Events, Decisions, Releases, OutcomeIsVerdict,
         AbstractStep, Abstract!OwnedNext, Abstract!FreeAdmission, Abstract!owned, workerOf, verdictOf, reportOf,
         admissionOf, Ended, RunCallbacks
<1> QED BY <1>1

\* Every step of every actor is an abstract step or invisible.
LEMMA StepMaps == ASSUME ~Interruptible, IInv, [Next]_vars PROVE AbstractStep
<1>1. ASSUME NEW t \in Threads, Cleanup(t) PROVE AbstractStep
  BY <1>1, SilentCleanupMaps, CollectCleanupMaps, FreeByReaperMaps DEF Cleanup
<1>2. CASE Caller
  BY <1>1, <1>2, SilentMaps, AcquireMaps, DecideMaps, ConcludeMaps, FreeMaps DEF Caller
<1>3. CASE Owner \/ SuperviseFails
  BY <1>1, <1>3, CollectMaps, DecideMaps DEF Owner
<1>4. CASE Others \/ RequestCancel
  BY <1>4, SilentOthersMaps, DecideMaps DEF Others
<1>5. CASE Begin \/ Deliver \/ CallbackReturns \/ LoopFails
  BY <1>5, SilentMaps, ConcludeMaps
<1>6. ~InterruptClose
  BY DEF InterruptClose
<1>7. CASE UNCHANGED vars
  BY <1>7 DEF vars, AbstractStep, Abstract!owned, workerOf, verdictOf, reportOf,
              admissionOf, Ended
<1> QED BY <1>2, <1>3, <1>4, <1>5, <1>6, <1>7 DEF Next, Operation

\* An uninterrupted call is an owned worker: its threads, signals, timeouts
\* and races implement the promise that ServerAdmission builds on.
THEOREM Refinement ==
    ASSUME ~Interruptible
    PROVE  Spec => ImplementsOwnedWorker
<1>1. IInv /\ [Next]_vars => [Abstract!OwnedNext]_(Abstract!owned)
  BY StepMaps DEF AbstractStep
<1> QED BY <1>1, InitMaps, Invariance, PTL DEF Spec, ImplementsOwnedWorker, Abstract!OwnedSpec

\* Most steps leave decisions, outcome and child alone.
LEMMA KeepIsFinal ==
    ASSUME IInv,
           Register \/ Arm \/ Deliver \/ CallbackReturns \/ LoopFails
           \/ ExitWait \/ Close \/ Await \/ Release \/ WhenReaped
           \/ Overdue \/ WatchdogFires \/ ReaderDrains \/ ReaderEnds
    PROVE  FinalStep
<1>1. CASE Register
  BY <1>1 DEF IInv, TypeOK, Events, FinalStep, Register
<1>2. CASE Arm
  BY <1>2 DEF IInv, TypeOK, Events, FinalStep, Arm
<1>3. CASE Deliver
  BY <1>3 DEF IInv, TypeOK, Events, FinalStep, Deliver
<1>4. CASE CallbackReturns
  BY <1>4 DEF IInv, TypeOK, Events, FinalStep, CallbackReturns
<1>5. CASE LoopFails
  BY <1>5 DEF IInv, TypeOK, Events, FinalStep, LoopFails
<1>6. CASE ExitWait
  BY <1>6 DEF IInv, TypeOK, Events, FinalStep, ExitWait, ExitSeen
<1>7. CASE Close
  BY <1>7 DEF IInv, TypeOK, Events, FinalStep, Close
<1>8. CASE Await
  BY <1>8 DEF IInv, TypeOK, Events, FinalStep, Await
<1>9. CASE Release
  BY <1>9 DEF IInv, TypeOK, Events, FinalStep, Release, Confirmed
<1>10. CASE WhenReaped
  BY <1>10 DEF IInv, TypeOK, Events, FinalStep, WhenReaped, AwaitsReap
<1>11. CASE Overdue
  BY <1>11 DEF IInv, TypeOK, Events, FinalStep, Overdue
<1>12. CASE WatchdogFires
  BY <1>12 DEF IInv, TypeOK, Events, FinalStep, WatchdogFires
<1>13. CASE ReaderDrains
  BY <1>13 DEF IInv, TypeOK, Events, FinalStep, ReaderDrains
<1>14. CASE ReaderEnds
  BY <1>14 DEF IInv, TypeOK, Events, FinalStep, ReaderEnds
<1> QED BY <1>1, <1>2, <1>3, <1>4, <1>5, <1>6, <1>7, <1>8, <1>9, <1>10, <1>11, <1>12, <1>13, <1>14

\* So do the shutdown steps that do not ask for the exit status.
LEMMA KeepCleanupIsFinal ==
    ASSUME IInv, NEW t \in Threads,
           Terminate(t) \/ Kill(t) \/ Fail(t) \/ Report(t) \/ Handoff(t)
           \/ Mark(t) \/ RunCallbacks(t) \/ MarkAttempted(t)
    PROVE  FinalStep
<1>1. CASE Terminate(t)
  BY <1>1 DEF IInv, TypeOK, Events, FinalStep, Terminate, Signal
<1>2. CASE Kill(t)
  BY <1>2 DEF IInv, TypeOK, Events, FinalStep, Kill, Signal
<1>3. CASE Fail(t)
  BY <1>3 DEF IInv, TypeOK, Events, FinalStep, Fail
<1>4. CASE Report(t)
  BY <1>4 DEF IInv, TypeOK, Events, FinalStep, Report
<1>5. CASE Handoff(t)
  BY <1>5 DEF IInv, TypeOK, Events, FinalStep, Handoff
<1>6. CASE Mark(t)
  BY <1>6 DEF IInv, TypeOK, Events, FinalStep, Mark
<1>7. CASE RunCallbacks(t)
  BY <1>7 DEF IInv, TypeOK, Events, FinalStep, RunCallbacks
<1>8. CASE MarkAttempted(t)
  BY <1>8 DEF IInv, TypeOK, Events, FinalStep, MarkAttempted, Return
<1> QED BY <1>1, <1>2, <1>3, <1>4, <1>5, <1>6, <1>7, <1>8

\* A status that was reaped does not change again.
LEMMA ObservingIsFinal ==
    ASSUME IInv, NEW t \in Threads,
           StopPoll(t) \/ Grace(t) \/ KillWait(t) \/ Recheck(t)
    PROVE  FinalStep
<1>1. CASE StopPoll(t)
  BY <1>1 DEF IInv, TypeOK, Ownership, Knows, Events, Decisions, FinalStep, StopPoll, Observe
<1>2. CASE Grace(t)
  BY <1>2 DEF IInv, TypeOK, Ownership, Knows, Events, Decisions, FinalStep, Grace, Observe
<1>3. CASE KillWait(t)
  BY <1>3 DEF IInv, TypeOK, Ownership, Knows, Events, Decisions, FinalStep, KillWait, Observe
<1>4. CASE Recheck(t)
  BY <1>4 DEF IInv, TypeOK, Ownership, Knows, Events, Decisions, FinalStep, Recheck, Observe
<1> QED BY <1>1, <1>2, <1>3, <1>4

\* The child is created and exits before it is reaped.
LEMMA ChildIsFinal ==
    ASSUME IInv,
           Spawn \/ Supervise \/ ReapLater \/ ChildExits
    PROVE  FinalStep
<1>1. CASE Spawn
  BY <1>1 DEF IInv, TypeOK, Ownership, Knows, Events, Decisions, FinalStep, Spawn
<1>2. CASE Supervise
  BY <1>2 DEF IInv, TypeOK, Ownership, Knows, Events, Decisions, FinalStep, Supervise
<1>3. CASE ReapLater
  BY <1>3 DEF IInv, TypeOK, Ownership, Knows, Events, Decisions, FinalStep, ReapLater
<1>4. CASE ChildExits
  BY <1>4 DEF IInv, TypeOK, Ownership, Knows, Events, Decisions, FinalStep, ChildExits
<1> QED BY <1>1, <1>2, <1>3, <1>4

\* An abort or a completion only replaces the absence of a decision.
LEMMA DecidingIsFinal ==
    ASSUME IInv,
           Loop \/ Verdict \/ Complete \/ Raise \/ SuperviseFails
           \/ RequestCancel \/ Expire \/ ReaderFails
    PROVE  FinalStep
<1>1. CASE Loop
  BY <1>1 DEF IInv, TypeOK, Ownership, Knows, Events, Decisions, FinalStep, Loop, Abort
<1>2. CASE Verdict
  BY <1>2 DEF IInv, TypeOK, Ownership, Knows, Events, Decisions, FinalStep, Verdict, Abort
<1>3. CASE Complete
  BY <1>3 DEF IInv, TypeOK, Ownership, Knows, Events, Decisions, FinalStep, Complete, MayComplete
<1>4. CASE Raise
  BY <1>4 DEF IInv, TypeOK, Ownership, Knows, Events, Decisions, FinalStep, Raise, Abort
<1>5. CASE SuperviseFails
  BY <1>5 DEF IInv, TypeOK, Ownership, Knows, Events, Decisions, FinalStep, SuperviseFails, Abort
<1>6. CASE RequestCancel
  BY <1>6 DEF IInv, TypeOK, Ownership, Knows, Events, Decisions, FinalStep, RequestCancel, Abort
<1>7. CASE Expire
  BY <1>7 DEF IInv, TypeOK, Ownership, Knows, Events, Decisions, FinalStep, Expire, Abort
<1>8. CASE ReaderFails
  BY <1>8 DEF IInv, TypeOK, Ownership, Knows, Events, Decisions, FinalStep, ReaderFails, Abort
<1> QED BY <1>1, <1>2, <1>3, <1>4, <1>5, <1>6, <1>7, <1>8

\* An outcome only replaces the absence of one, or gives way to a cleanup error.
LEMMA EndingIsFinal ==
    ASSUME IInv,
           Begin \/ Start \/ Settle \/ InterruptClose
    PROVE  FinalStep
<1>1. CASE Begin
  BY <1>1 DEF IInv, TypeOK, Ownership, Knows, Events, Decisions, FinalStep, Begin
<1>2. CASE Start
  BY <1>2 DEF IInv, TypeOK, Ownership, Knows, Events, Decisions, FinalStep, Start
<1>3. CASE Settle
  BY <1>3 DEF IInv, TypeOK, Ownership, Knows, Events, Decisions, FinalStep, Settle, CloseRaises
<1>4. CASE InterruptClose
  BY <1>4 DEF IInv, TypeOK, Ownership, Knows, Events, Decisions, FinalStep, InterruptClose
<1> QED BY <1>1, <1>2, <1>3, <1>4

\* No step of any actor revises a decision.
LEMMA StepIsFinal == ASSUME IInv, [Next]_vars PROVE [FinalStep]_vars
<1>1. ASSUME NEW t \in Threads, Cleanup(t) PROVE FinalStep
  BY <1>1, KeepCleanupIsFinal, ObservingIsFinal DEF Cleanup
<1>2. CASE Caller
  BY <1>1, <1>2, KeepIsFinal, ChildIsFinal, DecidingIsFinal, EndingIsFinal DEF Caller
<1>3. CASE Owner \/ SuperviseFails
  BY <1>1, <1>3, ChildIsFinal, DecidingIsFinal DEF Owner
<1>4. CASE Others \/ RequestCancel
  BY <1>4, KeepIsFinal, ChildIsFinal, DecidingIsFinal DEF Others
<1>5. CASE Begin \/ Deliver \/ CallbackReturns \/ LoopFails \/ InterruptClose
  BY <1>5, KeepIsFinal, EndingIsFinal
<1> QED BY <1>2, <1>3, <1>4, <1>5 DEF Next, Operation

\* The first cause, a completion and a reap are never revised, by no actor.
THEOREM DecisionsAreFinalHolds == Spec => DecisionsAreFinal
  BY StepIsFinal, Invariance, PTL DEF Spec, DecisionsAreFinal

-----------------------------------------------------------------------------
(* An operation run by an asyncio task                                     *)


\* An invocation that begin() has not admitted has acquired nothing, and only
\* a cancellation can have reached its control.
NotBegun ==
    given /\ ~started =>
        /\ cause \in {"none", "cancel"} /\ ~completed
        /\ ~process /\ child = "none"
        /\ pc["owner"] = "off" /\ watchdog = "off" /\ reader = "off"
        /\ \/ pc["caller"] = "queued"
           \/ pc["caller"] = "done" /\ cause = "cancel"

Decided == cause # "none" \/ completed

\* How the task and the invocation are related at each stage of _run_async.
TaskStage ==
    /\ task \in {"absent", "waiting", "requested", "draining", "ended"}
    /\ task # "absent" => given
    /\ given => outcome # "interrupt"
    /\ task = "waiting" => cause # "cancel" /\ ~again
    /\ task \in {"requested", "draining"} => Decided
    /\ task = "requested" => ~again
    /\ task = "draining" => started
    /\ task = "ended" /\ ~started => cause = "cancel" /\ signal = "cancel" /\ ~again
    /\ task = "ended" /\ started =>
           /\ FutureDone
           /\ \/ signal = Outward
              \/ signal = outcome /\ cause # "cancel" /\ ~again

AsyncInv == IInv /\ NotBegun /\ TaskStage

\* What the task sees of a step of the operation: begin() is not undone, only
\* request_cancel cancels, and a finished invocation keeps its outcome.
TaskView ==
    /\ given' = given
    /\ started => started'
    /\ started' /\ ~started => cause = "none"
    /\ cause' = "cancel" => cause = "cancel"
    /\ pc["caller"] = "done" => pc'["caller"] = "done" /\ outcome' = outcome
    /\ given /\ outcome # "interrupt" => outcome' # "interrupt"
    /\ NotBegun'

-----------------------------------------------------------------------------
\* The invoking thread starts only through begin(), and ends once.
LEMMA CallerView ==
    ASSUME IInv, NotBegun,
           Begin \/ Start \/ Spawn \/ Register \/ Arm \/ Loop \/ Deliver
           \/ CallbackReturns \/ LoopFails \/ ExitWait \/ Verdict \/ Complete
           \/ Raise \/ Close \/ Await \/ InterruptClose \/ Settle \/ Release
           \/ WhenReaped
    PROVE  TaskView
<1>1. CASE Begin
  BY <1>1 DEF IInv, TypeOK, Ownership, Decisions, NotBegun, TaskView, Begin
<1>2. CASE Start
  BY <1>2 DEF IInv, TypeOK, Ownership, Decisions, NotBegun, TaskView, Start
<1>3. CASE Spawn
  BY <1>3 DEF IInv, TypeOK, Ownership, Decisions, NotBegun, TaskView, Spawn
<1>4. CASE Register
  BY <1>4 DEF IInv, TypeOK, Ownership, Decisions, NotBegun, TaskView, Register
<1>5. CASE Arm
  BY <1>5 DEF IInv, TypeOK, Ownership, Decisions, NotBegun, TaskView, Arm
<1>6. CASE Loop
  BY <1>6 DEF IInv, TypeOK, Ownership, Decisions, NotBegun, TaskView, Loop, Abort
<1>7. CASE Deliver
  BY <1>7 DEF IInv, TypeOK, Ownership, Decisions, NotBegun, TaskView, Deliver
<1>8. CASE CallbackReturns
  BY <1>8 DEF IInv, TypeOK, Ownership, Decisions, NotBegun, TaskView,
         CallbackReturns
<1>9. CASE LoopFails
  BY <1>9 DEF IInv, TypeOK, Ownership, Decisions, NotBegun, TaskView, LoopFails
<1>10. CASE ExitWait
  BY <1>10 DEF IInv, TypeOK, Ownership, Decisions, NotBegun, TaskView, ExitWait,
         ExitSeen
<1>11. CASE Verdict
  BY <1>11 DEF IInv, TypeOK, Ownership, Decisions, NotBegun, TaskView, Verdict,
         Abort
<1>12. CASE Complete
  BY <1>12 DEF IInv, TypeOK, Ownership, Decisions, NotBegun, TaskView, Complete,
         MayComplete
<1>13. CASE Raise
  BY <1>13 DEF IInv, TypeOK, Ownership, Decisions, NotBegun, TaskView, Raise, Abort
<1>14. CASE Close
  BY <1>14 DEF IInv, TypeOK, Ownership, Decisions, NotBegun, TaskView, Close
<1>15. CASE Await
  BY <1>15 DEF IInv, TypeOK, Ownership, Decisions, NotBegun, TaskView, Await
<1>16. CASE InterruptClose
  BY <1>16 DEF IInv, TypeOK, Ownership, Decisions, NotBegun, TaskView,
         InterruptClose
<1>17. CASE Settle
  BY <1>17 DEF IInv, TypeOK, Ownership, Decisions, NotBegun, TaskView, Settle,
         CloseRaises
<1>18. CASE Release
  BY <1>18 DEF IInv, TypeOK, Ownership, Decisions, NotBegun, TaskView, Release
<1>19. CASE WhenReaped
  BY <1>19 DEF IInv, TypeOK, Ownership, Decisions, NotBegun, TaskView, WhenReaped
<1> QED BY <1>1, <1>2, <1>3, <1>4, <1>5, <1>6, <1>7, <1>8, <1>9, <1>10, <1>11,
           <1>12, <1>13, <1>14, <1>15, <1>16, <1>17, <1>18, <1>19

\* The owner exists only for an admitted invocation.
LEMMA OwnerView ==
    ASSUME IInv, NotBegun,
           Supervise \/ SuperviseFails \/ ReapLater
    PROVE  TaskView
<1>1. CASE Supervise
  BY <1>1 DEF IInv, TypeOK, Ownership, Decisions, NotBegun, TaskView, Supervise
<1>2. CASE SuperviseFails
  BY <1>2 DEF IInv, TypeOK, Ownership, Decisions, NotBegun, TaskView,
         SuperviseFails, Abort
<1>3. CASE ReapLater
  BY <1>3 DEF IInv, TypeOK, Ownership, Decisions, NotBegun, TaskView, ReapLater
<1> QED BY <1>1, <1>2, <1>3

\* So do the watchdog and the reader.
LEMMA OthersView ==
    ASSUME IInv, NotBegun,
           Overdue \/ WatchdogFires \/ Expire \/ ReaderDrains \/ ReaderEnds
           \/ ReaderFails \/ ChildExits
    PROVE  TaskView
<1>1. CASE Overdue
  BY <1>1 DEF IInv, TypeOK, Ownership, Decisions, NotBegun, TaskView, Overdue
<1>2. CASE WatchdogFires
  BY <1>2 DEF IInv, TypeOK, Ownership, Decisions, NotBegun, TaskView, WatchdogFires
<1>3. CASE Expire
  BY <1>3 DEF IInv, TypeOK, Ownership, Decisions, NotBegun, TaskView, Expire, Abort
<1>4. CASE ReaderDrains
  BY <1>4 DEF IInv, TypeOK, Ownership, Decisions, NotBegun, TaskView, ReaderDrains
<1>5. CASE ReaderEnds
  BY <1>5 DEF IInv, TypeOK, Ownership, Decisions, NotBegun, TaskView, ReaderEnds
<1>6. CASE ReaderFails
  BY <1>6 DEF IInv, TypeOK, Ownership, Decisions, NotBegun, TaskView, ReaderFails,
         Abort
<1>7. CASE ChildExits
  BY <1>7 DEF IInv, TypeOK, Ownership, Decisions, NotBegun, TaskView, ChildExits
<1> QED BY <1>1, <1>2, <1>3, <1>4, <1>5, <1>6, <1>7

\* The shutdown code runs only for an admitted invocation.
LEMMA CleanupView ==
    ASSUME IInv, NotBegun, NEW t \in Threads,
           StopPoll(t) \/ Terminate(t) \/ Grace(t) \/ Kill(t) \/ KillWait(t)
           \/ Recheck(t) \/ Fail(t) \/ Report(t) \/ Handoff(t) \/ Mark(t)
           \/ RunCallbacks(t) \/ MarkAttempted(t)
    PROVE  TaskView
<1>1. CASE StopPoll(t)
  BY <1>1 DEF IInv, TypeOK, Ownership, Decisions, NotBegun, TaskView, StopPoll,
         Observe
<1>2. CASE Terminate(t)
  BY <1>2 DEF IInv, TypeOK, Ownership, Decisions, NotBegun, TaskView, Terminate,
         Signal
<1>3. CASE Grace(t)
  BY <1>3 DEF IInv, TypeOK, Ownership, Decisions, NotBegun, TaskView, Grace, Observe
<1>4. CASE Kill(t)
  BY <1>4 DEF IInv, TypeOK, Ownership, Decisions, NotBegun, TaskView, Kill, Signal
<1>5. CASE KillWait(t)
  BY <1>5 DEF IInv, TypeOK, Ownership, Decisions, NotBegun, TaskView, KillWait,
         Observe
<1>6. CASE Recheck(t)
  BY <1>6 DEF IInv, TypeOK, Ownership, Decisions, NotBegun, TaskView, Recheck,
         Observe
<1>7. CASE Fail(t)
  BY <1>7 DEF IInv, TypeOK, Ownership, Decisions, NotBegun, TaskView, Fail
<1>8. CASE Report(t)
  BY <1>8 DEF IInv, TypeOK, Ownership, Decisions, NotBegun, TaskView, Report
<1>9. CASE Handoff(t)
  BY <1>9 DEF IInv, TypeOK, Ownership, Decisions, NotBegun, TaskView, Handoff
<1>10. CASE Mark(t)
  BY <1>10 DEF IInv, TypeOK, Ownership, Decisions, NotBegun, TaskView, Mark
<1>11. CASE RunCallbacks(t)
  BY <1>11 DEF IInv, TypeOK, Ownership, Decisions, NotBegun, TaskView, RunCallbacks
<1>12. CASE MarkAttempted(t)
  BY <1>12 DEF IInv, TypeOK, Ownership, Decisions, NotBegun, TaskView,
         MarkAttempted, Return
<1> QED BY <1>1, <1>2, <1>3, <1>4, <1>5, <1>6, <1>7, <1>8, <1>9, <1>10, <1>11, <1>12

\* Every step of the operation looks to the task as TaskView says.
LEMMA OperationView == ASSUME IInv, NotBegun, Operation PROVE TaskView
<1>1. ASSUME NEW t \in Threads, Cleanup(t) PROVE TaskView
  BY <1>1, CleanupView DEF Cleanup
<1> QED BY <1>1, CallerView, OwnerView, OthersView DEF Operation, Caller, Owner, Others

-----------------------------------------------------------------------------
\* A step of the task leaves the operation alone or requests its cancellation.
LEMMA AsyncStepMaps == [AsyncNext]_asyncVars => [Next]_vars
  BY DEF AsyncNext, Task, TaskReturns, TaskCancelled, ReadStarted, CancelledAgain,
         TaskDrains, asyncVars, vars, Next

\* An operation under a task is an operation.
THEOREM AsyncImplementsOperation == AsyncSpec => Spec
  BY AsyncStepMaps, PTL DEF AsyncSpec, AsyncInit, Spec

\* Under a task, the arbiter decides once and run_worker reports that decision.
THEOREM AsyncVerdictStands == AsyncSpec => []VerdictStands
  BY AsyncImplementsOperation, VerdictStandsHolds, PTL

\* Under a task, a child that survives the call is reported and stays rooted.
THEOREM AsyncOwnershipReported ==
    ASSUME ~Interruptible
    PROVE  AsyncSpec => []OwnershipReported
  BY AsyncImplementsOperation, OwnershipReportedHolds, PTL

\* Under a task, admission is released exactly once.
THEOREM AsyncAdmissionExact ==
    ASSUME ~Interruptible
    PROVE  AsyncSpec => []AdmissionExact
  BY AsyncImplementsOperation, AdmissionExactHolds, PTL

\* Under a task, the operation implements the abstract owned worker.
THEOREM AsyncRefinement ==
    ASSUME ~Interruptible
    PROVE  AsyncSpec => ImplementsOwnedWorker
  BY AsyncImplementsOperation, Refinement, PTL

-----------------------------------------------------------------------------
\* The task waits for an invocation that has not begun, or does not exist.
LEMMA InitAsyncInv == AsyncInit => AsyncInv
<1> SUFFICES ASSUME AsyncInit PROVE AsyncInv
  OBVIOUS
<1>1. IInv
  BY InitIInv DEF AsyncInit
<1>2. NotBegun
  BY DEF AsyncInit, Init, NotBegun
<1>3. TaskStage
  BY DEF AsyncInit, Init, TaskStage
<1> QED BY <1>1, <1>2, <1>3 DEF AsyncInv

\* A step of the operation moves no task.
LEMMA OperationKeepsTask ==
    ASSUME AsyncInv, Operation, UNCHANGED <<task, again, signal>>
    PROVE  (NotBegun /\ TaskStage)'
<1>1. TaskView
  BY OperationView DEF AsyncInv
<1>2. [Next]_vars
  BY DEF Next
<1>3. Decided => Decided'
  BY <1>2, StepIsFinal DEF AsyncInv, FinalStep, Decided, vars
<1>4. task = "ended" /\ ~started => ~started'
  BY <1>1 DEF AsyncInv, TaskStage, TaskView
<1>5. cause = "cancel" => cause' = "cancel"
  BY <1>2, StepIsFinal DEF AsyncInv, FinalStep, vars
<1> QED BY <1>1, <1>3, <1>4, <1>5
        DEF AsyncInv, TaskStage, TaskView, FutureDone, Outward

\* A delivered cancellation leaves a decision behind: its own or an earlier one.
LEMMA RequestCancelView ==
    ASSUME AsyncInv, RequestCancel
    PROVE  Decided' /\ NotBegun'
  BY DEF AsyncInv, IInv, TypeOK, Decisions, RequestCancel, Abort, Decided, NotBegun

\* Every step of the operation and of its task preserves the invariant.
LEMMA StepAsyncInv == AsyncInv /\ [AsyncNext]_asyncVars => AsyncInv'
<1> SUFFICES ASSUME AsyncInv, [AsyncNext]_asyncVars PROVE AsyncInv'
  OBVIOUS
<1>1. IInv'
  BY AsyncStepMaps, StepIInv DEF AsyncInv
<1>2. CASE Operation /\ UNCHANGED <<task, again, signal>>
  BY <1>1, <1>2, OperationKeepsTask DEF AsyncInv
<1>3. CASE task = "absent" /\ RequestCancel /\ UNCHANGED <<task, again, signal>>
  <2>1. NotBegun'
    BY <1>3, RequestCancelView
  <2>2. TaskStage'
    BY <1>3 DEF AsyncInv, TaskStage, RequestCancel
  <2> QED BY <1>1, <2>1, <2>2 DEF AsyncInv
<1>4. CASE TaskCancelled
  <2>1. NotBegun' /\ Decided'
    BY <1>4, RequestCancelView DEF TaskCancelled
  <2>2. TaskStage'
    BY <1>4, <2>1 DEF AsyncInv, TaskStage, TaskCancelled, RequestCancel
  <2> QED BY <1>1, <2>1, <2>2 DEF AsyncInv
<1>5. CASE TaskReturns
  BY <1>1, <1>5 DEF AsyncInv, TaskStage, NotBegun, TaskReturns, FutureDone, vars
<1>6. CASE ReadStarted
  BY <1>1, <1>6 DEF AsyncInv, TaskStage, NotBegun, ReadStarted, NotStarted, Decided, vars
<1>7. CASE CancelledAgain
  BY <1>1, <1>7 DEF AsyncInv, TaskStage, NotBegun, CancelledAgain, Decided, vars
<1>8. CASE TaskDrains
  BY <1>1, <1>8 DEF AsyncInv, TaskStage, NotBegun, TaskDrains, DrainEnds, FutureDone,
                    Outward, vars
<1>9. CASE UNCHANGED asyncVars
  BY <1>1, <1>9 DEF AsyncInv, TaskStage, NotBegun, FutureDone, Outward, Decided,
                    asyncVars, vars
<1> QED BY <1>2, <1>3, <1>4, <1>5, <1>6, <1>7, <1>8, <1>9 DEF AsyncNext, Task

\* A task that ends has left no work behind and hides neither a cancellation
\* nor an unconfirmed cleanup, whenever the cancellations are delivered and
\* whichever way the invocation ends.
THEOREM TaskSettledHolds == AsyncSpec => []TaskSettled
<1>1. AsyncInv => TaskSettled
  <2> SUFFICES ASSUME AsyncInv, task = "ended" PROVE TaskSettled
    BY DEF TaskSettled, TaskOwnsWork, CancellationIsOutward
  <2>1. CASE ~started
    BY <2>1 DEF AsyncInv, TaskStage, NotBegun, TaskSettled, TaskOwnsWork,
                CancellationIsOutward
  <2>2. CASE started
    <3>1. outcome # "cleanup" => child \in {"none", "collected"}
      BY <2>2 DEF AsyncInv, TaskStage, FutureDone, IInv, TypeOK, Ownership, Events,
                  Decisions, Ended
    <3>2. outcome = "success" => completed
      BY <2>2 DEF AsyncInv, TaskStage, FutureDone, IInv, OutcomeIsVerdict, Ended
    <3>3. TaskOwnsWork
      BY <2>2, <3>1 DEF AsyncInv, TaskStage, TaskOwnsWork, Outward
    <3>4. CancellationIsOutward
      BY <2>2, <3>2 DEF AsyncInv, TaskStage, CancellationIsOutward, Outward
    <3> QED BY <3>3, <3>4 DEF TaskSettled
  <2> QED BY <2>1, <2>2
<1>2. AsyncSpec => []AsyncInv
  BY InitAsyncInv, StepAsyncInv, PTL DEF AsyncSpec
<1> QED BY <1>1, <1>2, PTL
=============================================================================
