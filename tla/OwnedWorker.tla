---------------------------- MODULE OwnedWorker ----------------------------
(***************************************************************************)
(* What an isolated operation promises, without its threads: at most one   *)
(* child, one verdict, one report, and admission that is given back only   *)
(* when the child is certainly gone.  ExecutionControl implements it and   *)
(* ServerAdmission builds on it.                                           *)
(***************************************************************************)

VARIABLES
    worker,     \* "none", "live", or "gone" once its exit has been collected
    verdict,    \* "open", then "success" or "failure" for ever
    report,     \* "running", then what the caller learns about the child
    admission   \* "held" until the run lock is released

owned == <<worker, verdict, report, admission>>

OwnedInit ==
    /\ worker = "none" /\ verdict = "open"
    /\ report = "running" /\ admission = "held"

\* A child may even be created after a cancellation won; it is then doomed.
Acquire ==
    /\ worker = "none" /\ verdict # "success" /\ report = "running"
    /\ worker' = "live"
    /\ UNCHANGED <<verdict, report, admission>>

Collect ==
    /\ worker = "live" /\ worker' = "gone"
    /\ UNCHANGED <<verdict, report, admission>>

\* Success requires a collected child; a failure may be decided at any time.
Decide ==
    /\ verdict = "open"
    /\ \/ verdict' = "success" /\ worker = "gone"
       \/ verdict' = "failure"
    /\ UNCHANGED <<worker, report, admission>>

\* The call ends.  It may only be silent about a child that is not live, and
\* says so, with a failed verdict, when it cannot vouch for that.
Conclude ==
    /\ report = "running"
    /\ \/ report' = "clean" /\ worker # "live" /\ UNCHANGED verdict
       \/ report' = "clean" /\ worker = "none" /\ verdict' = "failure"
       \/ report' = "unconfirmed" /\ verdict = "failure" /\ UNCHANGED verdict
    /\ UNCHANGED <<worker, admission>>

FreeAdmission ==
    /\ admission = "held" /\ report # "running" /\ worker # "live"
    /\ admission' = "free"
    /\ UNCHANGED <<worker, verdict, report>>

OwnedNext == Acquire \/ Collect \/ Decide \/ Conclude \/ FreeAdmission

OwnedSpec == OwnedInit /\ [][OwnedNext]_owned
=============================================================================
