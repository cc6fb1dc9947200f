------------------------ MODULE SequentialPlanProofs ------------------------
(***************************************************************************)
(* The sequential plan for every number of trials, every deadline, limit   *)
(* and pause: the history it leaves is one that plan_reports accepts, and  *)
(* every child was owned to its end.                                       *)
(*                                                                         *)
(* The invariant says where run() may be with which child (Position), what *)
(* a recorded trial looks like (Recorded), that the trials before an open  *)
(* one call for no stop (Open), what each stop is owed to (Stopped), that  *)
(* a cancellation is due or has decided (Asked), that the kept events are  *)
(* a prefix (Prefix) and that the clock has passed all the time that was   *)
(* recorded (Clock).                                                       *)
(***************************************************************************)
EXTENDS SequentialPlan, NumberLemmas

Before   == {"yield", "rest", "pause", "trial"}
Waiting  == {"arm", "wait"}
Stages   == {"next", "ended"} \cup Before \cup Waiting \cup {"drain", "classify"}

RecordType ==
    [status : Statuses \cup {"none"}, reason : Reasons \cup {"none"}, elapsed : Int,
     observed : Nat, kept : Seq(Nat)]

Types ==
    /\ settings \in [stopOnError : BOOLEAN, timeout : Timeouts, limit : Limits]
    /\ at \in Stages /\ index \in 1..(N + 1) /\ stop \in Reasons \cup {"none"}
    /\ task \in [Trials -> {"none"} \cup Live \cup Outcomes] /\ sent \in [Trials -> Nat]
    /\ records \in [Trials -> RecordType]
    /\ cancel \in [requested : BOOLEAN, due : BOOLEAN]

\* A stop ends the loop at its next turn; only a drained or finished child is
\* still awaited.
Position ==
    /\ at \notin {"next", "ended"} => index <= N
    /\ at = "ended" => index = N + 1
    /\ at \in Before \cup Waiting => stop = "none"
    /\ at \in {"drain", "classify"} => stop \in {"none", "timeout", "cancelled"}
    /\ at = "drain" => stop # "none"
    /\ at = "wait" /\ wake # NoTime => settings.timeout # NoTime

\* Only the trial at index has a child, and drain() is entered once.
Owned ==
    /\ \A t \in Trials : sent[t] <= 1
    /\ \A t \in Trials : t < index => task[t] \in Outcomes \cup {"none"}
    /\ \A t \in Trials : t > index => task[t] = "none" /\ sent[t] = 0
    /\ at \in Before \cup {"next"} /\ index <= N => task[index] = "none" /\ sent[index] = 0
    /\ at \in Waiting => task[index] \in Live \cup Outcomes /\ sent[index] = 0
    /\ at = "drain" => task[index] \in Live \cup Outcomes
    /\ at = "classify" => task[index] \in Outcomes

\* A trial that calls for no stop.
Harmless(record) ==
    /\ record.status \notin Interrupted \cup {"not_run"}
    /\ settings.stopOnError => record.status = "completed"

\* The stop that a record names is the one that won.
NamesStop(record) ==
    /\ record.status \in Interrupted \cup {"not_run"} => record.reason = stop /\ stop # "none"
    /\ record.status = "cancelled" => stop = "cancelled"
    /\ record.status = "timed_out" => stop = "timeout"
    /\ record.status = "cleanup_failed" => stop \in {"cleanup_failed", "cancelled", "timeout"}

KeepsPrefix(record) ==
    /\ ValidEvents(record)
    /\ \A i \in 1..Len(record.kept) : record.kept[i] = i

\* The record of a trial agrees with its child and with the stop.
Entry(t) ==
    /\ (task[t] = "none") <=> (records[t].status = "not_run")
    /\ (task[t] \in Cleanups) <=> (records[t].status = "cleanup_failed")
    /\ records[t].status # "none"
    /\ records[t].status # "not_run" =>
           records[t].elapsed \in Nat /\ \A u \in Trials : u < t => Harmless(records[u])
    /\ NamesStop(records[t]) /\ KeepsPrefix(records[t])

Recorded == \A t \in Trials : t < index => Entry(t)

\* Whoever is not stopped has only harmless trials behind it.
Open ==
    stop = "none" \/ at \notin {"next", "ended"} =>
        \A t \in Trials : t < index => Harmless(records[t])

Stopped ==
    /\ stop = "elapsed_admission_limit" => settings.limit # NoTime
    /\ stop = "timeout" => settings.timeout # NoTime
    /\ stop = "stop_on_error" =>
           /\ settings.stopOnError
           /\ \E t \in Trials : t < index /\ records[t].status \notin {"not_run", "completed"}
    /\ stop = "cleanup_failed" =>
           \E t \in Trials : t < index /\ records[t].status = "cleanup_failed"

Asked ==
    /\ cancel.due => at \in Awaits
    /\ cancel.requested => cancel.due \/ stop \in {"cancelled", "timeout"}

Prefix ==
    /\ events.observed \in Nat /\ events.closed \in BOOLEAN
    /\ events.kept \in Seq(Nat) /\ Len(events.kept) <= Retained
    /\ Len(events.kept) <= events.observed
    /\ ~events.closed => Len(events.kept) = events.observed
    /\ \A i \in 1..Len(events.kept) : events.kept[i] = i

\* The time recorded for the trials so far.
Spent == SumOf([t \in 1..(index - 1) |-> Measured(t)])

Clock ==
    /\ now \in Nat /\ since \in Nat /\ paused \in Nat /\ since <= now
    /\ Spent + paused <= now
    /\ at \in Waiting \cup {"pause", "drain", "classify"} => Spent + paused <= since

Ended == at = "ended" => result.kind = Outward /\ result.elapsed = now

PlanInv ==
    /\ Types /\ Position /\ Owned /\ Recorded /\ Open /\ Stopped /\ Asked /\ Prefix
    /\ Clock /\ Ended

-----------------------------------------------------------------------------
(* The invariant is what the readers of a history ask for                  *)

LEMMA InvIsEnough == PlanInv => TrialsOwned
<1> SUFFICES ASSUME PlanInv PROVE TrialsOwned
  OBVIOUS
<1> USE SequentialAssumption DEF PlanAccepted
<1>1. ChildOwned
  <2>1. \A t \in Trials : sent[t] <= 1
    BY DEF PlanInv, Owned
  <2>2. ASSUME NEW t \in Trials, task[t] \in Live
        PROVE  t = index /\ at \in {"arm", "wait", "drain"}
    <3>1. task[t] \notin Outcomes \cup {"none"}
      BY <2>2 DEF Live, Outcomes, Native, Cleanups
    <3>2. t = index
      <4>1. ~(t < index) /\ ~(t > index)
        BY <3>1 DEF PlanInv, Owned
      <4> QED BY <4>1 DEF PlanInv, Types, Trials
    <3>3. at \notin Before \cup {"next", "classify"}
      BY <3>1, <3>2 DEF PlanInv, Owned, Trials
    <3>4. at # "ended"
      BY <3>2 DEF PlanInv, Position, Trials
    <3> QED BY <3>2, <3>3, <3>4 DEF PlanInv, Types, Stages, Waiting
  <2>3. CASE at = "ended"
    <3>1. index = N + 1 /\ \A t \in Trials : t < index
      BY <2>3 DEF PlanInv, Position, Trials
    <3>2. \A t \in Trials : (task[t] = "none") <=> (records[t].status = "not_run")
      BY <3>1 DEF PlanInv, Recorded, Entry
    <3>3. \A t \in Trials : (task[t] \in Cleanups) <=> (records[t].status = "cleanup_failed")
      BY <3>1 DEF PlanInv, Recorded, Entry
    <3>4. result.kind = Outward
      BY <2>3 DEF PlanInv, Ended
    <3>5. (result.kind = "cleanup") <=> \E t \in Trials : task[t] \in Cleanups
      BY <3>3, <3>4 DEF Outward, Unconfirmed
    <3>6. cancel.requested => stop \in {"cancelled", "timeout"}
      BY <2>3 DEF PlanInv, Asked, Awaits
    <3>7. cancel.requested => result.kind # "returned"
      BY <3>4, <3>6 DEF Outward
    <3> QED BY <2>1, <2>2, <3>2, <3>5, <3>7 DEF ChildOwned
  <2> QED BY <2>1, <2>2, <2>3 DEF ChildOwned
<1>2. ASSUME at = "ended" PROVE ValidateHistory
  <2>1. index = N + 1 /\ \A t \in Trials : t < index
    BY <1>2 DEF PlanInv, Position, Trials
  <2>2. ASSUME NEW t \in Trials PROVE ValidRecord(t)
    <3>1. /\ NamesStop(records[t]) /\ records[t] \in RecordType
          /\ records[t].status # "not_run" =>
                 records[t].elapsed \in Nat /\ \A u \in Trials : u < t => Harmless(records[u])
      BY <2>1 DEF PlanInv, Recorded, Entry, Types
    <3>2. CASE t \notin Executed
      BY <3>1, <3>2 DEF ValidRecord, NamesStop, Executed
    <3>3. CASE t \in Executed
      <4>1. \A u \in 1..(t - 1) : u \in Trials /\ u < t
        BY DEF Trials
      <4>2. records[t].elapsed >= 0 /\ records[t].status # "not_run"
        BY <3>1, <3>3 DEF Executed
      <4>3. \A u \in 1..(t - 1) :
                /\ u \in Executed /\ records[u].status \notin Interrupted
                /\ settings.stopOnError => records[u].status = "completed"
        BY <3>1, <4>1, <4>2 DEF Harmless, Executed
      <4>4. records[t].status \in Interrupted =>
                /\ records[t].reason = stop
                /\ stop \in CASE records[t].status = "cancelled" -> {"cancelled"}
                              [] records[t].status = "timed_out" -> {"timeout"}
                              [] OTHER -> {"cleanup_failed", "cancelled", "timeout"}
        BY <3>1 DEF NamesStop, Interrupted
      <4> QED BY <3>3, <4>2, <4>3, <4>4 DEF ValidRecord
    <3> QED BY <3>2, <3>3
  <2>3. \A t \in Trials : ValidEvents(records[t])
    BY <2>1 DEF PlanInv, Recorded, Entry, KeepsPrefix
  <2>4. SumOf([t \in Trials |-> Measured(t)]) + paused <= result.elapsed
    <3>1. Spent + paused <= result.elapsed
      BY <1>2 DEF PlanInv, Clock, Ended
    <3>2. 1..(index - 1) = Trials
      BY <2>1 DEF Trials
    <3> QED BY <3>1, <3>2 DEF Spent
  <2>5. /\ stop = "elapsed_admission_limit" => settings.limit # NoTime
        /\ stop = "timeout" => settings.timeout # NoTime
        /\ stop = "stop_on_error" =>
               settings.stopOnError /\ \E t \in Executed : records[t].status # "completed"
        /\ stop = "cleanup_failed" => Unconfirmed # {}
    BY DEF PlanInv, Stopped, Executed, Unconfirmed
  <2> QED BY <2>2, <2>3, <2>4, <2>5 DEF ValidateHistory
<1>3. ASSUME at = "ended"
      PROVE  \A t \in Trials : \A i \in 1..Len(records[t].kept) : records[t].kept[i] = i
  <2>1. \A t \in Trials : t < index
    BY <1>3 DEF PlanInv, Position, Trials
  <2> QED BY <2>1 DEF PlanInv, Recorded, Entry, KeepsPrefix
<1> QED BY <1>1, <1>2, <1>3 DEF TrialsOwned, HistoryAccepted

LEMMA InitPlanInv == Init => PlanInv
<1> SUFFICES ASSUME Init PROVE PlanInv
  OBVIOUS
<1> USE SequentialAssumption DEF PlanAccepted
<1>1. /\ settings \in [stopOnError : BOOLEAN, timeout : Timeouts, limit : Limits]
      /\ now = 0 /\ at = "next" /\ index = 1 /\ stop = "none"
      /\ since = 0 /\ paused = 0 /\ events = NoEvents
      /\ task = [t \in Trials |-> "none"] /\ sent = [t \in Trials |-> 0]
      /\ records = [t \in Trials |-> NoRecord]
      /\ cancel = [requested |-> FALSE, due |-> FALSE]
  BY DEF Init
<1>2. NoRecord \in RecordType
  BY DEF NoRecord, RecordType, NoTime
<1>3. Types
  BY <1>1, <1>2 DEF Types, Stages
<1>4. Position /\ Owned
  BY <1>1 DEF Position, Owned, Before, Waiting, Trials
<1>5. ~\E t \in Trials : t < index
  BY <1>1 DEF Trials
<1>6. Recorded /\ Open /\ Stopped
  BY <1>1, <1>5 DEF Recorded, Open, Stopped
<1>7. Asked /\ Ended
  BY <1>1 DEF Asked, Ended
<1>8. Prefix
  BY <1>1 DEF Prefix, NoEvents
<1>9. Clock
  <2>1. [t \in 1..(index - 1) |-> Measured(t)] = <<>>
    BY <1>1
  <2>2. Spent = 0
    BY <2>1, SumEmpty DEF Spent
  <2> QED BY <1>1, <2>2 DEF Clock, Waiting
<1> QED BY <1>3, <1>4, <1>6, <1>7, <1>8, <1>9 DEF PlanInv

-----------------------------------------------------------------------------
(* Steps that write no record                                              *)

Writes == NotRun \/ Classify

\* What such a step may change of what the history depends on: the child of
\* the current trial, and a stop that was not decided before.
Mild ==
    /\ UNCHANGED <<settings, index, records>>
    /\ \A t \in Trials : t # index => task'[t] = task[t] /\ sent'[t] = sent[t]
    /\ stop # "none" => stop' = stop
    /\ stop' = "none" \/ at' \notin {"next", "ended"} =>
           stop = "none" \/ at \notin {"next", "ended"}

LEMMA ChildRequest ==
    ASSUME Types, index \in Trials, CancelChild
    PROVE  /\ \A t \in Trials : t # index => task'[t] = task[t] /\ sent'[t] = sent[t]
           /\ task' \in [Trials -> {"none"} \cup Live \cup Outcomes] /\ sent' \in [Trials -> Nat]
           /\ FirstRequest => task'[index] \in {"doomed", "stopping"} /\ sent'[index] = sent[index] + 1
           /\ ~FirstRequest => task' = task /\ sent' = sent
<1>1. CASE FirstRequest
  <2>1. /\ task' = [task EXCEPT ![index] = IF @ \in {"created", "doomed"} THEN "doomed"
                                           ELSE "stopping"]
        /\ sent' = [sent EXCEPT ![index] = @ + 1]
    BY <1>1 DEF CancelChild
  <2> QED BY <1>1, <2>1 DEF Types, Live
<1>2. CASE ~FirstRequest
  BY <1>2 DEF CancelChild, Types
<1> QED BY <1>1, <1>2

LEMMA MildSteps ==
    ASSUME PlanInv, Next, ~Writes
    PROVE  Mild
<1>0. Types /\ Position /\ (at \notin {"next", "ended"} => index \in Trials)
  <2>1. Types /\ Position
    BY DEF PlanInv
  <2> QED BY <2>1, SequentialAssumption DEF Types, Position, Trials, PlanAccepted
<1>1. CASE NextTrial \/ Finish \/ Rest \/ Arm \/ DrainReturns \/ Callback \/ RequestCancel \/ Tick
  BY <1>1 DEF NextTrial, Finish, Rest, Arm, DrainReturns, Callback, RequestCancel, Tick, Mild
<1>2. CASE Resume \/ PauseEnds \/ PauseCancelled
  BY <1>2 DEF Resume, PauseEnds, PauseCancelled, CheckLimits, First, Mild
<1>3. CASE StartTrial
  BY <1>0, <1>3 DEF StartTrial, Mild, Types
<1>4. CASE WaitReturns \/ WaitCancelled
  <2>1. /\ UNCHANGED <<settings, index, records>> /\ CancelChild /\ at \in {"wait", "drain"}
        /\ stop # "none" => stop' = stop
    BY <1>4 DEF WaitReturns, WaitCancelled, First
  <2> QED BY <1>0, <2>1, ChildRequest DEF Mild
<1>5. CASE ChildStarts \/ ChildEnds \/ ChildInterrupted \/ ChildStops
  <2>1. PICK state : Becomes(state)
    BY <1>5 DEF ChildStarts, ChildEnds, ChildInterrupted, ChildStops
  <2> QED BY <1>0, <2>1 DEF Becomes, Mild, Types
<1> QED BY <1>1, <1>2, <1>3, <1>4, <1>5 DEF Next, Run, Writes

\* The history keeps its shape in such a step.
LEMMA MildHistory ==
    ASSUME PlanInv, Mild
    PROVE  Recorded' /\ Open' /\ Spent' = Spent
<1>1. \A t \in Trials : t < index => task'[t] = task[t]
  BY DEF Mild, PlanInv, Types, Trials
<1>2. ASSUME NEW t \in Trials, t < index
      PROVE  NamesStop(records[t])' /\ KeepsPrefix(records[t])' /\ Harmless(records[t])' = Harmless(records[t])
  <2>1. NamesStop(records[t]) /\ KeepsPrefix(records[t])
    BY <1>2 DEF PlanInv, Recorded, Entry
  <2>2. NamesStop(records[t])'
    BY <2>1 DEF NamesStop, Mild, Interrupted
  <2> QED BY <2>1, <2>2 DEF KeepsPrefix, ValidEvents, Mild, Harmless
<1>3. \A u \in Trials : Harmless(records[u])' = Harmless(records[u])
  BY DEF Mild, Harmless
<1>4. Recorded'
  BY <1>1, <1>2, <1>3 DEF Recorded, Entry, PlanInv, Mild
<1>5. Open'
  BY <1>3 DEF Open, PlanInv, Mild
<1>6. Spent' = Spent
  BY DEF Spent, Measured, Mild
<1> QED BY <1>4, <1>5, <1>6

-----------------------------------------------------------------------------
(* The record of a finished child                                          *)

ReasonOf == IF Calls(task[index]) = "none" THEN stop ELSE First(stop, Calls(task[index]))
Verdict  == StatusOf(task[index], ReasonOf)

\* What Calls and StatusOf make of an outcome: an interrupted trial names the
\* stop that won, and a trial that names none was not interrupted.
LEMMA VerdictNamesStop ==
    ASSUME task[index] \in Outcomes, stop \in {"none", "timeout", "cancelled"}
    PROVE  /\ Verdict \in Statuses \ {"not_run"}
           /\ ReasonOf \in {"none", "timeout", "cancelled", "cleanup_failed"}
           /\ stop # "none" => ReasonOf = stop
           /\ (task[index] \in Cleanups) <=> (Verdict = "cleanup_failed")
           /\ Verdict \in Interrupted => ReasonOf # "none"
           /\ Verdict = "cancelled" => ReasonOf = "cancelled"
           /\ Verdict = "timed_out" => ReasonOf = "timeout"
           /\ ReasonOf = "timeout" /\ stop # "timeout" => settings.timeout # NoTime
           /\ ReasonOf = "cleanup_failed" => Verdict = "cleanup_failed"
<1> DEFINE outcome == task[index]
           calls == Calls(outcome)
<1>1. /\ outcome \in Native \cup {"exception"} => calls = "none"
      /\ outcome \in {"cancelled", "cleanupCancelled"} => calls = "cancelled"
      /\ outcome = "timeout" => calls \in {"none", "timeout"}
      /\ outcome = "cleanup" => calls = "cleanup_failed"
      /\ outcome = "cleanupTimeout" => calls \in {"timeout", "cleanup_failed"}
      /\ calls = "timeout" => settings.timeout # NoTime
  BY DEF Calls, Native
<1>2. CASE outcome \in Native
  <2>1. calls = "none" /\ ReasonOf = stop
    BY <1>1, <1>2 DEF ReasonOf
  <2>2. Verdict = outcome
    BY <1>2 DEF Verdict, StatusOf
  <2> QED BY <1>2, <2>1, <2>2 DEF Native, Statuses, Cleanups, Interrupted
<1>3. CASE outcome \in Cleanups
  <2>1. calls \in {"timeout", "cancelled", "cleanup_failed"} /\ ReasonOf = First(stop, calls)
    BY <1>1, <1>3 DEF Cleanups, ReasonOf
  <2>2. Verdict = "cleanup_failed"
    BY <1>3 DEF Verdict, StatusOf, Native, Cleanups
  <2> QED BY <1>1, <1>3, <2>1, <2>2 DEF First, Statuses, Interrupted
<1>4. CASE outcome = "exception"
  <2>1. calls = "none" /\ ReasonOf = stop
    BY <1>1, <1>4 DEF ReasonOf
  <2>2. Verdict = "exception"
    BY <1>4, <2>1 DEF Verdict, StatusOf, Native, Cleanups
  <2> QED BY <1>4, <2>1, <2>2 DEF Statuses, Cleanups, Interrupted
<1>5. CASE outcome = "cancelled"
  <2>1. calls = "cancelled" /\ ReasonOf = First(stop, "cancelled")
    BY <1>1, <1>5 DEF ReasonOf
  <2>2. Verdict = IF ReasonOf = "timeout" THEN "timed_out" ELSE "cancelled"
    BY <1>5, <2>1 DEF Verdict, StatusOf, Native, Cleanups
  <2> QED BY <1>5, <2>1, <2>2 DEF First, Statuses, Cleanups, Interrupted
<1>6. CASE outcome = "timeout" /\ calls = "none"
  <2>1. ReasonOf = stop
    BY <1>6 DEF ReasonOf
  <2>2. Verdict = "exception"
    BY <1>6 DEF Verdict, StatusOf, Native, Cleanups
  <2> QED BY <1>6, <2>1, <2>2 DEF Statuses, Cleanups, Interrupted
<1>7. CASE outcome = "timeout" /\ calls = "timeout"
  <2>1. ReasonOf = First(stop, "timeout")
    BY <1>7 DEF ReasonOf
  <2>2. Verdict = IF ReasonOf # "cancelled" THEN "timed_out" ELSE "cancelled"
    BY <1>7 DEF Verdict, StatusOf, Native, Cleanups
  <2> QED BY <1>1, <1>7, <2>1, <2>2 DEF First, Statuses, Cleanups, Interrupted
<1> QED BY <1>1, <1>2, <1>3, <1>4, <1>5, <1>6, <1>7 DEF Outcomes

\* The effect of Classify on the record of its trial and on the stop.
Kept == Verdict \notin Native

LEMMA ClassifyEffect ==
    ASSUME PlanInv, Classify
    PROVE  /\ index \in Trials /\ index' = index + 1 /\ at' = "next"
           /\ task[index] \in Outcomes /\ stop \in {"none", "timeout", "cancelled"}
           /\ UNCHANGED <<settings, now, task, sent, since, paused, events, cancel, result>>
           /\ records' = [records EXCEPT ![index] =
                  [status   |-> Verdict,
                   reason   |-> IF Verdict \in Interrupted THEN ReasonOf ELSE "none",
                   elapsed  |-> now - since,
                   observed |-> IF Kept THEN events.observed ELSE 0,
                   kept     |-> IF Kept THEN events.kept ELSE <<>>]]
           /\ stop' = IF Verdict # "completed" /\ settings.stopOnError
                      THEN First(ReasonOf, "stop_on_error") ELSE ReasonOf
<1>1. at = "classify"
  BY DEF Classify
<1>2. index \in Trials /\ task[index] \in Outcomes /\ stop \in {"none", "timeout", "cancelled"}
  BY <1>1, SequentialAssumption DEF PlanInv, Types, Position, Owned, Trials, PlanAccepted
<1> QED BY <1>2, Zenon DEF Classify, Verdict, ReasonOf, Kept

\* What both writing steps do to the history: they add the record of the
\* trial at index, and leave the earlier ones.
LEMMA Written ==
    ASSUME PlanInv, NEW record \in RecordType, index \in Trials, index' = index + 1,
           records' = [records EXCEPT ![index] = record]
    PROVE  /\ records' \in [Trials -> RecordType] /\ index' \in 1..(N + 1)
           /\ records'[index] = record
           /\ \A t \in Trials : t < index => records'[t] = records[t]
           /\ \A t \in Trials : t < index' => t < index \/ t = index
<1>1. records \in [Trials -> RecordType] /\ N \in Nat
  BY SequentialAssumption DEF PlanInv, Types, PlanAccepted
<1> QED BY <1>1 DEF Trials

\* The time spent grows by what is measured of the new record.
LEMMA SpentGrows ==
    ASSUME PlanInv, NEW record \in RecordType, index \in Trials, index' = index + 1,
           records' = [records EXCEPT ![index] = record]
    PROVE  /\ Spent \in Int
           /\ Spent' = Spent + (IF record.elapsed = NoTime THEN 0 ELSE record.elapsed)
<1> DEFINE s == [t \in 1..(index - 1) |-> Measured(t)]
           x == IF record.elapsed = NoTime THEN 0 ELSE record.elapsed
<1>1. PICK n \in Nat \ {0} : n = index /\ \A t \in 1..(n - 1) : t \in Trials /\ t < n
  BY SequentialAssumption DEF Trials, PlanAccepted
<1>2. \A t \in Trials : records[t].elapsed \in Int
  BY DEF PlanInv, Types, RecordType
<1>3. \A t \in 1..(n - 1) : Measured(t) \in Int
  BY <1>1, <1>2 DEF Measured
<1>4. s \in Seq(Int) /\ Len(s) = n - 1 /\ x \in Int
  BY <1>1, <1>3 DEF RecordType
<1>5. [t \in 1..n |-> Measured(t)'] = Append(s, x)
  <2>1. \A t \in 1..(n - 1) : Measured(t)' = s[t]
    BY <1>1, Written DEF Measured
  <2>2. Measured(n)' = x
    BY <1>1, Written DEF Measured
  <2>3. \A t \in 1..n : t # n => t \in 1..(n - 1)
    BY <1>1
  <2> HIDE DEF s, x
  <2> DEFINE grown == [t \in 1..n |-> Measured(t)']
  <2>4. /\ grown \in Seq(Int) /\ Append(s, x) \in Seq(Int)
        /\ Len(grown) = Len(Append(s, x)) /\ Len(grown) = n
    BY <1>4, <2>1, <2>2, <2>3
  <2>5. \A t \in 1..n : grown[t] = Append(s, x)[t]
    BY <1>4, <2>1, <2>2, <2>3
  <2> HIDE DEF grown
  <2>6. grown = Append(s, x)
    BY <2>4, <2>5, SameNumbers
  <2> QED BY <2>6 DEF grown
<1>6. Spent = SumOf(s) /\ Spent' = SumOf(Append(s, x))
  <2>1. [t \in 1..(index - 1) |-> Measured(t)]' = [t \in 1..n |-> Measured(t)']
    BY <1>1
  <2> QED BY <1>5, <2>1 DEF Spent
<1> HIDE DEF s, x
<1>7. SumOf(s) \in Int /\ SumOf(Append(s, x)) = SumOf(s) + x
  BY <1>4, SumTyped, SumAppend
<1> QED BY <1>6, <1>7 DEF x

\* The record of a trial that a stop left out.
Unstarted == [NoRecord EXCEPT !.status = "not_run", !.reason = stop]

LEMMA NotRunEffect ==
    ASSUME PlanInv, NotRun
    PROVE  /\ index \in Trials /\ index' = index + 1
           /\ at = "next" /\ at' = at /\ stop # "none" /\ stop' = stop
           /\ UNCHANGED <<settings, now, task, sent, since, paused, events, cancel, result>>
           /\ records' = [records EXCEPT ![index] = Unstarted]
           /\ Unstarted \in RecordType /\ Unstarted.status = "not_run"
           /\ Unstarted.reason = stop /\ Unstarted.elapsed = NoTime
           /\ Unstarted.observed = 0 /\ Unstarted.kept = <<>>
<1>1. index \in Trials /\ stop \in Reasons \cup {"none"}
  BY SequentialAssumption DEF NotRun, PlanInv, Types, Trials, PlanAccepted
<1>2. NoRecord \in RecordType /\ "not_run" \in Statuses
  BY DEF RecordType, Statuses, NoTime, NoRecord
<1>3. Unstarted \in RecordType
  BY <1>1, <1>2 DEF Unstarted, RecordType
<1>4. /\ Unstarted.status = "not_run" /\ Unstarted.reason = stop /\ Unstarted.elapsed = NoTime
      /\ Unstarted.observed = 0 /\ Unstarted.kept = <<>>
  BY DEF Unstarted, NoRecord
<1> QED BY <1>1, <1>3, <1>4 DEF NotRun, Unstarted

-----------------------------------------------------------------------------
(* Every part of the invariant is preserved                                *)

\* The record that Classify writes.
Finished ==
    [status   |-> Verdict,
     reason   |-> IF Verdict \in Interrupted THEN ReasonOf ELSE "none",
     elapsed  |-> now - since,
     observed |-> IF Kept THEN events.observed ELSE 0,
     kept     |-> IF Kept THEN events.kept ELSE <<>>]

LEMMA FinishedRecord ==
    ASSUME PlanInv, Classify
    PROVE  Finished \in RecordType /\ Finished.elapsed \in Nat /\ KeepsPrefix(Finished)
<1>1. now - since \in Nat
  BY DEF PlanInv, Clock
<1>2. /\ Verdict \in Statuses \ {"not_run"}
      /\ ReasonOf \in {"none", "timeout", "cancelled", "cleanup_failed"}
  BY ClassifyEffect, VerdictNamesStop
<1>3. /\ (IF Verdict \in Interrupted THEN ReasonOf ELSE "none") \in Reasons \cup {"none"}
      /\ (IF Kept THEN events.observed ELSE 0) \in Nat
      /\ (IF Kept THEN events.kept ELSE <<>>) \in Seq(Nat)
  BY <1>2 DEF Reasons, PlanInv, Prefix
<1>4. Finished \in RecordType
  BY <1>1, <1>2, <1>3 DEF Finished, RecordType
<1>5. KeepsPrefix(Finished)
  <2>1. CASE Kept
    <3>1. Finished.observed = events.observed /\ Finished.kept = events.kept
          /\ Finished.status \notin Native \cup {"not_run"}
      BY <1>2, <2>1 DEF Finished, Kept
    <3> QED BY <3>1 DEF KeepsPrefix, ValidEvents, PlanInv, Prefix
  <2>2. CASE ~Kept
    BY <2>2 DEF Finished, Kept, KeepsPrefix, ValidEvents
  <2> QED BY <2>1, <2>2
<1> QED BY <1>1, <1>4, <1>5 DEF Finished

LEMMA StepTypes == ASSUME PlanInv, Next PROVE Types'
<1>0. Types /\ Position /\ (at \notin {"next", "ended"} => index \in Trials)
  <2>1. Types /\ Position
    BY DEF PlanInv
  <2> QED BY <2>1, SequentialAssumption DEF Types, Position, Trials, PlanAccepted
<1>1. CASE NextTrial \/ Finish \/ Rest \/ Arm \/ DrainReturns \/ Callback \/ RequestCancel \/ Tick
  <2>1. /\ UNCHANGED <<settings, index, stop, task, sent, records>>
        /\ at' \in {at, "yield", "ended", "pause", "wait", "classify"}
        /\ cancel' \in {cancel, [requested |-> TRUE, due |-> TRUE]}
    BY <1>1, Zenon DEF NextTrial, Finish, Rest, Arm, DrainReturns, Callback, RequestCancel, Tick
  <2>2. cancel' \in [requested : BOOLEAN, due : BOOLEAN]
    <3>1. [requested |-> TRUE, due |-> TRUE] \in [requested : BOOLEAN, due : BOOLEAN]
      OBVIOUS
    <3> QED BY <1>0, <2>1, <3>1, Zenon DEF Types
  <2> QED BY <1>0, <2>1, <2>2 DEF Types, Stages, Before, Waiting
<1>2. CASE Resume \/ PauseEnds \/ PauseCancelled
  <2>1. /\ UNCHANGED <<settings, index, task, sent, records>>
        /\ stop' \in {stop, "cancelled", "timeout", "elapsed_admission_limit"}
        /\ at' \in {"next", "trial", "rest"}
        /\ cancel' \in {cancel, [cancel EXCEPT !.due = FALSE]}
    BY <1>2, Zenon DEF Resume, PauseEnds, PauseCancelled, CheckLimits, First, Delivered
  <2> QED BY <1>0, <2>1 DEF Types, Stages, Before, Reasons
<1>3. CASE StartTrial
  BY <1>0, <1>3 DEF StartTrial, FirstStates, Types, Stages, Waiting, Live, Outcomes, Cleanups
<1>4. CASE WaitReturns \/ WaitCancelled
  <2>1. /\ UNCHANGED <<settings, index, records>> /\ CancelChild /\ at \in {"wait", "drain"}
        /\ stop' \in {stop, "cancelled", "timeout"}
        /\ at' \in {"drain", "classify"}
        /\ cancel' \in {cancel, [cancel EXCEPT !.due = FALSE]}
    BY <1>4, Zenon DEF WaitReturns, WaitCancelled, First, Delivered, DrainOrClassify
  <2> QED BY <1>0, <2>1, ChildRequest DEF Types, Stages, Reasons
<1>5. CASE ChildStarts \/ ChildEnds \/ ChildInterrupted \/ ChildStops
  <2>1. PICK state \in Live \cup Outcomes : Becomes(state)
    BY <1>5, Zenon DEF ChildStarts, ChildEnds, ChildInterrupted, ChildStops, Live, Outcomes, Cleanups
  <2> QED BY <1>0, <2>1 DEF Becomes, Types
<1>6. CASE NotRun
  BY <1>0, <1>6, NotRunEffect, Written DEF Types
<1>7. CASE Classify
  <2>1. records' = [records EXCEPT ![index] = Finished]
    BY <1>7, ClassifyEffect DEF Finished
  <2>2. stop' \in Reasons \cup {"none"}
    BY <1>7, ClassifyEffect, VerdictNamesStop DEF First, Reasons
  <2>3. Finished \in RecordType
    BY <1>7, FinishedRecord
  <2> HIDE DEF Finished
  <2> QED BY <1>0, <1>7, <2>1, <2>2, <2>3, ClassifyEffect, Written DEF Types, Stages
<1> QED BY <1>1, <1>2, <1>3, <1>4, <1>5, <1>6, <1>7 DEF Next, Run

LEMMA StepPosition == ASSUME PlanInv, Next PROVE Position'
<1>0. /\ Position /\ at \in Stages /\ index \in 1..(N + 1) /\ N \in Nat
      /\ (index <= N => index \in Trials) /\ (at = "classify" => task[index] \in Outcomes)
  BY SequentialAssumption DEF PlanInv, Types, Owned, Trials, PlanAccepted
<1> USE DEF Position, Before, Waiting
<1>1. CASE NextTrial \/ Finish \/ Rest \/ DrainReturns \/ Callback \/ RequestCancel \/ Tick
  BY <1>0, <1>1 DEF NextTrial, Finish, Rest, DrainReturns, Callback, RequestCancel, Tick
<1>2. CASE Resume \/ PauseEnds \/ PauseCancelled
  <2>1. /\ UNCHANGED <<settings, index, wake>> /\ index <= N
        /\ at' \in {"next", "trial", "rest"} /\ (at' # "next" => stop' = "none")
    BY <1>0, <1>2 DEF Resume, PauseEnds, PauseCancelled
  <2> QED BY <2>1
<1>3. CASE StartTrial \/ Arm
  BY <1>0, <1>3 DEF StartTrial, Arm
<1>4. CASE WaitReturns \/ WaitCancelled
  <2>1. /\ UNCHANGED <<settings, index, wake>> /\ index <= N
        /\ at' \in {"drain", "classify"}
        /\ stop' \in {stop, "cancelled", "timeout"}
        /\ at' = "drain" => stop' # "none"
    BY <1>0, <1>4 DEF WaitReturns, WaitCancelled, First, DrainOrClassify
  <2> QED BY <1>0, <1>4, <2>1 DEF WaitReturns, WaitCancelled
<1>5. CASE ChildStarts \/ ChildEnds \/ ChildInterrupted \/ ChildStops
  <2>1. PICK state : Becomes(state)
    BY <1>5 DEF ChildStarts, ChildEnds, ChildInterrupted, ChildStops
  <2> QED BY <1>0, <2>1 DEF Becomes
<1>6. CASE NotRun
  BY <1>0, <1>6, NotRunEffect
<1>7. CASE Classify
  BY <1>7, ClassifyEffect
<1> QED BY <1>1, <1>2, <1>3, <1>4, <1>5, <1>6, <1>7 DEF Next, Run

LEMMA StepOwned == ASSUME PlanInv, Next PROVE Owned'
<1>0. /\ Types /\ Position /\ Owned /\ N \in Nat
      /\ (at \notin {"next", "ended"} => index \in Trials)
      /\ index \in 1..(N + 1) /\ Trials = 1..N
  <2>1. Types /\ Position /\ Owned
    BY DEF PlanInv
  <2> QED BY <2>1, SequentialAssumption DEF Types, Position, Trials, PlanAccepted
<1>1. CASE NextTrial \/ Finish \/ Rest \/ Arm \/ Callback \/ RequestCancel \/ Tick
           \/ Resume \/ PauseEnds \/ PauseCancelled
  BY <1>0, <1>1 DEF NextTrial, Finish, Rest, Arm, Callback, RequestCancel, Tick, Owned,
                    Resume, PauseEnds, PauseCancelled, Before, Waiting
<1>2. CASE StartTrial
  <2>1. PICK first \in FirstStates : task' = [task EXCEPT ![index] = first]
    BY <1>2 DEF StartTrial
  <2>2. first \in Live \cup Outcomes
    BY DEF FirstStates, Live, Outcomes, Cleanups
  <2>3. at = "trial" /\ at' = "arm" /\ UNCHANGED <<index, sent>>
    BY <1>2 DEF StartTrial
  <2> QED BY <1>0, <2>1, <2>2, <2>3 DEF Owned, Types, Before, Waiting
<1>3. CASE WaitReturns \/ WaitCancelled
  <2>1. /\ at \in {"wait", "drain"} /\ CancelChild /\ index' = index
        /\ at' = IF Done THEN "classify" ELSE "drain"
    BY <1>3 DEF WaitReturns, WaitCancelled, DrainOrClassify
  <2>2. CASE FirstRequest
    <3>1. at = "wait" /\ at' = "drain"
      BY <2>1, <2>2 DEF FirstRequest
    <3>2. /\ \A t \in Trials : t # index => task'[t] = task[t] /\ sent'[t] = sent[t]
          /\ task'[index] \in {"doomed", "stopping"} /\ sent'[index] = sent[index] + 1
      BY <1>0, <2>1, <2>2, ChildRequest
    <3> QED BY <1>0, <2>1, <3>1, <3>2 DEF Owned, Before, Waiting, Live
  <2>3. CASE ~FirstRequest
    <3>1. task' = task /\ sent' = sent /\ (Done \/ at = "drain")
      BY <1>0, <2>1, <2>3, ChildRequest DEF FirstRequest
    <3> QED BY <1>0, <2>1, <3>1 DEF Owned, Before, Waiting, Done
  <2> QED BY <2>2, <2>3
<1>4. CASE DrainReturns
  BY <1>0, <1>4 DEF DrainReturns, Done, Owned, Before, Waiting
<1>5. CASE ChildStarts \/ ChildEnds \/ ChildInterrupted \/ ChildStops
  <2>1. PICK state \in Live \cup Outcomes : Becomes(state)
    BY <1>5, Zenon DEF ChildStarts, ChildEnds, ChildInterrupted, ChildStops, Live, Outcomes, Cleanups
  <2>2. at \in {"wait", "drain"}
    BY <1>5 DEF ChildStarts, ChildEnds, ChildInterrupted, ChildStops
  <2>3. task' = [task EXCEPT ![index] = state] /\ UNCHANGED <<at, index, sent>>
    BY <2>1 DEF Becomes
  <2> QED BY <1>0, <2>1, <2>2, <2>3 DEF Owned, Types, Before, Waiting
<1>6. CASE NotRun
  <2>1. index \in Trials /\ index' = index + 1 /\ at = "next" /\ UNCHANGED <<at, task, sent>>
    BY <1>6, NotRunEffect
  <2> QED BY <1>0, <2>1 DEF Owned, Before, Waiting
<1>7. CASE Classify
  <2>1. index \in Trials /\ index' = index + 1 /\ at' = "next" /\ UNCHANGED <<task, sent>>
        /\ task[index] \in Outcomes
    BY <1>7, ClassifyEffect
  <2> QED BY <1>0, <2>1 DEF Owned, Before, Waiting
<1> QED BY <1>1, <1>2, <1>3, <1>4, <1>5, <1>6, <1>7 DEF Next, Run

\* The earlier records stay as they are, and go on naming the stop.
LEMMA EarlierEntries ==
    ASSUME PlanInv, NEW record \in RecordType, index \in Trials, index' = index + 1,
           records' = [records EXCEPT ![index] = record],
           UNCHANGED <<settings, task>>, stop # "none" => stop' = stop,
           NEW t \in Trials, t < index
    PROVE  /\ Entry(t)' /\ t < index'
           /\ Harmless(records[t])' = Harmless(records[t])
<1>1. records'[t] = records[t] /\ \A u \in Trials : u < t => u < index /\ records'[u] = records[u]
  <2>1. \A u \in Trials : u < t => u < index
    BY SequentialAssumption DEF Trials, PlanAccepted
  <2> QED BY <2>1, Written
<1>2. Entry(t)
  BY DEF PlanInv, Recorded
<1>3. NamesStop(records[t])' /\ KeepsPrefix(records[t])'
  BY <1>1, <1>2 DEF Entry, NamesStop, KeepsPrefix, ValidEvents, Interrupted
<1>4. /\ Harmless(records[t])' = Harmless(records[t])
      /\ \A u \in Trials : u < t => Harmless(records[u])' = Harmless(records[u])
  BY <1>1 DEF Harmless
<1>5. t < index'
  BY SequentialAssumption DEF Trials, PlanAccepted
<1> QED BY <1>1, <1>2, <1>3, <1>4, <1>5 DEF Entry

\* A trial that is left out names the stop that was decided.
LEMMA NotRunHistory == ASSUME PlanInv, NotRun PROVE Recorded' /\ Open' /\ Stopped'
<1>1. /\ index \in Trials /\ index' = index + 1 /\ at = "next" /\ at' = "next" /\ stop # "none"
      /\ UNCHANGED <<settings, task, stop>>
      /\ Unstarted \in RecordType /\ records' = [records EXCEPT ![index] = Unstarted]
      /\ Unstarted.status = "not_run" /\ Unstarted.reason = stop
      /\ Unstarted.observed = 0 /\ Unstarted.kept = <<>>
  BY NotRunEffect
<1> HIDE DEF Unstarted
<1>2. /\ records'[index] = Unstarted
      /\ \A t \in Trials : t < index' => t < index \/ t = index
      /\ \A t \in Trials : t < index => records'[t] = records[t]
  BY <1>1, Written
<1>3. task[index] = "none"
  <2>1. index <= N
    BY <1>1, SequentialAssumption DEF Trials, PlanAccepted
  <2> QED BY <1>1, <2>1 DEF PlanInv, Owned
<1>4. ASSUME NEW t \in Trials, t = index PROVE Entry(t)'
  <2>1. NamesStop(records[t])' /\ KeepsPrefix(records[t])'
    BY <1>1, <1>2, <1>4 DEF NamesStop, KeepsPrefix, ValidEvents
  <2> QED BY <1>1, <1>2, <1>3, <1>4, <2>1 DEF Cleanups, Entry
<1>5. \A t \in Trials : t < index => Entry(t)' /\ t < index'
  BY <1>1, EarlierEntries
<1>6. Recorded'
  BY <1>2, <1>4, <1>5 DEF Recorded
<1>7. Open'
  BY <1>1 DEF Open
<1>8. Stopped'
  BY <1>1, <1>2, <1>5 DEF PlanInv, Stopped
<1> QED BY <1>6, <1>7, <1>8

\* The record of a finished trial names the stop that won, and a stop that it
\* calls for is owed to it.
LEMMA ClassifyHistory == ASSUME PlanInv, Classify PROVE Recorded' /\ Open' /\ Stopped'
<1>1. /\ index \in Trials /\ index' = index + 1 /\ at = "classify" /\ at' = "next"
      /\ UNCHANGED <<settings, task>>
      /\ records' = [records EXCEPT ![index] = Finished]
      /\ task[index] \in Outcomes /\ stop \in {"none", "timeout", "cancelled"}
      /\ stop' = IF Verdict # "completed" /\ settings.stopOnError
                 THEN First(ReasonOf, "stop_on_error") ELSE ReasonOf
  BY ClassifyEffect DEF Finished, Classify
<1>2. Finished \in RecordType /\ Finished.elapsed \in Nat /\ KeepsPrefix(Finished)
  BY FinishedRecord
<1>3. /\ Finished.status = Verdict
      /\ Finished.reason = IF Verdict \in Interrupted THEN ReasonOf ELSE "none"
  BY DEF Finished
<1> HIDE DEF Finished
<1>4. /\ records'[index] = Finished
      /\ \A t \in Trials : t < index' => t < index \/ t = index
      /\ \A t \in Trials : t < index => records'[t] = records[t]
  BY <1>1, <1>2, Written
<1>5. /\ Verdict \in Statuses \ {"not_run"}
      /\ ReasonOf \in {"none", "timeout", "cancelled", "cleanup_failed"}
      /\ stop # "none" => ReasonOf = stop
      /\ (task[index] \in Cleanups) <=> (Verdict = "cleanup_failed")
      /\ Verdict \in Interrupted => ReasonOf # "none"
      /\ Verdict = "cancelled" => ReasonOf = "cancelled"
      /\ Verdict = "timed_out" => ReasonOf = "timeout"
      /\ ReasonOf = "timeout" /\ stop # "timeout" => settings.timeout # NoTime
      /\ ReasonOf = "cleanup_failed" => Verdict = "cleanup_failed"
  BY <1>1, VerdictNamesStop
<1>6. /\ ReasonOf # "none" => stop' = ReasonOf
      /\ ReasonOf = "none" => stop' \in {"none", "stop_on_error"}
      /\ stop' = "stop_on_error" => settings.stopOnError /\ Verdict # "completed"
      /\ stop' = "none" => ReasonOf = "none" /\ ~(Verdict # "completed" /\ settings.stopOnError)
  BY <1>1, <1>5 DEF First
<1>7. \A t \in Trials : t < index => /\ Entry(t)' /\ t < index'
                                     /\ Harmless(records[t])' = Harmless(records[t])
  BY <1>1, <1>2, <1>5, <1>6, EarlierEntries
<1>8. \A u \in Trials : u < index => Harmless(records[u])'
  BY <1>1, <1>7 DEF PlanInv, Open
<1>9. ASSUME NEW t \in Trials, t = index PROVE Entry(t)' /\ t < index'
  <2>1. KeepsPrefix(records[t])'
    BY <1>2, <1>4, <1>9 DEF KeepsPrefix, ValidEvents
  <2>2. NamesStop(records[t])'
    BY <1>3, <1>4, <1>5, <1>6, <1>9 DEF NamesStop, Interrupted
  <2>3. task'[t] # "none" /\ Verdict \notin {"none", "not_run"}
    BY <1>1, <1>5, <1>9 DEF Outcomes, Native, Cleanups, Statuses, Interrupted
  <2>4. t < index'
    BY <1>1, <1>9, SequentialAssumption DEF Trials, PlanAccepted
  <2> QED BY <1>1, <1>2, <1>3, <1>4, <1>5, <1>8, <1>9, <2>1, <2>2, <2>3, <2>4 DEF Entry
<1>10. Recorded'
  BY <1>4, <1>7, <1>9 DEF Recorded
<1>11. Open'
  <2> SUFFICES ASSUME stop' = "none", NEW t \in Trials, t < index' PROVE Harmless(records[t])'
    BY <1>1 DEF Open
  <2>1. CASE t = index
    <3>1. Verdict \notin Interrupted \cup {"not_run"}
      BY <1>5, <1>6
    <3> QED BY <1>1, <1>3, <1>4, <1>6, <2>1, <3>1 DEF Harmless
  <2> QED BY <1>4, <1>8, <2>1
<1>12. Stopped'
  <2>1. stop' # "elapsed_admission_limit"
    BY <1>5, <1>6
  <2>2. stop' = "timeout" => settings'.timeout # NoTime
    BY <1>1, <1>5, <1>6 DEF PlanInv, Stopped
  <2>3. PICK n \in Trials : n = index
    BY <1>1
  <2>4. n < index' /\ records'[n] = Finished
    BY <1>4, <1>9, <2>3
  <2>5. stop' = "stop_on_error" =>
            /\ settings'.stopOnError
            /\ records'[n].status \notin {"not_run", "completed"}
    BY <1>1, <1>3, <1>5, <1>6, <2>4
  <2>6. stop' = "cleanup_failed" => records'[n].status = "cleanup_failed"
    BY <1>3, <1>5, <1>6, <2>4
  <2> QED BY <2>1, <2>2, <2>4, <2>5, <2>6 DEF Stopped
<1> QED BY <1>10, <1>11, <1>12

\* A stop that is decided without a record is a cancellation or one of the two
\* limits, and is decided only when there is such a limit.
LEMMA StepStopped == ASSUME PlanInv, Next, ~Writes PROVE Stopped'
<1>0. Mild /\ Position /\ Stopped /\ NoTime \notin Nat
  BY MildSteps DEF PlanInv, NoTime
<1>1. \/ stop' = stop
      \/ stop' = "cancelled"
      \/ stop' = "timeout" /\ settings.timeout # NoTime
      \/ stop' = "elapsed_admission_limit" /\ settings.limit # NoTime
  <2>1. CASE NextTrial \/ Finish \/ Rest \/ StartTrial \/ Arm \/ DrainReturns \/ Callback
             \/ RequestCancel \/ Tick
    BY <2>1 DEF NextTrial, Finish, Rest, StartTrial, Arm, DrainReturns, Callback, RequestCancel, Tick
  <2>2. CASE Resume \/ PauseEnds \/ PauseCancelled
    BY <2>2 DEF Resume, PauseEnds, PauseCancelled, CheckLimits, First, DeadlinePassed, LimitPassed
  <2>3. CASE WaitReturns \/ WaitCancelled
    BY <1>0, <2>3 DEF WaitReturns, WaitCancelled, First, DeadlinePassed, Position
  <2>4. CASE ChildStarts \/ ChildEnds \/ ChildInterrupted \/ ChildStops
    <3>1. PICK state : Becomes(state)
      BY <2>4 DEF ChildStarts, ChildEnds, ChildInterrupted, ChildStops
    <3> QED BY <3>1 DEF Becomes
  <2> QED BY <2>1, <2>2, <2>3, <2>4 DEF Next, Run, Writes
<1>2. UNCHANGED <<settings, index, records>>
  BY <1>0 DEF Mild
<1> QED BY <1>0, <1>1, <1>2 DEF Stopped

LEMMA StepAsked == ASSUME PlanInv, Next PROVE Asked'
<1>0. /\ Asked /\ Position /\ stop \in Reasons \cup {"none"}
      /\ cancel \in [requested : BOOLEAN, due : BOOLEAN]
  BY DEF PlanInv, Types
<1>1. CASE NextTrial \/ Finish \/ Rest \/ StartTrial \/ Arm \/ Callback \/ Tick \/ DrainReturns
  BY <1>0, <1>1 DEF NextTrial, Finish, Rest, StartTrial, Arm, Callback, Tick, DrainReturns,
                    Asked, Awaits
<1>2. CASE RequestCancel
  BY <1>0, <1>2 DEF RequestCancel, Asked
<1>3. CASE Resume \/ PauseCancelled
  <2>1. /\ cancel' = [cancel EXCEPT !.due = FALSE]
        /\ cancel.due => stop' \in {"cancelled", "timeout"}
        /\ stop = "none"
    BY <1>0, <1>3 DEF Resume, PauseCancelled, Delivered, First, Position, Before
  <2> QED BY <1>0, <2>1 DEF Asked
<1>4. CASE WaitCancelled
  <2>1. /\ cancel' = [cancel EXCEPT !.due = FALSE]
        /\ stop' \in {"cancelled", "timeout"}
    BY <1>0, <1>4 DEF WaitCancelled, Delivered, First, Position, Before, Waiting
  <2> QED BY <1>0, <2>1 DEF Asked
<1>5. CASE PauseEnds \/ WaitReturns
  <2>1. /\ cancel' = cancel /\ ~cancel.due
        /\ stop # "none" => stop' = stop
    BY <1>5 DEF PauseEnds, WaitReturns, First, CheckLimits
  <2> QED BY <1>0, <2>1 DEF Asked
<1>6. CASE ChildStarts \/ ChildEnds \/ ChildInterrupted \/ ChildStops
  <2>1. PICK state : Becomes(state)
    BY <1>6 DEF ChildStarts, ChildEnds, ChildInterrupted, ChildStops
  <2> QED BY <1>0, <2>1 DEF Becomes, Asked
<1>7. CASE NotRun
  BY <1>0, <1>7, NotRunEffect DEF Asked
<1>8. CASE Classify
  <2>1. /\ at = "classify" /\ cancel' = cancel
        /\ stop # "none" => stop' = stop
    BY <1>8, ClassifyEffect, VerdictNamesStop DEF Classify, First
  <2> QED BY <1>0, <2>1 DEF Asked, Awaits
<1> QED BY <1>1, <1>2, <1>3, <1>4, <1>5, <1>6, <1>7, <1>8 DEF Next, Run

LEMMA StepPrefix == ASSUME PlanInv, Next PROVE Prefix'
<1>0. Prefix /\ Retained \in Nat
  BY SequentialAssumption DEF PlanInv, PlanAccepted
<1>1. CASE StartTrial
  BY <1>0, <1>1 DEF StartTrial, NoEvents, Prefix
<1>2. CASE Callback
  <2>1. PICK fits \in BOOLEAN : Keep(events.observed + 1, fits)
    BY <1>2 DEF Callback
  <2> DEFINE closed == events.closed \/ Len(events.kept) >= Retained \/ ~fits
  <2>2. /\ events'.observed = events.observed + 1 /\ events'.closed = closed
        /\ events'.kept = IF closed THEN events.kept ELSE Append(events.kept, events.observed + 1)
    BY <2>1 DEF Keep
  <2>3. closed \in BOOLEAN
    BY <1>0 DEF Prefix
  <2>4. CASE closed
    <3>1. /\ events'.closed = TRUE /\ events'.kept = events.kept
          /\ events'.observed = events.observed + 1
      <4> HIDE DEF closed
      <4> QED BY <2>2, <2>3, <2>4
    <3>2. events'.closed \in BOOLEAN /\ (~events'.closed => Len(events'.kept) = events'.observed)
      BY <3>1, Zenon
    <3>3. /\ events'.observed \in Nat /\ events'.kept \in Seq(Nat) /\ Len(events'.kept) <= Retained
          /\ Len(events'.kept) <= events'.observed
          /\ \A i \in 1..Len(events'.kept) : events'.kept[i] = i
      BY <1>0, <3>1 DEF Prefix
    <3> QED BY <3>2, <3>3, Zenon DEF Prefix
  <2>5. CASE ~closed
    <3>1. /\ events.closed = FALSE /\ Len(events.kept) = events.observed
          /\ Len(events.kept) < Retained
      BY <1>0, <2>5 DEF Prefix
    <3>2. /\ events'.kept = Append(events.kept, events.observed + 1)
          /\ events'.kept \in Seq(Nat) /\ Len(events'.kept) = Len(events.kept) + 1
      BY <1>0, <2>2, <2>5 DEF Prefix
    <3>3. \A i \in 1..Len(events'.kept) : events'.kept[i] = i
      BY <1>0, <3>1, <3>2 DEF Prefix
    <3> QED BY <1>0, <2>2, <2>3, <3>1, <3>2, <3>3 DEF Prefix
  <2> QED BY <2>4, <2>5
<1>3. CASE UNCHANGED events
  BY <1>0, <1>3 DEF Prefix
<1>4. ASSUME ~StartTrial, ~Callback PROVE UNCHANGED events
  BY <1>4 DEF Next, Run, NextTrial, NotRun, Finish, Resume, Rest, PauseEnds, PauseCancelled, Arm,
        WaitReturns, WaitCancelled, DrainReturns, Classify, RequestCancel, Tick,
        ChildStarts, ChildEnds, ChildInterrupted, ChildStops, Becomes
<1> QED BY <1>1, <1>2, <1>3, <1>4

LEMMA StepClock == ASSUME PlanInv, Next PROVE Clock'
<1>0. Clock /\ Position /\ Pause \in Nat
  BY SequentialAssumption DEF PlanInv, PlanAccepted
<1>1. CASE ~Writes
  <2>1. Spent' = Spent
    BY <1>1, MildSteps, MildHistory
  <2>2. Spent \in Int
    <3>1. index \in 1..(N + 1) /\ N \in Nat /\ Trials = 1..N
      BY SequentialAssumption DEF PlanInv, Types, Trials, PlanAccepted
    <3>2. \A t \in 1..(index - 1) : t \in Trials
      BY <3>1
    <3>3. \A t \in Trials : records[t].elapsed \in Int
      BY DEF PlanInv, Types, RecordType
    <3> DEFINE s == [t \in 1..(index - 1) |-> Measured(t)]
    <3>4. s \in Seq(Int)
      BY <3>1, <3>2, <3>3 DEF Measured
    <3> HIDE DEF s
    <3> QED BY <3>4, SumTyped DEF Spent, s
  <2>3. CASE NextTrial \/ Finish \/ Rest \/ StartTrial \/ Arm \/ DrainReturns
             \/ Callback \/ RequestCancel \/ Resume \/ WaitReturns \/ WaitCancelled
    BY <1>0, <2>1, <2>2, <2>3 DEF NextTrial, Finish, Rest, StartTrial, Arm, DrainReturns,
          Callback, RequestCancel, Resume, WaitReturns, WaitCancelled, DrainOrClassify, Clock, Waiting
  <2>4. CASE Tick
    BY <1>0, <2>1, <2>2, <2>4 DEF Tick, Clock
  <2>5. CASE PauseEnds \/ PauseCancelled
    BY <1>0, <2>1, <2>2, <2>5 DEF PauseEnds, PauseCancelled, PauseCounted, Clock, Waiting
  <2>6. CASE ChildStarts \/ ChildEnds \/ ChildInterrupted \/ ChildStops
    <3>1. PICK state : Becomes(state)
      BY <2>6 DEF ChildStarts, ChildEnds, ChildInterrupted, ChildStops
    <3> QED BY <1>0, <2>1, <3>1 DEF Becomes, Clock
  <2> QED BY <1>1, <2>3, <2>4, <2>5, <2>6 DEF Next, Run, Writes
<1>2. CASE NotRun
  <2>1. Spent \in Int /\ Spent' = Spent + 0
    BY <1>2, NotRunEffect, SpentGrows
  <2> QED BY <1>0, <1>2, <2>1, NotRunEffect DEF Clock, Waiting
<1>3. CASE Classify
  <2>1. Finished \in RecordType /\ Finished.elapsed = now - since /\ now - since \in Nat
    BY <1>3, FinishedRecord DEF Finished
  <2>2. /\ UNCHANGED <<now, since, paused>> /\ at = "classify" /\ at' = "next"
        /\ index \in Trials /\ index' = index + 1
        /\ records' = [records EXCEPT ![index] = Finished]
    BY <1>3, ClassifyEffect DEF Finished, Classify
  <2> HIDE DEF Finished
  <2>3. Finished.elapsed # NoTime
    BY <2>1 DEF NoTime
  <2>4. Spent \in Int /\ Spent' = Spent + (now - since)
    BY <2>1, <2>2, <2>3, SpentGrows
  <2> QED BY <1>0, <2>2, <2>4 DEF Clock, Waiting
<1> QED BY <1>1, <1>2, <1>3 DEF Writes

LEMMA StepEnded == ASSUME PlanInv, Next PROVE Ended'
<1>1. CASE Finish
  <2>1. UNCHANGED <<records, stop, now>> /\ result' = [kind |-> Outward, elapsed |-> now]
    BY <1>1 DEF Finish
  <2> QED BY <2>1 DEF Ended, Outward, Unconfirmed
<1>2. ASSUME ~Finish PROVE at' # "ended"
  <2>1. at # "ended"
    <3>1. at = "ended" => index = N + 1
      BY DEF PlanInv, Position
    <3> QED BY <1>2, <3>1 DEF Next, Run, NextTrial, NotRun, Resume, Rest, PauseEnds, PauseCancelled,
          StartTrial, Arm, WaitReturns, WaitCancelled, DrainReturns, Classify, Callback, Current,
          RequestCancel, Awaits, Tick, ChildStarts, ChildEnds, ChildInterrupted, ChildStops
  <2> QED BY <1>2, <2>1 DEF Next, Run, NextTrial, NotRun, Resume, Rest, PauseEnds, PauseCancelled,
        StartTrial, Arm, WaitReturns, WaitCancelled, DrainOrClassify, DrainReturns, Classify, Callback,
        RequestCancel, Tick, ChildStarts, ChildEnds, ChildInterrupted, ChildStops, Becomes
<1> QED BY <1>1, <1>2 DEF Ended

LEMMA StepPlanInv == PlanInv /\ [Next]_vars => PlanInv'
<1>1. ASSUME PlanInv, Next PROVE PlanInv'
  <2>1. Types' /\ Position' /\ Owned' /\ Asked' /\ Prefix' /\ Clock' /\ Ended'
    BY <1>1, StepTypes, StepPosition, StepOwned, StepAsked, StepPrefix, StepClock, StepEnded
  <2>2. Recorded' /\ Open' /\ Stopped'
    <3>1. CASE NotRun
      BY <1>1, <3>1, NotRunHistory
    <3>2. CASE Classify
      BY <1>1, <3>2, ClassifyHistory
    <3>3. CASE ~Writes
      BY <1>1, <3>3, MildSteps, MildHistory, StepStopped
    <3> QED BY <3>1, <3>2, <3>3 DEF Writes
  <2> QED BY <2>1, <2>2 DEF PlanInv
<1>2. ASSUME PlanInv, UNCHANGED vars PROVE PlanInv'
  <2>1. Types' /\ Position' /\ Owned' /\ Asked' /\ Prefix' /\ Stopped'
    BY <1>2 DEF vars, PlanInv, Types, Position, Owned, Asked, Prefix, Stopped
  <2>2. Recorded' /\ Open' /\ Spent' = Spent
    <3>1. Mild
      BY <1>2 DEF vars, Mild
    <3> QED BY <1>2, <3>1, MildHistory
  <2>3. Clock' /\ Ended'
    BY <1>2, <2>2 DEF vars, PlanInv, Clock, Ended, Outward, Unconfirmed
  <2> QED BY <2>1, <2>2, <2>3 DEF PlanInv
<1> QED BY <1>1, <1>2

-----------------------------------------------------------------------------
\* The invariant of the plan, for any number of trials and any limits.
THEOREM PlanInvariance == Spec => []PlanInv
  BY InitPlanInv, StepPlanInv, PTL DEF Spec

\* However trials end and however pauses, deadline, limit and cancellations
\* interleave, the history of a plan passes the validation of plan_reports, and
\* every child was owned to its end.
THEOREM TrialsOwnedHolds == Spec => []TrialsOwned
  BY PlanInvariance, InvIsEnough, PTL
=============================================================================
