------------------------- MODULE EventStreamProofs -------------------------
(***************************************************************************)
(* For any number of tasks, any bounds of the queue and any number of      *)
(* events: no reader sleeps through something it could read, every event   *)
(* is delivered once and in order or counted as lost, and no failure of    *)
(* the operation leaves the context silently.                              *)
(***************************************************************************)
EXTENDS EventStream, TLAPS

Entry == [item : Nat, size : Nat]

\* The types the accounting needs.  (That bytes is the sum over the queue
\* would need induction over a sequence; TLC checks it.)
Typed ==
    /\ queue \in Seq(Entry) /\ bytes \in Int
    /\ dropped \in Nat /\ reported \in Nat
    /\ put \in Nat /\ last \in Nat /\ delivered \in Nat /\ told \in Nat
    /\ at \in [Tasks -> Places]

\* The flag that suppresses a further wake-up is set only while one is due.
FlagIsHonest == wakePending => scheduled

\* A terminal is reserved only when the operation can put nothing more: the
\* owner is done, so the invocation returned or was refused.
Quiet ==
    /\ terminal # "none" => owner = "done"
    /\ owner = "done" => operation = "returned" \/ (asked /\ operation = "queued")
    /\ operation # "none" => owner # "none"
    /\ owner # "none" => entered

IInv == Typed /\ FlagIsHonest /\ Quiet /\ WaiterIsWoken /\ EventsAccounted

\* An empty stream accounts for everything.
LEMMA InitIInv == Init => IInv
<1> SUFFICES ASSUME Init PROVE IInv
  OBVIOUS
<1>1. Typed
  BY DEF Init, Typed, Places
<1>2. FlagIsHonest /\ Quiet /\ WaiterIsWoken
  BY DEF Init, FlagIsHonest, Quiet, WaiterIsWoken
<1>3. EventsAccounted
  BY DEF Init, EventsAccounted
<1> QED BY <1>1, <1>2, <1>3 DEF IInv

\* The items of the queue are numbers.
LEMMA ItemsAreNumbers ==
    ASSUME Typed
    PROVE  /\ Len(queue) \in Nat
           /\ \A i \in 1..Len(queue) : queue[i].item \in Nat /\ queue[i].size \in Nat
<1>1. Len(queue) \in Nat /\ \A i \in 1..Len(queue) : queue[i] \in Entry
  BY DEF Typed
<1> QED BY <1>1 DEF Entry

\* A Tail moves every position to the front by one.
LEMMA TailOfQueue ==
    ASSUME NEW s \in Seq(Entry), s # <<>>
    PROVE  /\ Tail(s) \in Seq(Entry) /\ Len(Tail(s)) = Len(s) - 1
           /\ Len(s) \in Nat \ {0} /\ Head(s) = s[1] /\ s[1] \in Entry
           /\ \A i \in 1..Len(Tail(s)) : Tail(s)[i] = s[i + 1]
  OBVIOUS

\* An Append keeps every position and adds one at the end.
LEMMA AppendToQueue ==
    ASSUME NEW s \in Seq(Entry), NEW e \in Entry
    PROVE  /\ Append(s, e) \in Seq(Entry) /\ Len(Append(s, e)) = Len(s) + 1
           /\ Append(s, e)[Len(s) + 1] = e
           /\ \A i \in 1..Len(s) : Append(s, e)[i] = s[i]
  OBVIOUS

\* The steps that leave the queue, the counters, the wake-up and the terminal
\* alone, and only move a task away from its wait.
LEMMA QuietSteps ==
    ASSUME IInv, Begin \/ Return \/ OwnerEnds \/ OwnerCancelled \/ Enter \/ CloseUnentered
    PROVE  IInv'
<1>1. UNCHANGED <<buffer, terminal, wakeup, at, why, history>>
  BY DEF Begin, Return, OwnerEnds, OwnerCancelled, Enter, CloseUnentered, calls, history,
         buffer, wakeup
<1>2. Typed' /\ FlagIsHonest' /\ WaiterIsWoken' /\ EventsAccounted'
  BY <1>1 DEF IInv, Typed, FlagIsHonest, WaiterIsWoken, Readable, EventsAccounted,
              buffer, wakeup, history
<1>3. Quiet'
  <2>1. CASE Begin \/ Return
    BY <2>1 DEF IInv, Quiet, Begin, Return, flags
  <2>2. CASE OwnerEnds \/ OwnerCancelled
    BY <2>2 DEF IInv, Quiet, OwnerEnds, OwnerCancelled, flags
  <2>3. CASE Enter \/ CloseUnentered
    BY <2>3 DEF IInv, Quiet, Enter, CloseUnentered, work
  <2> QED BY <2>1, <2>2, <2>3
<1> QED BY <1>2, <1>3 DEF IInv

\* _put: the operation runs, so no terminal is reserved; the new event is the
\* youngest or is counted; and a wake-up is due afterwards.
LEMMA PutStep ==
    ASSUME IInv, NEW size \in Sizes, Put(size)
    PROVE  IInv'
<1> DEFINE e == [item |-> put + 1, size |-> size]
<1>0. MaxBytes \in Nat /\ size \in Nat
  BY StreamAssumption DEF Sizes
<1>1. terminal = "none" /\ terminal' = "none"
  BY DEF IInv, Quiet, Put
<1>2. e \in Entry
  BY <1>0 DEF IInv, Typed, Entry
<1>3. \/ queue' = queue /\ bytes' = bytes /\ dropped' = dropped + 1
      \/ queue' = Append(queue, e) /\ bytes' = bytes + size /\ dropped' = dropped
  BY DEF Put, Enqueue
<1>4. Typed'
  <2>1. queue' \in Seq(Entry) /\ bytes' \in Int /\ dropped' \in Nat
    <3>1. queue \in Seq(Entry) /\ bytes \in Int /\ dropped \in Nat
      BY DEF IInv, Typed
    <3>2. Append(queue, e) \in Seq(Entry)
      BY <1>2, <3>1, AppendToQueue
    <3>3. CASE queue' = queue /\ bytes' = bytes /\ dropped' = dropped + 1
      BY <3>1, <3>3
    <3>4. CASE queue' = Append(queue, e) /\ bytes' = bytes + size /\ dropped' = dropped
      <4>1. bytes' \in Int /\ dropped' \in Nat
        BY <1>0, <3>1, <3>4
      <4>2. queue' \in Seq(Entry)
        BY <3>2, <3>4, Zenon
      <4> QED BY <4>1, <4>2
    <3> QED BY <1>3, <3>3, <3>4
  <2> QED BY <2>1 DEF IInv, Typed, Put, calls
<1>5. FlagIsHonest' /\ WaiterIsWoken'
  BY DEF IInv, FlagIsHonest, WaiterIsWoken, Put
<1>6. Quiet'
  BY <1>1 DEF IInv, Quiet, Put, work, flags
<1>7. EventsAccounted'
  <2>1. CASE queue' = queue /\ dropped' = dropped + 1
    <3>1. \A i \in 1..Len(queue) : last < queue[i].item /\ queue[i].item <= put + 1
      BY ItemsAreNumbers DEF IInv, Typed, EventsAccounted
    <3>2. /\ put' = put + 1 /\ put \in Nat /\ last \in Nat /\ last' = last /\ last <= put
          /\ \A i, j \in 1..Len(queue) : i < j => queue[i].item < queue[j].item
      BY DEF IInv, Typed, EventsAccounted, Put
    <3>3. put' = delivered' + Len(queue') + dropped' /\ reported' <= dropped'
      <4>1. /\ put' = put + 1 /\ delivered' = delivered /\ reported' = reported
            /\ put = delivered + Len(queue) + dropped /\ reported <= dropped
        BY DEF IInv, EventsAccounted, Put
      <4>2. Len(queue) \in Nat /\ dropped \in Nat /\ delivered \in Nat /\ reported \in Nat
        BY ItemsAreNumbers DEF IInv, Typed
      <4> QED BY <2>1, <4>1, <4>2
    <3>4. \A i \in 1..Len(queue') : last' < queue'[i].item /\ queue'[i].item <= put'
      BY <2>1, <3>1, <3>2
    <3>5. \A i, j \in 1..Len(queue') : i < j => queue'[i].item < queue'[j].item
      BY <2>1, <3>2
    <3>6. last' <= put'
      BY <3>2
    <3> QED BY <1>1, <3>3, <3>4, <3>5, <3>6 DEF EventsAccounted
  <2>2. CASE queue' = Append(queue, e) /\ dropped' = dropped
    <3>1. \A i \in 1..Len(queue') : i \in 1..Len(queue) \/ i = Len(queue) + 1
      BY <1>2, <2>2, AppendToQueue DEF IInv, Typed
    <3>2. \A i \in 1..Len(queue) :
              /\ queue'[i].item = queue[i].item /\ queue[i].item \in Nat
              /\ last < queue[i].item /\ queue[i].item <= put
      BY <1>2, <2>2, AppendToQueue, ItemsAreNumbers DEF IInv, Typed, EventsAccounted
    <3>3. /\ put' = put + 1 /\ last <= put /\ put \in Nat /\ last \in Nat
          /\ \A i, j \in 1..Len(queue) : i < j => queue[i].item < queue[j].item
      BY DEF IInv, Typed, EventsAccounted, Put
    <3>4. queue'[Len(queue) + 1].item = put + 1
      BY <1>2, <2>2, AppendToQueue DEF IInv, Typed
    <3>5. \A i \in 1..Len(queue') : last < queue'[i].item /\ queue'[i].item <= put'
      <4> SUFFICES ASSUME NEW i \in 1..Len(queue')
                   PROVE  last < queue'[i].item /\ queue'[i].item <= put'
        OBVIOUS
      <4>1. CASE i \in 1..Len(queue)
        BY <4>1, <3>2, <3>3
      <4>2. CASE i = Len(queue) + 1
        BY <4>2, <3>4, <3>3
      <4> QED BY <3>1, <4>1, <4>2
    <3>6. Len(queue') = Len(queue) + 1 /\ Len(queue) \in Nat
      BY <1>2, <2>2, AppendToQueue DEF IInv, Typed
    <3>7. \A i, j \in 1..Len(queue') : i < j => queue'[i].item < queue'[j].item
      <4> SUFFICES ASSUME NEW i \in 1..Len(queue'), NEW j \in 1..Len(queue'), i < j
                   PROVE  queue'[i].item < queue'[j].item
        OBVIOUS
      <4>1. i \in 1..Len(queue)
        BY <3>1, <3>6
      <4>2. CASE j \in 1..Len(queue)
        <5>1. queue[i].item < queue[j].item
          BY <4>1, <4>2, <3>3
        <5> QED BY <4>1, <4>2, <5>1, <3>2
      <4>3. CASE j = Len(queue) + 1
        <5>1. queue'[i].item \in Nat /\ queue'[i].item <= put
          BY <4>1, <3>2
        <5> QED BY <4>3, <5>1, <3>4, <3>3
      <4> QED BY <3>1, <4>2, <4>3
    <3>8. put' = delivered' + Len(queue') + dropped'
      BY <2>2, <3>6, <3>3 DEF IInv, Typed, EventsAccounted, Put
    <3>9. reported' <= dropped' /\ last' <= put' /\ last' = last
      BY <2>2, <3>3 DEF IInv, Typed, EventsAccounted, Put
    <3> QED BY <1>1, <3>5, <3>7, <3>8, <3>9 DEF EventsAccounted
  <2> QED BY <1>3, <2>1, <2>2
<1> QED BY <1>4, <1>5, <1>6, <1>7 DEF IInv

\* _wake and _settled: the Event is set, or the wake-up goes on.
LEMMA WakeSteps ==
    ASSUME IInv, SettledCallback \/ WakeBegin \/ WakeEnd
    PROVE  IInv'
<1>1. UNCHANGED <<buffer, at, why, put, last, delivered, entered, owner,
                operation, asked>>
  BY DEF SettledCallback, WakeBegin, WakeEnd, calls, history, work, flags
<1>2. \/ UNCHANGED <<terminal, told>>
      \/ terminal = "none" /\ terminal' = "reserved" /\ told' = dropped /\ owner = "done"
  BY DEF SettledCallback, WakeBegin, WakeEnd, Settle, history
<1>3. Typed' /\ Quiet' /\ EventsAccounted'
  BY <1>1, <1>2 DEF IInv, Typed, Quiet, EventsAccounted, buffer
<1>4. FlagIsHonest' /\ WaiterIsWoken'
  BY <1>1 DEF IInv, FlagIsHonest, WaiterIsWoken, Readable, buffer,
              SettledCallback, WakeBegin, WakeEnd, Settle
<1> QED BY <1>3, <1>4 DEF IInv

\* __anext__ takes the oldest event, reports every loss, delivers the terminal
\* after both, or waits when there is nothing to read.
LEMMA FindStep ==
    ASSUME IInv, NEW t \in Tasks, Find(t),
           UNCHANGED <<entered, work, dropped, wakePending, scheduled, waking, put, told>>
    PROVE  IInv'
<1>1. at' \in [Tasks -> Places]
  BY DEF IInv, Typed, Find, Move, Places
<1>2. FlagIsHonest' /\ Quiet'
  BY DEF IInv, FlagIsHonest, Quiet, Find, work
<1>3. CASE queue # <<>> /\ queue' = Tail(queue) /\ bytes' = BytesAfterPop
           /\ last' = Head(queue).item /\ delivered' = delivered + 1
           /\ Move(t, "body", "none") /\ UNCHANGED <<reported, terminal, available>>
  <2>1. /\ queue' \in Seq(Entry) /\ Len(queue') = Len(queue) - 1
        /\ Len(queue) \in Nat \ {0} /\ last' = queue[1].item /\ queue[1] \in Entry
        /\ \A i \in 1..Len(queue') : queue'[i] = queue[i + 1]
        /\ Head(queue).size \in Nat
    BY <1>3, TailOfQueue DEF IInv, Typed, Entry
  <2>2. Typed'
    BY <1>1, <1>3, <2>1 DEF IInv, Typed, Entry, BytesAfterPop
  <2>3. WaiterIsWoken'
    BY <1>3 DEF IInv, Typed, WaiterIsWoken, Readable, Move
  <2>4. \A i \in 1..Len(queue') : i + 1 \in 1..Len(queue) /\ 1 \in 1..Len(queue)
    BY <2>1
  <2>5. \A i, j \in 1..Len(queue) :
            i < j => queue[i].item < queue[j].item /\ queue[j].item <= put
    BY DEF IInv, EventsAccounted
  <2>6. \A i \in 1..Len(queue') : last' < queue'[i].item /\ queue'[i].item <= put
    BY <2>1, <2>4, <2>5
  <2>7. \A i, j \in 1..Len(queue') : i < j => queue'[i].item < queue'[j].item
    BY <2>1, <2>4, <2>5
  <2>8. last' <= put /\ terminal # "delivered"
    BY <1>3, <2>1 DEF IInv, EventsAccounted
  <2>9. EventsAccounted'
    BY <1>3, <2>1, <2>6, <2>7, <2>8 DEF IInv, Typed, EventsAccounted
  <2> QED BY <1>2, <2>2, <2>3, <2>9 DEF IInv
<1>4. CASE queue = <<>> /\ UNCHANGED <<queue, bytes, last, delivered>>
  <2>1. Typed'
    BY <1>1, <1>4 DEF IInv, Typed, Find
  <2>2. EventsAccounted'
    BY <1>4 DEF IInv, Typed, EventsAccounted, Find
  <2>3. WaiterIsWoken'
    BY <1>4 DEF IInv, Typed, WaiterIsWoken, Readable, Find, Move
  <2> QED BY <1>2, <2>1, <2>2, <2>3 DEF IInv
<1> QED BY <1>3, <1>4 DEF Find

\* The other calls of a task never put one to sleep; the close and the result
\* reserve the terminal when they find the owner done.
LEMMA CallStep ==
    ASSUME IInv, NEW t \in Tasks,
           \/ CallResult(t) \/ ResultReturns(t) \/ EndClose(t) \/ Cancel(t)
           \/ \E reason \in Reasons : Close(t, reason)
    PROVE  IInv'
<1>1. /\ UNCHANGED <<buffer, wakePending, scheduled, waking, put, last, delivered>>
      /\ UNCHANGED <<entered, owner, operation>> /\ (asked => asked')
  <2>1. CASE CallResult(t)
    BY <2>1 DEF CallResult, wakeup, work, history, flags
  <2>2. CASE ResultReturns(t)
    BY <2>2 DEF ResultReturns, work
  <2>3. CASE EndClose(t)
    BY <2>3 DEF EndClose, work
  <2>4. CASE Cancel(t)
    BY <2>4 DEF Cancel, StartClose, wakeup, history
  <2>5. CASE \E reason \in Reasons : Close(t, reason)
    BY <2>5 DEF Close, StartClose, wakeup, history
  <2> QED BY <2>1, <2>4, <2>5, <2>2, <2>3
<1>2. \/ UNCHANGED <<terminal, told, available>>
      \/ /\ terminal = "none" /\ terminal' = "reserved" /\ told' = dropped
         /\ available' = TRUE /\ owner = "done"
  BY DEF CallResult, ResultReturns, EndClose, Cancel, Close, Settle, wakeup, history
<1>3. at' \in [Tasks -> Places]
  BY DEF IInv, Typed, CallResult, ResultReturns, EndClose, Cancel, Close, Move, Places
<1>4. \A p \in Tasks : at'[p] = "waiting" => at[p] = "waiting"
  BY DEF IInv, Typed, CallResult, ResultReturns, EndClose, Cancel, Close, Move
<1>5. Typed' /\ EventsAccounted'
  BY <1>1, <1>2, <1>3 DEF IInv, Typed, EventsAccounted, buffer
<1>6. Quiet' /\ FlagIsHonest'
  BY <1>1, <1>2 DEF IInv, Quiet, FlagIsHonest
<1>7. WaiterIsWoken'
  BY <1>1, <1>2, <1>4 DEF IInv, WaiterIsWoken, Readable, buffer
<1> QED BY <1>5, <1>6, <1>7 DEF IInv

\* Every step preserves the invariant.
LEMMA StepIInv == IInv /\ [Next]_vars => IInv'
<1> SUFFICES ASSUME IInv, [Next]_vars PROVE IInv'
  OBVIOUS
<1>1. CASE Thread
  BY <1>1, QuietSteps, PutStep DEF Thread
<1>2. CASE OwnerEnds \/ OwnerCancelled \/ Enter \/ CloseUnentered
  BY <1>2, QuietSteps
<1>3. CASE SettledCallback \/ WakeBegin \/ WakeEnd
  BY <1>3, WakeSteps
<1>4. ASSUME NEW t \in Tasks, Read(t) \/ Resume(t) PROVE IInv'
  BY <1>4, FindStep DEF Read, Resume, flags
<1>5. ASSUME NEW t \in Tasks,
             \/ CallResult(t) \/ ResultReturns(t) \/ EndClose(t) \/ Cancel(t)
             \/ \E reason \in Reasons : Close(t, reason)
      PROVE  IInv'
  BY <1>5, CallStep
<1>6. CASE UNCHANGED vars
  BY <1>6 DEF vars, flags, work, buffer, wakeup, calls, history, IInv, Typed, Entry, FlagIsHonest,
              Quiet, WaiterIsWoken, Readable, EventsAccounted
<1> QED BY <1>1, <1>2, <1>3, <1>4, <1>5, <1>6 DEF Next, TaskStep

\* The invariant holds in every reachable state of every stream.
THEOREM Invariance == Spec => []IInv
  BY InitIInv, StepIInv, PTL DEF Spec

\* _put, _wake and __anext__ never lose a wake-up: for any number of tasks and
\* events, a waiting reader with something to read has one on its way.
THEOREM WaiterIsWokenHolds == Spec => []WaiterIsWoken
<1>1. IInv => WaiterIsWoken
  BY DEF IInv
<1> QED BY <1>1, Invariance, PTL

\* Every event is read once and in order, queued, or counted, and the terminal
\* comes after every event and every reported loss, whatever the bounds are.
THEOREM EventsAccountedHolds == Spec => []EventsAccounted
<1>1. IInv => EventsAccounted
  BY DEF IInv
<1> QED BY <1>1, Invariance, PTL

-----------------------------------------------------------------------------
(* What leaves the context.  Once the owner is done neither the request nor *)
(* the invocation's outcome changes, so whoever settles the stream finds    *)
(* the same result.                                                        *)

Settlement ==
    /\ asked \in BOOLEAN /\ intentional \in BOOLEAN
    /\ observed \in BOOLEAN /\ raised \in BOOLEAN
    /\ outcome \in {"none", "value", "error", "cleanup"}
    /\ operation = "returned" => asked \/ outcome # "none"
    /\ terminal # "none" => settled = OwnerResult
    /\ observed => raised
    /\ exit # "open" => terminal # "none"
    /\ FailureSurfaces

\* Nothing has been asked, settled, raised or left.
LEMMA InitSettlement == Init => Settlement
  BY DEF Init, Settlement, FailureSurfaces

\* The invocation's outcome is final when the owner is done.
LEMMA ThreadSettles ==
    ASSUME IInv, Settlement, Thread
    PROVE  Settlement'
<1>1. CASE Begin
  BY <1>1 DEF IInv, Quiet, Settlement, FailureSurfaces, OwnerResult, Begin, flags, calls
<1>2. ASSUME NEW size \in Sizes, Put(size) PROVE Settlement'
  BY <1>2 DEF IInv, Quiet, Settlement, FailureSurfaces, OwnerResult, Put, flags, work, calls
<1>3. CASE Return
  BY <1>3 DEF IInv, Quiet, Settlement, FailureSurfaces, OwnerResult, Return, flags, calls
<1> QED BY <1>1, <1>2, <1>3 DEF Thread

\* A request is recorded only while the owner is active.
LEMMA OwnerSettles ==
    ASSUME IInv, Settlement, OwnerEnds \/ OwnerCancelled \/ Enter \/ CloseUnentered
    PROVE  Settlement'
<1>1. CASE OwnerEnds
  BY <1>1 DEF IInv, Quiet, Settlement, FailureSurfaces, OwnerResult, OwnerEnds, flags, calls
<1>2. CASE OwnerCancelled
  BY <1>2 DEF IInv, Quiet, Settlement, FailureSurfaces, OwnerResult, OwnerCancelled, flags,
              calls
<1>3. CASE Enter
  BY <1>3 DEF IInv, Quiet, Settlement, FailureSurfaces, OwnerResult, Enter, calls
<1>4. CASE CloseUnentered
  BY <1>4 DEF IInv, Quiet, Settlement, FailureSurfaces, OwnerResult, CloseUnentered, work,
              calls
<1> QED BY <1>1, <1>2, <1>3, <1>4

\* Reading, waking and asking for the result settle nothing.
LEMMA ReadersSettleNothing ==
    ASSUME IInv, Settlement,
           \/ WakeBegin \/ WakeEnd
           \/ \E t \in Tasks : Read(t) \/ Resume(t) \/ CallResult(t)
    PROVE  Settlement'
<1>1. UNCHANGED <<outcome, operation, asked, owner, settled, observed, raised, exit,
                  intentional>>
  BY DEF WakeBegin, WakeEnd, Read, Resume, CallResult, flags, work, calls
<1>2. terminal' = "none" <=> terminal = "none"
  BY DEF WakeBegin, WakeEnd, Read, Resume, CallResult, Find
<1> QED BY <1>1, <1>2 DEF Settlement, FailureSurfaces, OwnerResult

\* A close that finds the owner done asks for nothing more.
LEMMA ClosersSettleNothing ==
    ASSUME IInv, Settlement, NEW t \in Tasks,
           Cancel(t) \/ \E reason \in Reasons : Close(t, reason)
    PROVE  Settlement'
<1>1. UNCHANGED <<outcome, operation, owner, settled, observed, raised, exit, terminal>>
  BY DEF Cancel, Close, StartClose
<1>2. /\ asked' = (asked \/ owner = "active")
      /\ intentional' = intentional \/ intentional' = (intentional \/ owner = "active")
  BY Zenon DEF Cancel, Close, StartClose
<1>3. /\ asked \in BOOLEAN /\ intentional \in BOOLEAN
      /\ observed \in BOOLEAN /\ raised \in BOOLEAN
  BY DEF Settlement
<1>4. /\ asked' \in BOOLEAN /\ (asked => asked')
      /\ owner # "active" => asked' = asked
  BY <1>2, <1>3
<1>5. intentional' \in BOOLEAN /\ (intentional => intentional')
  BY <1>2, <1>3
<1>6. FailureSurfaces'
  BY <1>1, <1>4, <1>5 DEF Settlement, FailureSurfaces
<1>7. terminal' # "none" => settled' = OwnerResult'
  BY <1>1, <1>4 DEF IInv, Quiet, Settlement, OwnerResult
<1> QED BY <1>1, <1>3, <1>4, <1>5, <1>6, <1>7 DEF Settlement

\* Whoever settles finds the owner's result.
LEMMA SettleIsResult ==
    ASSUME IInv, Settlement, owner = "done", Settle,
           UNCHANGED <<asked, outcome>>
    PROVE  /\ settled' = OwnerResult /\ OwnerResult' = OwnerResult
           /\ terminal' # "none" /\ OwnerResult # "none"
           /\ terminal # "none" => settled' = settled
           /\ outcome = "cleanup" => settled' = "cleanup"
           /\ settled' \in {"value"} \cup Failures
  BY DEF IInv, Quiet, Settlement, Settle, OwnerResult, Failures

\* What a close raises, case by case.
LEMMA SignalCases ==
    ASSUME NEW t \in Tasks
    PROVE  /\ settled' = "cleanup" => Signal(t) = "cleanup"
           /\ settled' # "cleanup" /\ hit[t] => Signal(t) = "cancelled"
           /\ settled' # "cleanup" /\ ~hit[t] /\ ExitRaises(t) => Signal(t) = settled'
           /\ settled' # "cleanup" /\ ~hit[t] /\ ~ExitRaises(t)
                  => Signal(t) = IF why[t] = "exit after error" THEN "body" ELSE "none"
  BY DEF Signal

\* The done callback and result() keep what is settled.
LEMMA ResultSettles ==
    ASSUME IInv, Settlement,
           SettledCallback \/ \E t \in Tasks : ResultReturns(t)
    PROVE  Settlement'
<1>1. /\ owner = "done" /\ Settle
      /\ UNCHANGED <<asked, outcome, owner, operation, intentional, exit>>
      /\ \/ UNCHANGED <<observed, raised>>
         \/ /\ observed' = (observed \/ settled' \in Failures)
            /\ raised' = (raised \/ settled' \in Failures)
  BY Zenon DEF SettledCallback, ResultReturns, work, flags, calls
<1>2. /\ settled' = OwnerResult /\ OwnerResult' = OwnerResult
      /\ terminal' # "none" /\ (terminal # "none" => settled' = settled)
  BY <1>1, SettleIsResult
<1>3. /\ asked \in BOOLEAN /\ intentional \in BOOLEAN
      /\ observed \in BOOLEAN /\ raised \in BOOLEAN /\ (observed => raised)
  BY DEF Settlement
<1>4. /\ observed' \in BOOLEAN /\ raised' \in BOOLEAN
      /\ (observed' => raised') /\ (raised => raised')
  <2>1. CASE UNCHANGED <<observed, raised>>
    BY <1>3, <2>1
  <2>2. CASE /\ observed' = (observed \/ settled' \in Failures)
             /\ raised' = (raised \/ settled' \in Failures)
    <3>1. CASE settled' \in Failures
      BY <2>2, <3>1
    <3>2. CASE settled' \notin Failures
      <4>1. observed' = observed /\ raised' = raised
        BY <1>3, <2>2, <3>2
      <4> QED BY <1>3, <4>1
    <3> QED BY <3>1, <3>2
  <2> QED BY <1>1, <2>1, <2>2
<1>5. FailureSurfaces'
  BY <1>1, <1>2, <1>4 DEF Settlement, FailureSurfaces
<1> QED BY <1>1, <1>2, <1>3, <1>4, <1>5 DEF Settlement

\* The end of a close raises a failed cleanup whatever else happened, and
\* passes over a failure only when it was raised or asked for.
LEMMA EndCloseSettles ==
    ASSUME IInv, Settlement, NEW t \in Tasks, EndClose(t)
    PROVE  Settlement'
<1>1. /\ owner = "done" /\ Settle
      /\ UNCHANGED <<asked, outcome, owner, operation, intentional>>
      /\ raised' = (raised \/ Signal(t) = settled')
      /\ observed' = (observed \/ settled' = "cleanup" \/ (~hit[t] /\ ExitRaises(t)))
      /\ \/ exit' = exit
         \/ why[t] \in {"exit", "exit after error"} /\ exit' = Signal(t)
  BY Zenon DEF EndClose, work
<1>2. /\ settled' = OwnerResult /\ OwnerResult' = OwnerResult
      /\ terminal' # "none" /\ (terminal # "none" => settled' = settled)
      /\ outcome = "cleanup" => settled' = "cleanup"
      /\ settled' \in {"value"} \cup Failures
  BY <1>1, SettleIsResult
<1>3. /\ observed' \in BOOLEAN /\ raised' \in BOOLEAN
      /\ (observed' => raised') /\ (raised => raised')
  <2>1. observed \in BOOLEAN /\ raised \in BOOLEAN /\ (observed => raised)
    BY DEF Settlement
  <2>2. CASE Signal(t) = settled'
    <3>1. raised' = TRUE
      BY <1>1, <2>2
    <3>2. observed' \in BOOLEAN
      BY <1>1
    <3> QED BY <3>1, <3>2
  <2>3. CASE Signal(t) # settled'
    <3>0. /\ settled' = "cleanup" => Signal(t) = "cleanup"
          /\ settled' # "cleanup" /\ ~hit[t] /\ ExitRaises(t) => Signal(t) = settled'
      BY SignalCases
    <3>1. settled' # "cleanup" /\ ~(~hit[t] /\ ExitRaises(t))
      BY <2>3, <3>0
    <3>2. raised' = (raised \/ FALSE)
      BY <1>1, <2>3
    <3>3. observed' = (observed \/ FALSE)
      BY <1>1, <3>1
    <3> QED BY <2>1, <3>2, <3>3
  <2> QED BY <2>2, <2>3
<1>4. operation # "running"
  BY <1>1 DEF IInv, Quiet
<1>5. FailureSurfaces'
  <2>1. CASE exit' = exit
    BY <1>1, <1>2, <1>4, <2>1 DEF Settlement, FailureSurfaces
  <2>2. CASE why[t] \in {"exit", "exit after error"} /\ exit' = Signal(t)
    <3>1. outcome' = "cleanup" => exit' = "cleanup"
      BY <1>1, <1>2, <2>2, SignalCases
    <3>2. ASSUME exit' = "none"
          PROVE  \/ settled' = "value" \/ raised'
                 \/ settled' = "cancelled" /\ intentional'
      <4>1. settled' # "cleanup" /\ ~hit[t] /\ ~(ExitRaises(t) /\ settled' # "none")
        BY <1>2, <2>2, <3>2, SignalCases DEF Failures
      <4>2. ~ExitRaises(t) /\ why[t] = "exit"
        BY <1>2, <2>2, <3>2, <4>1, SignalCases DEF Failures
      <4>3. settled' \notin Failures \/ PassedOver
        BY <4>2 DEF ExitRaises
      <4> QED BY <1>1, <1>2, <4>3 DEF PassedOver, Settlement
    <3> QED BY <1>1, <1>4, <3>1, <3>2 DEF FailureSurfaces
  <2> QED BY <1>1, <2>1, <2>2
<1> QED BY <1>1, <1>2, <1>3, <1>5 DEF Settlement

\* Every step preserves the settlement.
LEMMA StepSettlement == IInv /\ Settlement /\ [Next]_vars => Settlement'
<1> SUFFICES ASSUME IInv, Settlement, [Next]_vars PROVE Settlement'
  OBVIOUS
<1>1. CASE UNCHANGED vars
  BY <1>1 DEF vars, flags, work, calls, Settlement, FailureSurfaces, OwnerResult
<1> QED BY <1>1, ThreadSettles, OwnerSettles, ReadersSettleNothing, ClosersSettleNothing,
           ResultSettles, EndCloseSettles DEF Next, TaskStep

\* However tasks read, close, cancel and leave: a context is left only when its
\* operation is over, a failed cleanup is always raised, and no other failure
\* is silent unless it was asked for.
THEOREM FailureSurfacesHolds == Spec => []FailureSurfaces
<1>1. Settlement => FailureSurfaces
  BY DEF Settlement
<1>2. Spec => []Settlement
  BY InitSettlement, StepSettlement, Invariance, PTL DEF Spec
<1> QED BY <1>1, <1>2, PTL
=============================================================================
