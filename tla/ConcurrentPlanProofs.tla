------------------------ MODULE ConcurrentPlanProofs ------------------------
(***************************************************************************)
(* The concurrent scheduler for every plan: any number of trials, cells,   *)
(* keys, rates, limits and deadlines, eager children or not.               *)
(*                                                                         *)
(* The invariant says how trials, children and records correspond (Owned), *)
(* what the record of a child means (Entries), what each stop is owed to   *)
(* (Decisions, Causes), in which order trials were admitted (Order), that at *)
(* every instant so far the open reservations were within the limits       *)
(* (Reservations), that the sums admission works on are those of the active *)
(* trials and why each trial that the scan has passed is still pending     *)
(* (Scanning), and what the ways out of the loop leave behind (Leaving).   *)
(***************************************************************************)
EXTENDS ConcurrentPlan, NumberLemmas

Places   == {"sleep", "check", "consume", "admit", "instant", "cancel", "wait", "finish",
             "ended"}
Reasons  == Hard \cup {"none", "stop_on_error", "elapsed_admission_limit"}
Decision == [reason : Reasons, offset : Int]

ScanRecord == [index : Nat \ {0}, reserved : SUBSET ReservedBy(Trials), target : Int]

Types ==
    /\ stopOnError \in BOOLEAN /\ now \in 0..MaxTime /\ at \in Places
    /\ task \in [Trials -> {"none"} \cup Live \cup Outcomes] /\ sent \in [Trials -> Nat]
    /\ pending \in SUBSET Trials /\ active \in SUBSET Trials
    /\ admission \in [Trials -> [index : Nat, offset : Int]]
    /\ records \in [Trials -> [status : Statuses \cup {"none"}, reason : Reasons,
                               released : Int, finished : Int]]
    /\ stop \in Decision /\ term \in Decision
    /\ scan \in ScanRecord
    /\ cancel \in [requested : BOOLEAN, due : BOOLEAN]

Admitted == Trials \ pending
Recorded == Admitted \ active

\* A trial is pending, has a child whose outcome is not consumed yet, or has
\* the record of its child.
Owned ==
    /\ active \subseteq Admitted
    /\ \A t \in pending :
           /\ task[t] = "none" /\ sent[t] = 0 /\ admission[t].index = 0
           /\ records[t] = IF at = "ended" THEN [NoRecord EXCEPT !.status = "not_run",
                                                                 !.reason = stop.reason]
                           ELSE NoRecord
    /\ \A t \in active : task[t] \in Live \cup Outcomes /\ records[t] = NoRecord
    /\ \A t \in Recorded : task[t] \in Outcomes
    /\ \A t \in Trials : sent[t] <= 1

\* The record of a child agrees with its outcome and with the first hard stop.
Entry(t) ==
    /\ records[t].status \in Statuses \ {"not_run"}
    /\ (task[t] \in Cleanups) <=> (records[t].status = "cleanup_failed")
    /\ admission[t].offset <= records[t].finished /\ records[t].finished <= now
    /\ records[t].released = IF records[t].status = "cleanup_failed" THEN NoTime
                             ELSE records[t].finished
    /\ IF records[t].status \in Interrupted
       THEN ValidInterruption(t) ELSE records[t].reason = "none"
    /\ stopOnError /\ records[t].status # "completed" =>
           /\ stop.reason # "none"
           /\ \A u \in Admitted : admission[u].offset <= records[t].finished

Entries == \A t \in Recorded : Entry(t)

Decided(decision) ==
    /\ decision.reason = "none" <=> decision.offset = NoTime
    /\ NoTime <= decision.offset /\ decision.offset <= now

\* Both decisions are made once; a hard one ends admission too.
Decisions ==
    /\ Decided(stop) /\ Decided(term) /\ term.reason \in Hard \cup {"none"}
    /\ term.reason # "none" => stop.reason # "none" /\ term.offset >= stop.offset
    /\ stop.reason \in Hard => term = stop
    /\ "timeout" \in {stop.reason, term.reason} => Timeout # NoTime
    /\ stop.reason = "elapsed_admission_limit" => Limit # NoTime /\ stop.offset >= Limit

Causes ==
    /\ stop.reason = "stop_on_error" =>
           /\ stopOnError
           /\ \E t \in Recorded : records[t].status # "completed" /\ records[t].finished <= stop.offset
    /\ "cleanup_failed" \in {stop.reason, term.reason} =>
           \E t \in Recorded : records[t].status = "cleanup_failed"
    /\ stop.reason # "none" => \A t \in Admitted : admission[t].offset <= stop.offset

\* An admitted trial follows its predecessors, which had released everything.
Follows(t, u) ==
    /\ u \in Recorded /\ admission[u].index < admission[t].index
    /\ records[u].released # NoTime /\ records[u].released <= admission[t].offset

Order ==
    /\ {admission[t].index : t \in Admitted} = 1..Cardinality(Admitted)
    /\ \A t \in Admitted : 0 <= admission[t].offset /\ admission[t].offset <= now
    /\ \A t, u \in Admitted : admission[t].index < admission[u].index =>
                                  admission[t].offset <= admission[u].offset
    /\ \A t \in Admitted, u \in Trials : u < t /\ Cell[u] = Cell[t] => Follows(t, u)

\* The reservations open at an instant, as far as they are known now.
OpenSoFar(time) ==
    {t \in Admitted : /\ admission[t].offset <= time
                      /\ records[t].released = NoTime \/ time < records[t].released}

Reservations == \A time \in 0..MaxTime : WithinLimits(OpenSoFar(time))

\* Why a trial cannot be admitted beside these.
Obstructed(t, trials) ==
    \/ Waits(t)
    \/ ReservedBy(trials) \cap Keys[t] # {}
    \/ RateOf(trials) + Target[t] > MaxRate

Scanned(trials) ==
    /\ \A t \in pending : t < scan.index => Obstructed(t, trials)
    /\ ~cancel.requested => \A t \in trials : task[t] \in Live

\* What the scan has established while it is under way.
Scanning ==
    /\ at = "admit" =>
           /\ scan.reserved = ReservedBy(active) /\ scan.target = RateOf(active)
           /\ Scanned(active)
    /\ at = "instant" =>
           /\ scan.index \in active /\ task[scan.index] \in Outcomes
           /\ Scanned(active \ {scan.index})
    /\ at \in {"cancel", "wait"} /\ stop.reason = "none" /\ ~cancel.requested =>
           \A t \in pending : Full \/ Obstructed(t, active)

\* What holds where run() waits, leaves its loop and has ended.
Leaving ==
    /\ at = "wait" => timer = WaitTimer
    /\ at \in {"finish", "ended"} => active = {} /\ (pending # {} => stop.reason # "none")
    /\ at = "ended" => result.kind = Outward /\ result.elapsed = now

PlanInv ==
    /\ Types /\ Owned /\ Entries /\ Decisions /\ Causes /\ Order /\ Reservations
    /\ Scanning /\ Leaving

-----------------------------------------------------------------------------
(* Sets of trials and their rates                                          *)

USE PlanAssumption DEF PlanAccepted, Trials

Rates(trials) == [t \in Trials |-> IF t \in trials THEN Target[t] ELSE 0]

LEMMA RatesTyped ==
    ASSUME NEW S
    PROVE  /\ Rates(S) \in Seq(Int) /\ Len(Rates(S)) = N /\ RateOf(S) = SumOf(Rates(S))
           /\ \A t \in 1..N : Rates(S)[t] = IF t \in S THEN Target[t] ELSE 0
           /\ \A t \in 1..N : Target[t] \in Nat
           /\ RateOf(S) \in Int
<1>1. \A t \in 1..N : Target[t] \in Nat
  OBVIOUS
<1>2. Rates(S) \in [1..N -> Int]
  BY <1>1 DEF Rates
<1>3. Rates(S) \in Seq(Int) /\ Len(Rates(S)) = N
  BY <1>2
<1>4. RateOf(S) = SumOf(Rates(S))
  BY DEF RateOf, Rates
<1>5. RateOf(S) \in Int
  BY <1>3, <1>4, SumTyped
<1>6. \A t \in 1..N : Rates(S)[t] = IF t \in S THEN Target[t] ELSE 0
  BY DEF Rates
<1> QED BY <1>1, <1>3, <1>4, <1>5, <1>6

LEMMA RateOfSubset ==
    ASSUME NEW S, NEW T, S \subseteq T
    PROVE  RateOf(S) <= RateOf(T)
<1> DEFINE s == Rates(S)  z == Rates(T)
<1>1. /\ s \in Seq(Int) /\ z \in Seq(Int) /\ Len(s) = Len(z) /\ Len(z) = N
      /\ RateOf(S) = SumOf(s) /\ RateOf(T) = SumOf(z)
  BY RatesTyped
<1>a. /\ \A t \in 1..N : s[t] = IF t \in S THEN Target[t] ELSE 0
      /\ \A t \in 1..N : z[t] = IF t \in T THEN Target[t] ELSE 0
      /\ \A t \in 1..N : Target[t] \in Nat
  BY RatesTyped
<1> HIDE DEF s, z
<1>2. ASSUME NEW t \in 1..Len(z) PROVE s[t] <= z[t]
  <2>1. t \in 1..N /\ Target[t] \in Nat
    BY Zenon, <1>1, <1>a
  <2>2. CASE t \in S
    <3>1. s[t] = Target[t] /\ z[t] = Target[t]
      BY Zenon, <1>a, <2>1, <2>2
    <3> QED BY <2>1, <3>1
  <2>3. CASE t \notin S /\ t \in T
    <3>1. s[t] = 0 /\ z[t] = Target[t]
      BY Zenon, <1>a, <2>1, <2>3
    <3> QED BY <2>1, <3>1
  <2>4. CASE t \notin S /\ t \notin T
    <3>1. s[t] = 0 /\ z[t] = 0
      BY Zenon, <1>a, <2>1, <2>4
    <3> QED BY <3>1
  <2> QED BY <2>2, <2>3, <2>4
<1>3. SumOf(s) <= SumOf(z)
  BY <1>1, <1>2, SumMonotone
<1> QED BY <1>1, <1>3

LEMMA RateOfNone == RateOf({}) <= 0
<1> DEFINE c == [i \in 0..N |-> 0]
<1>a. N \in Nat /\ Len(Rates({})) = N /\ \A i \in 1..N : Rates({})[i] = 0
  BY RatesTyped
<1>b. c \in [0..N -> Int] /\ \A i \in 0..N : c[i] = 0
  OBVIOUS
<1>c. 0 \in 0..N /\ N \in 0..N /\ \A i \in 1..N : i \in 0..N /\ i - 1 \in 0..N
  BY <1>a
<1> HIDE DEF c
<1>1. /\ c \in [0..Len(Rates({})) -> Int] /\ 0 <= c[0] /\ c[Len(Rates({}))] = 0
      /\ \A i \in 1..Len(Rates({})) : Rates({})[i] + c[i - 1] <= c[i]
  BY <1>a, <1>b, <1>c
<1> QED BY <1>1, RatesTyped, SumBelow

LEMMA RateOfMore ==
    ASSUME NEW S, NEW k \in Trials, k \notin S
    PROVE  RateOf(S \cup {k}) = RateOf(S) + Target[k]
<1> DEFINE s == Rates(S)  z == Rates(S \cup {k})
<1>1. /\ s \in Seq(Int) /\ z \in Seq(Int) /\ Len(s) = N /\ Len(z) = N
      /\ RateOf(S) = SumOf(s) /\ RateOf(S \cup {k}) = SumOf(z)
  BY RatesTyped
<1>a. /\ \A i \in 1..N : s[i] = IF i \in S THEN Target[i] ELSE 0
      /\ \A i \in 1..N : z[i] = IF i \in S \cup {k} THEN Target[i] ELSE 0
  BY RatesTyped
<1>2. \A i \in 1..Len(s) : i # k => z[i] = s[i]
  <2> HIDE DEF s, z
  <2> QED BY <1>1, <1>a
<1>3. z[k] = Target[k] /\ s[k] = 0 /\ Target[k] \in Int
  BY RatesTyped
<1> HIDE DEF s, z
<1>4. SumOf(z) = SumOf(s) + (z[k] - s[k])
  BY <1>1, <1>2, SumChange
<1>5. SumOf(s) \in Int
  BY <1>1, SumTyped
<1> QED BY <1>1, <1>3, <1>4, <1>5

LEMMA TrialsFinite ==
    ASSUME NEW S \in SUBSET Trials
    PROVE  IsFiniteSet(S) /\ Cardinality(S) \in Nat
<1>1. IsFiniteSet(Trials)
  BY FS_Interval
<1> QED BY <1>1, FS_Subset, FS_CardinalityType

\* The sums of a set of trials, as the scan keeps them.
LEMMA SumsTyped ==
    ASSUME NEW S \in SUBSET Trials, NEW i \in Nat \ {0}
    PROVE  [index |-> i, reserved |-> ReservedBy(S), target |-> RateOf(S)] \in ScanRecord
<1>1. ReservedBy(S) \in SUBSET ReservedBy(Trials) /\ RateOf(S) \in Int
  BY RatesTyped DEF ReservedBy
<1> QED BY <1>1 DEF ScanRecord

\* The limits that hold for some trials hold for fewer of them.
LEMMA LimitsOfFewer ==
    ASSUME NEW T \in SUBSET Trials, WithinLimits(T), NEW S \in SUBSET T
    PROVE  WithinLimits(S)
<1>1. Cardinality(S) <= Cardinality(T) /\ Cardinality(S) \in Nat /\ Cardinality(T) \in Nat
  BY TrialsFinite, FS_Subset
<1>2. RateOf(S) <= RateOf(T) /\ RateOf(S) \in Int /\ RateOf(T) \in Int
  BY RateOfSubset, RatesTyped
<1>3. \A t, u \in S : t # u => Keys[t] \cap Keys[u] = {}
  BY DEF WithinLimits
<1>4. Cardinality(S) <= MaxWorkers /\ RateOf(S) <= MaxRate
  BY <1>1, <1>2 DEF WithinLimits
<1> QED BY <1>3, <1>4 DEF WithinLimits

\* Another trial fits when nothing blocks it.
LEMMA LimitsOfMore ==
    ASSUME NEW S \in SUBSET Trials, WithinLimits(S), NEW k \in Trials, k \notin S,
           ReservedBy(S) \cap Keys[k] = {}, ~(RateOf(S) + Target[k] > MaxRate),
           ~(Cardinality(S) >= MaxWorkers)
    PROVE  WithinLimits(S \cup {k})
<1>1. Cardinality(S \cup {k}) = Cardinality(S) + 1 /\ Cardinality(S) \in Nat
  BY TrialsFinite, FS_AddElement
<1>2. RateOf(S \cup {k}) = RateOf(S) + Target[k] /\ RateOf(S) \in Int /\ Target[k] \in Int
  BY RateOfMore, RatesTyped
<1>3. \A t \in S : Keys[t] \cap Keys[k] = {}
  BY DEF ReservedBy
<1>4. \A t, u \in S \cup {k} : t # u => Keys[t] \cap Keys[u] = {}
  BY <1>3 DEF WithinLimits
<1>5. Cardinality(S \cup {k}) <= MaxWorkers /\ RateOf(S \cup {k}) <= MaxRate
  BY <1>1, <1>2
<1> QED BY <1>4, <1>5 DEF WithinLimits

\* What obstructs a trial beside some others obstructs it beside more.
LEMMA ObstructedByMore ==
    ASSUME NEW t \in Trials, NEW S, NEW T, S \subseteq T, Obstructed(t, S)
    PROVE  Obstructed(t, T)
<1>1. RateOf(S) <= RateOf(T) /\ RateOf(S) \in Int /\ RateOf(T) \in Int /\ Target[t] \in Int
  BY RateOfSubset, RatesTyped
<1>2. ReservedBy(S) \subseteq ReservedBy(T)
  BY DEF ReservedBy
<1> QED BY <1>1, <1>2 DEF Obstructed

-----------------------------------------------------------------------------
(* The invariant says enough                                               *)

LEMMA EndedHistory ==
    ASSUME PlanInv, at = "ended"
    PROVE  /\ active = {} /\ Started = Recorded /\ Started = Admitted
           /\ \A t \in pending : records[t].status = "not_run" /\ records[t].reason = stop.reason
           /\ \A t \in Started : Entry(t)
           /\ Unconfirmed = {t \in Started : records[t].status = "cleanup_failed"}
           /\ result.elapsed = now /\ result.kind = Outward
           /\ pending # {} => stop.reason # "none"
<1>1. active = {} /\ result.elapsed = now /\ result.kind = Outward /\ (pending # {} => stop.reason # "none")
  BY DEF PlanInv, Leaving
<1>2. Recorded = Admitted /\ Admitted = Trials \ pending /\ pending \subseteq Trials
  BY <1>1 DEF Recorded, Admitted, PlanInv, Types
<1>3. \A t \in pending : records[t].status = "not_run" /\ records[t].reason = stop.reason
  BY DEF PlanInv, Owned, NoRecord
<1>4. \A t \in Recorded : Entry(t) /\ records[t].status # "not_run"
  BY DEF PlanInv, Entries, Entry
<1>5. Started = Admitted
  BY <1>2, <1>3, <1>4 DEF Started
<1>6. Unconfirmed = {t \in Started : records[t].status = "cleanup_failed"}
  BY DEF Unconfirmed, Started
<1> QED BY <1>1, <1>2, <1>3, <1>4, <1>5, <1>6

LEMMA InvAcceptsHistory == PlanInv => HistoryAccepted
<1> SUFFICES ASSUME PlanInv, at = "ended" PROVE ValidateHistory
  BY DEF HistoryAccepted
<1>0. /\ active = {} /\ Started = Recorded /\ Started = Admitted
      /\ \A t \in pending : records[t].status = "not_run" /\ records[t].reason = stop.reason
      /\ \A t \in Started : Entry(t)
      /\ Unconfirmed = {t \in Started : records[t].status = "cleanup_failed"}
      /\ result.elapsed = now
      /\ pending # {} => stop.reason # "none"
  BY EndedHistory
<1>1. ValidStops
  <2>1. Decisions /\ Causes /\ Types
    BY DEF PlanInv
  <2>2. \A decision \in {stop, term} :
           /\ decision.reason = "none" <=> decision.offset = NoTime
           /\ decision.offset <= result.elapsed
    BY <1>0, <2>1 DEF Decisions, Decided
  <2>3. stop.reason = "stop_on_error" =>
           stopOnError /\ \E t \in Failures : records[t].finished <= stop.offset
    BY <1>0, <2>1 DEF Causes, Failures
  <2>4. ASSUME stopOnError, Failures # {}
        PROVE  /\ stop.reason # "none"
               /\ \A t \in Started, u \in Failures : admission[t].offset <= records[u].finished
    BY <1>0, <2>4 DEF Failures, Entry
  <2>5. "cleanup_failed" \in {stop.reason, term.reason} => Unconfirmed # {}
    BY <1>0, <2>1 DEF Causes
  <2>6. /\ term.reason # "none" => stop.reason # "none" /\ term.offset >= stop.offset
        /\ stop.reason \in Hard => term = stop
        /\ "timeout" \in {stop.reason, term.reason} => Timeout # NoTime
        /\ stop.reason = "elapsed_admission_limit" => Limit # NoTime /\ stop.offset >= Limit
    BY <2>1 DEF Decisions
  <2> QED BY <2>2, <2>3, <2>4, <2>5, <2>6, Zenon DEF ValidStops
<1>2. ASSUME NEW t \in Trials PROVE ValidOutcome(t)
  <2>1. CASE t \notin Started
    <3>1. t \in pending /\ admission[t].index = 0
      BY <1>0, <2>1 DEF Admitted, PlanInv, Owned
    <3> QED BY <1>0, <2>1, <3>1 DEF ValidOutcome
  <2>2. CASE t \in Started
    <3>1. Entry(t) /\ 0 <= admission[t].offset
      BY <1>0, <2>2 DEF PlanInv, Order
    <3>2. stop.reason # "none" => admission[t].offset <= stop.offset
      BY <1>0, <2>2 DEF PlanInv, Causes
    <3>3. t \in Unconfirmed <=> records[t].status = "cleanup_failed"
      BY <1>0, <2>2
    <3> QED BY <1>0, <2>2, <3>1, <3>2, <3>3 DEF ValidOutcome, Entry
  <2> QED BY <2>1, <2>2
<1>3. ValidReservations
  <2>1. Order /\ Reservations
    BY DEF PlanInv
  <2>2. \A t \in Started, u \in Trials :
           u < t /\ Cell[u] = Cell[t] =>
               /\ u \in Started /\ admission[u].index < admission[t].index
               /\ records[u].released # NoTime
               /\ records[u].released <= admission[t].offset
    BY <1>0, <2>1 DEF Order, Follows
  <2>3. \A time \in 0..MaxTime : WithinLimits(OpenAt(time))
    <3>1. ASSUME NEW time \in 0..MaxTime PROVE OpenAt(time) = OpenSoFar(time)
      BY <1>0 DEF OpenAt, OpenSoFar
    <3> QED BY <2>1, <3>1 DEF Reservations
  <2> QED BY <1>0, <2>1, <2>2, <2>3 DEF ValidReservations, Order
<1> QED BY <1>1, <1>2, <1>3 DEF ValidateHistory

LEMMA InvKeepsLimits == PlanInv => ChildrenWithinLimits
<1> SUFFICES ASSUME PlanInv PROVE ChildrenWithinLimits
  OBVIOUS
<1>0. Types /\ Owned /\ Entries /\ Order
  BY DEF PlanInv
<1>1. ASSUME NEW t \in Occupying PROVE t \in OpenSoFar(now)
  <2>1. t \in Admitted
    BY <1>0, <1>1 DEF Occupying, Live, Cleanups, Owned, Admitted
  <2>2. records[t].released = NoTime
    <3>1. CASE t \in active
      BY <1>0, <3>1 DEF Owned, NoRecord
    <3>2. CASE t \in Recorded
      <4>1. task[t] \in Outcomes /\ Entry(t)
        BY <1>0, <3>2 DEF Owned, Entries
      <4>2. task[t] \in Cleanups
        BY <1>1, <4>1 DEF Occupying, Live, Outcomes, Native, Cleanups
      <4> QED BY <4>1, <4>2 DEF Entry
    <3> QED BY <2>1, <3>1, <3>2 DEF Recorded
  <2>3. admission[t].offset <= now
    BY <1>0, <2>1 DEF Order
  <2> QED BY <2>1, <2>2, <2>3 DEF OpenSoFar
<1>2. WithinLimits(Occupying)
  <2>1. OpenSoFar(now) \in SUBSET Trials /\ WithinLimits(OpenSoFar(now))
    BY <1>0 DEF OpenSoFar, Admitted, PlanInv, Reservations, Types
  <2>2. Occupying \in SUBSET OpenSoFar(now)
    BY <1>1
  <2> QED BY <2>1, <2>2, LimitsOfFewer
<1>3. ASSUME NEW t \in Trials, task[t] # "none", NEW u \in 1..(t - 1), Cell[u] = Cell[t]
      PROVE  records[u].status \notin {"none", "not_run", "cleanup_failed"}
  <2>1. t \in Admitted /\ u \in Trials /\ u < t
    BY <1>0, <1>3 DEF Owned, Admitted
  <2>2. u \in Recorded /\ records[u].released # NoTime
    BY <1>0, <1>3, <2>1 DEF Order, Follows
  <2>3. Entry(u)
    BY <1>0, <2>2 DEF Entries
  <2> QED BY <2>2, <2>3 DEF Entry, Statuses, Native, Interrupted
<1>4. ReservationsHold
  BY <1>2, <1>3 DEF ReservationsHold
<1>5. ASSUME at = "ended"
      PROVE  /\ active = {} /\ DOMAIN records = Trials
             /\ \A t \in Trials : IF task[t] = "none" THEN records[t].status = "not_run"
                                  ELSE task[t] \in Outcomes /\ records[t].status # "not_run"
             /\ result.kind = "cleanup" <=> \E t \in Trials : task[t] \in Cleanups
             /\ result.kind = "returned" => term.reason = "none"
  <2>0. /\ active = {} /\ Started = Recorded /\ Started = Admitted
        /\ \A t \in pending : records[t].status = "not_run"
        /\ \A t \in Started : Entry(t)
        /\ Unconfirmed = {t \in Started : records[t].status = "cleanup_failed"}
        /\ result.kind = Outward
    BY <1>5, EndedHistory
  <2>1. ASSUME NEW t \in Trials
        PROVE  IF task[t] = "none" THEN records[t].status = "not_run"
               ELSE task[t] \in Outcomes /\ records[t].status # "not_run"
    <3>1. CASE t \in pending
      BY <1>0, <2>0, <3>1 DEF Owned
    <3>2. CASE t \notin pending
      <4>1. t \in Recorded /\ t \in Started
        BY <2>0, <3>2 DEF Admitted
      <4>2. task[t] \in Outcomes /\ records[t].status # "not_run"
        BY <1>0, <4>1 DEF Owned, Started
      <4> QED BY <4>2 DEF Outcomes, Native, Cleanups
    <3> QED BY <3>1, <3>2
  <2>2. Unconfirmed = {t \in Trials : task[t] \in Cleanups}
    <3>1. \A t \in pending : task[t] = "none"
      BY <1>0 DEF Owned
    <3>2. \A t \in Started : (task[t] \in Cleanups) <=> (records[t].status = "cleanup_failed")
      BY <2>0 DEF Entry
    <3>3. "none" \notin Cleanups
      BY DEF Cleanups
    <3> QED BY <2>0, <3>1, <3>2, <3>3 DEF Admitted, Unconfirmed
  <2>3. result.kind = "returned" => term.reason = "none"
    <3>1. "cleanup_failed" = term.reason => Unconfirmed # {}
      BY <2>0 DEF PlanInv, Causes
    <3>2. term.reason \in Hard \cup {"none"}
      BY DEF PlanInv, Decisions
    <3> QED BY <2>0, <3>1, <3>2 DEF Outward, Hard
  <2>4. result.kind = "cleanup" <=> Unconfirmed # {}
    BY <2>0 DEF Outward
  <2> QED BY <1>0, <2>0, <2>1, <2>2, <2>3, <2>4 DEF Types
<1>6. ChildrenOwned
  BY <1>0, <1>5 DEF ChildrenOwned, Owned
<1> QED BY <1>4, <1>6 DEF ChildrenWithinLimits

\* The earlier of the two wake-up times is one of them.
LEMMA TimerIsAWakeUp ==
    WaitTimer # NoTime =>
        /\ term.reason = "none"
        /\ WaitTimer = Timeout \/ (WaitTimer = Limit /\ stop.reason = "none")
<1> SUFFICES ASSUME WaitTimer # NoTime
             PROVE  term.reason = "none" /\ (WaitTimer = Timeout \/ (WaitTimer = Limit /\ stop.reason = "none"))
  OBVIOUS
<1> DEFINE limit == IF stop.reason = "none" THEN Limit ELSE NoTime
           both  == {Timeout, limit} \ {NoTime}
<1>1. WaitTimer = IF term.reason # "none" \/ both = {} THEN NoTime ELSE Min(both)
  BY DEF WaitTimer
<1>2. term.reason = "none" /\ both # {} /\ WaitTimer = Min(both)
  BY <1>1
<1>3. both \in SUBSET Int /\ IsFiniteSet({Timeout, limit})
  <2>1. {Timeout} \cup {limit} = {Timeout, limit}
    OBVIOUS
  <2>2. IsFiniteSet({Timeout}) 
    BY FS_Singleton
  <2> QED BY <2>1, <2>2, FS_AddElement DEF NoTime
<1>4. IsFiniteSet(both)
  BY <1>3, FS_Subset
<1>5. Min(both) \in both
  <2> HIDE DEF both
  <2> QED BY <1>2, <1>3, <1>4, MinIsLeast
<1> QED BY <1>2, <1>5

LEMMA InvJustifiesWait == PlanInv => WaitIsJustified
<1> SUFFICES ASSUME PlanInv, at = "wait" PROVE WaitIsJustified
  BY DEF WaitIsJustified
<1>1. ASSUME stop.reason = "none", ~cancel.requested, NEW t \in pending
      PROVE  Full \/ Obstructed(t, active)
  BY <1>1 DEF PlanInv, Scanning
<1>2. ASSUME timer # NoTime, now >= timer
      PROVE  \/ DeadlinePassed /\ term.reason = "none"
             \/ LimitPassed /\ stop.reason = "none"
  <2>1. timer = WaitTimer
    BY DEF PlanInv, Leaving
  <2> QED BY <1>2, <2>1, TimerIsAWakeUp DEF DeadlinePassed, LimitPassed
<1> QED BY <1>1, <1>2 DEF WaitIsJustified, Obstructed

LEMMA InitPlanInv == Init => PlanInv
<1> SUFFICES ASSUME Init PROVE PlanInv
  OBVIOUS
<1>1. Admitted = {} /\ Recorded = {} /\ active = {} /\ pending = Trials
  BY DEF Init, Admitted, Recorded
<1>2. Types
  <2>1. NoRecord \in [status : Statuses \cup {"none"}, reason : Reasons, released : Int, finished : Int]
    BY DEF NoRecord, Reasons, NoTime
  <2>2. Undecided \in Decision
    BY DEF Undecided, Decision, Reasons, NoTime
  <2>3. scan \in ScanRecord
    BY DEF Init, ScanRecord
  <2> QED BY <2>1, <2>2, <2>3 DEF Init, Types, Places, NoTime
<1>3. Owned
  BY <1>1 DEF Init, Owned
<1>4. Entries /\ Causes
  BY <1>1 DEF Init, Entries, Causes, Undecided
<1>5. Decisions
  BY DEF Init, Decisions, Decided, Undecided, NoTime, Hard
<1>6. Order
  BY <1>1, FS_EmptySet DEF Order
<1>7. Reservations
  <2>1. WithinLimits({})
    BY FS_EmptySet, RateOfNone, RatesTyped DEF WithinLimits
  <2>2. \A time \in 0..MaxTime : OpenSoFar(time) = {}
    BY <1>1 DEF OpenSoFar
  <2> QED BY <2>1, <2>2 DEF Reservations
<1>8. Scanning /\ Leaving
  BY DEF Init, Scanning, Leaving
<1> QED BY <1>2, <1>3, <1>4, <1>5, <1>6, <1>7, <1>8 DEF PlanInv

-----------------------------------------------------------------------------
(* Decisions                                                               *)

\* A decision that has been made stays.
Frozen ==
    /\ stop.reason # "none" => stop' = stop
    /\ term.reason # "none" => term' = term

LEMMA FirstDecision ==
    ASSUME Types, NEW decision \in Decision, NEW reason \in Reasons
    PROVE  /\ First(decision, reason) \in Decision
           /\ decision.reason # "none" => First(decision, reason) = decision
           /\ decision.reason = "none" => /\ First(decision, reason).reason = reason
                                          /\ First(decision, reason).offset = now
  BY DEF First, Types, Decision

LEMMA TerminateDecides ==
    ASSUME Types, Decisions, NEW reason \in Hard, reason = "timeout" => Timeout # NoTime,
           Terminate(reason), now' = now
    PROVE  /\ Decisions' /\ Frozen /\ stop' \in Decision /\ term' \in Decision
           /\ stop' # stop => stop'.reason = reason /\ stop'.offset = now
           /\ term' # term => term'.reason = reason
           /\ stop'.reason # "none" /\ term'.reason # "none"
<1>0. reason \in Reasons /\ reason # "none" /\ stop \in Decision /\ term \in Decision
  BY DEF Reasons, Hard, Types
<1>1. stop' = First(stop, reason) /\ term' = First(term, reason)
  BY DEF Terminate
<1>2. /\ stop' \in Decision /\ term' \in Decision
      /\ stop.reason # "none" => stop' = stop
      /\ stop.reason = "none" => stop'.reason = reason /\ stop'.offset = now
      /\ term.reason # "none" => term' = term
      /\ term.reason = "none" => term'.reason = reason /\ term'.offset = now
  BY <1>0, <1>1, FirstDecision
<1>3. stop.reason = "none" => term.reason = "none" /\ stop' = term'
  BY <1>1 DEF Decisions, First
<1>a. Decided(stop) /\ Decided(term) /\ now \in Nat /\ now' = now
  BY <1>0 DEF Decisions, Types
<1>b. Decided(stop)'
  <2>1. CASE stop.reason = "none"
    BY <1>0, <1>2, <1>a, <2>1 DEF Decided, NoTime
  <2>2. CASE stop.reason # "none"
    BY <1>2, <1>a, <2>2 DEF Decided
  <2> QED BY <2>1, <2>2
<1>c. Decided(term)'
  <2>1. CASE term.reason = "none"
    BY <1>0, <1>2, <1>a, <2>1 DEF Decided, NoTime
  <2>2. CASE term.reason # "none"
    BY <1>2, <1>a, <2>2 DEF Decided
  <2> QED BY <2>1, <2>2
<1>4. Decided(stop)' /\ Decided(term)'
  BY <1>b, <1>c
<1>5. term'.reason # "none" => stop'.reason # "none" /\ term'.offset >= stop'.offset
  BY <1>0, <1>2 DEF Decisions, Decided, Types, Decision
<1>6. stop'.reason \in Hard => term' = stop'
  <2>1. CASE stop.reason = "none"
    BY <1>3, <2>1
  <2>2. CASE stop.reason # "none"
    BY <1>2, <2>2 DEF Decisions, Hard
  <2> QED BY <2>1, <2>2
<1>7. Decisions'
  BY <1>0, <1>2, <1>4, <1>5, <1>6 DEF Decisions, Hard
<1> QED BY <1>0, <1>2, <1>7 DEF Frozen

LEMMA CheckLimitsDecides ==
    ASSUME Types, Decisions, CheckLimits, now' = now
    PROVE  /\ Decisions' /\ Frozen /\ stop' \in Decision /\ term' \in Decision
           /\ stop' # stop => stop'.reason \in {"timeout", "elapsed_admission_limit"} /\ stop'.offset = now
           /\ term' # term => term'.reason = "timeout"
           /\ stop'.reason = "none" => stop' = stop /\ term' = term
<1>1. CASE DeadlinePassed
  <2>1. Terminate("timeout") /\ "timeout" \in Hard /\ Timeout # NoTime
    BY <1>1 DEF CheckLimits, Terminate, Hard, DeadlinePassed
  <2> QED BY <2>1, TerminateDecides
<1>2. CASE ~DeadlinePassed /\ LimitPassed
  <2>1. term' = term /\ stop' = First(stop, "elapsed_admission_limit")
    BY <1>2 DEF CheckLimits
  <2>2. /\ stop' \in Decision /\ term \in Decision
        /\ stop.reason # "none" => stop' = stop
        /\ stop.reason = "none" => stop'.reason = "elapsed_admission_limit" /\ stop'.offset = now
    <3>1. stop \in Decision /\ term \in Decision /\ "elapsed_admission_limit" \in Reasons
      BY DEF Types, Reasons
    <3> QED BY Zenon, <2>1, <3>1, FirstDecision
  <2>3. stop.reason = "none" => term.reason = "none"
    BY DEF Decisions
  <2>a. Decided(stop) /\ Decided(term) /\ now \in Nat /\ now' = now
    BY DEF Decisions, Types
  <2>b. Decided(stop)'
    <3>1. CASE stop.reason = "none"
      BY <2>2, <2>a, <3>1 DEF Decided, NoTime
    <3>2. CASE stop.reason # "none"
      BY <2>2, <2>a, <3>2 DEF Decided
    <3> QED BY <3>1, <3>2
  <2>4. Decided(stop)' /\ Decided(term)'
    BY <2>1, <2>a, <2>b DEF Decided
  <2>5. Limit # NoTime /\ now >= Limit
    BY <1>2 DEF LimitPassed
  <2>6. Decisions'
    BY <2>1, <2>2, <2>3, <2>4, <2>5 DEF Decisions, Hard
  <2> QED BY <2>1, <2>2, <2>3, <2>6 DEF Frozen
<1>3. CASE ~DeadlinePassed /\ ~LimitPassed
  <2>1. term' = term /\ stop' = stop
    BY <1>3 DEF CheckLimits
  <2> QED BY <2>1 DEF Decisions, Decided, Frozen, Types
<1> QED BY <1>1, <1>2, <1>3

-----------------------------------------------------------------------------
(* Steps that leave the history alone                                      *)

Calm ==
    /\ UNCHANGED <<stopOnError, pending, active, admission, records>>
    /\ at # "ended" /\ at' # "ended" /\ now <= now'
    /\ \A t \in Trials : task[t] \in {"none"} \cup Outcomes => task'[t] = task[t]
    /\ \A t \in Trials : task[t] \in Live => task'[t] \in Live \cup Outcomes
    /\ \A t \in Trials : sent'[t] = sent[t] \/ (task[t] \in Live /\ sent'[t] <= 1)
    /\ Frozen
    /\ stop' # stop => stop'.reason \notin {"stop_on_error", "cleanup_failed"} /\ stop'.offset = now
    /\ term' # term => term'.reason # "cleanup_failed"

LEMMA CalmKeeps ==
    ASSUME PlanInv, Types', Decisions', Calm
    PROVE  Owned' /\ Entries' /\ Causes' /\ Order' /\ Reservations'
<1>0. /\ Types /\ Owned /\ Entries /\ Causes /\ Order /\ Reservations /\ Decisions
      /\ Admitted' = Admitted /\ Recorded' = Recorded
      /\ Admitted \subseteq Trials /\ Recorded \subseteq Admitted
  BY DEF PlanInv, Calm, Admitted, Recorded
<1>a. now \in Int /\ now' \in Int /\ now <= now'
  BY DEF PlanInv, Types, Calm
<1>b. \A t \in Trials : admission[t].offset \in Int /\ records[t].finished \in Int
  BY <1>0 DEF Types
<1>1. Owned'
  <2>1. \A t \in pending : task'[t] = "none" /\ sent'[t] = 0
    BY <1>0 DEF Owned, Calm, Live, Types
  <2>2. \A t \in active : task'[t] \in Live \cup Outcomes
    BY <1>0 DEF Owned, Calm, Types
  <2>3. \A t \in Recorded : task'[t] \in Outcomes
    BY <1>0 DEF Owned, Calm
  <2>4. \A t \in Trials : sent'[t] <= 1
    BY <1>0 DEF Owned, Calm
  <2> QED BY <1>0, <2>1, <2>2, <2>3, <2>4 DEF Owned, Calm
<1>2. ASSUME NEW t \in Recorded PROVE Entry(t)'
  <2>1. Entry(t) /\ task'[t] = task[t] /\ t \in Trials
    BY <1>0 DEF Entries, Owned, Calm
  <2>2. records[t].status \in Interrupted => ValidInterruption(t)'
    BY <2>1 DEF Entry, ValidInterruption, Calm, Frozen
  <2>3. records[t].finished <= now'
    BY <1>a, <1>b, <2>1 DEF Entry
  <2>4. stopOnError /\ records[t].status # "completed" => stop'.reason # "none"
    BY <2>1 DEF Entry, Calm, Frozen
  <2> QED BY <1>0, <2>1, <2>2, <2>3, <2>4 DEF Entry, Calm
<1>3. Causes'
  <2>1. stop'.reason \in {"stop_on_error", "cleanup_failed"} => stop' = stop
    BY DEF Calm
  <2>2. term'.reason = "cleanup_failed" => term' = term
    BY DEF Calm
  <2>3. \A t \in Admitted : admission[t].offset <= now
    BY <1>0 DEF Order
  <2>4. stop'.reason # "none" => \A t \in Admitted : admission[t].offset <= stop'.offset
    BY <1>0, <2>3 DEF Causes, Calm
  <2> QED BY <1>0, <2>1, <2>2, <2>4 DEF Causes, Calm
<1>4. Order'
  <2>1. \A t \in Admitted, u \in Trials : Follows(t, u) => Follows(t, u)'
    BY <1>0 DEF Follows, Calm
  <2>2. \A t \in Admitted : admission[t].offset <= now'
    BY <1>0, <1>a, <1>b DEF Order
  <2> QED BY <1>0, <2>1, <2>2 DEF Order, Calm
<1>5. Reservations'
  <2>1. \A time \in 0..MaxTime : OpenSoFar(time)' = OpenSoFar(time)
    BY <1>0 DEF OpenSoFar, Calm
  <2>2. \A time \in 0..MaxTime : WithinLimits(OpenSoFar(time)')
    BY <1>0, <2>1 DEF Reservations
  <2> QED BY <2>2 DEF Reservations, WithinLimits
<1> QED BY <1>0, <1>1, <1>2, <1>3, <1>4, <1>5 DEF Entries

\* Such a step keeps the invariant when it keeps the parts that are about the
\* place of run().
LEMMA CalmStep ==
    ASSUME PlanInv, Calm, Types', Decisions', Scanning', Leaving'
    PROVE  PlanInv'
  BY CalmKeeps DEF PlanInv

\* What no decision and no clock tick touches.
LEMMA SameDecisions ==
    ASSUME Types, Decisions, UNCHANGED <<stop, term>>, now' \in Int, now <= now'
    PROVE  Decisions' /\ Frozen
<1>1. now \in Int /\ stop.offset \in Int /\ term.offset \in Int
  BY DEF Types, Decision
<1>2. Decided(stop)' /\ Decided(term)'
  BY <1>1 DEF Decisions, Decided
<1> QED BY <1>2 DEF Decisions, Frozen

LEMMA NothingDecided ==
    ASSUME Types, Decisions, UNCHANGED <<now, stop, term>>
    PROVE  Decisions' /\ Frozen
<1>1. now' \in Int /\ now <= now'
  BY DEF Types
<1> QED BY <1>1, SameDecisions

\* cancel_active asks every child at work to stop, once.
LEMMA CancelActiveKeeps ==
    ASSUME Types, Owned, CancelActive
    PROVE  /\ task' \in [Trials -> {"none"} \cup Live \cup Outcomes] /\ sent' \in [Trials -> Nat]
           /\ \A t \in Trials : task[t] \in {"none"} \cup Outcomes => task'[t] = task[t]
           /\ \A t \in Trials : task[t] \in Live => task'[t] \in Live \cup Outcomes
           /\ \A t \in Trials : sent'[t] = sent[t] \/ (task[t] \in Live /\ sent'[t] <= 1)
<1>1. /\ task' = [t \in Trials |-> IF t \notin ToCancel THEN task[t]
                                 ELSE IF task[t] \in {"created", "doomed"} THEN "doomed"
                                 ELSE "stopping"]
      /\ sent' = [t \in Trials |-> IF t \in ToCancel THEN sent[t] + 1 ELSE sent[t]]
  BY DEF CancelActive
<1>2. /\ \A t \in Trials : task[t] \in {"none"} \cup Live \cup Outcomes /\ sent[t] \in Nat
      /\ \A t \in ToCancel : task[t] \in Live /\ sent[t] = 0
      /\ "doomed" \in Live /\ "stopping" \in Live
  BY DEF Types, ToCancel, Live
<1>3. \A t \in Trials : task'[t] \in {"none"} \cup Live \cup Outcomes /\ sent'[t] \in Nat
  BY <1>1, <1>2
<1>4. \A t \in Trials : t \notin ToCancel => task'[t] = task[t] /\ sent'[t] = sent[t]
  BY <1>1
<1>5. \A t \in Trials : t \in ToCancel => task'[t] \in Live /\ sent'[t] = 1
  BY <1>1, <1>2
<1>6. \A t \in ToCancel : task[t] \notin {"none"} \cup Outcomes
  BY <1>2 DEF Live, Outcomes, Native, Cleanups
<1> QED BY <1>1, <1>2, <1>3, <1>4, <1>5, <1>6

\* run() between its awaits, as long as it only decides.
LEMMA DecidingSteps ==
    ASSUME PlanInv, Resume \/ Check \/ WaitReturns
    PROVE  PlanInv'
<1>0. Types /\ Decisions /\ Owned
  BY DEF PlanInv
<1>1. CASE Resume
  <2>1. /\ at = "sleep" /\ at' = "check" /\ UNCHANGED <<stopOnError, now, task, sent, parent, result>>
        /\ cancel' = [cancel EXCEPT !.due = FALSE]
        /\ Terminate("cancelled") \/ UNCHANGED <<stop, term>>
    BY <1>1 DEF Resume
  <2>2. /\ Decisions' /\ Frozen /\ stop' \in Decision /\ term' \in Decision
        /\ stop' # stop => stop'.reason = "cancelled" /\ stop'.offset = now
        /\ term' # term => term'.reason = "cancelled"
    <3>1. CASE Terminate("cancelled")
      BY <1>0, <2>1, <3>1, TerminateDecides DEF Hard
    <3>2. CASE UNCHANGED <<stop, term>>
      <4>1. Decisions' /\ Frozen
        BY <1>0, <2>1, <3>2, NothingDecided
      <4> QED BY <1>0, <3>2, <4>1 DEF Types
    <3> QED BY <2>1, <3>1, <3>2
  <2>3. Types'
    BY <1>0, <2>1, <2>2 DEF Types, parent, Places
  <2>4. Calm
    BY <1>0, <2>1, <2>2 DEF Calm, parent, Types
  <2>5. Scanning' /\ Leaving'
    BY <2>1 DEF Scanning, Leaving
  <2> QED BY <2>2, <2>3, <2>4, <2>5, CalmStep
<1>2. CASE Check
  <2>1. /\ at = "check" /\ at' = "consume" /\ CheckLimits
        /\ UNCHANGED <<stopOnError, now, task, sent, parent, cancel, result>>
    BY <1>2 DEF Check
  <2>2. /\ Decisions' /\ Frozen /\ stop' \in Decision /\ term' \in Decision
        /\ stop' # stop => stop'.reason \in {"timeout", "elapsed_admission_limit"} /\ stop'.offset = now
        /\ term' # term => term'.reason = "timeout"
    BY <1>0, <2>1, CheckLimitsDecides
  <2>3. Types'
    BY <1>0, <2>1, <2>2 DEF Types, parent, Places
  <2>4. Calm
    BY <1>0, <2>1, <2>2 DEF Calm, parent, Types
  <2>5. Scanning' /\ Leaving'
    BY <2>1 DEF Scanning, Leaving
  <2> QED BY <2>2, <2>3, <2>4, <2>5, CalmStep
<1>3. CASE WaitReturns
  <2>1. /\ at = "wait" /\ at' = "sleep"
        /\ UNCHANGED <<stopOnError, now, task, sent, parent, stop, term, cancel, result>>
    BY <1>3 DEF WaitReturns
  <2>2. Decisions' /\ Frozen
    BY <1>0, <2>1, NothingDecided
  <2>3. Types'
    BY <1>0, <2>1 DEF Types, parent, Places
  <2>4. Calm
    BY <1>0, <2>1, <2>2 DEF Calm, parent, Types
  <2>5. Scanning' /\ Leaving'
    BY <2>1 DEF Scanning, Leaving
  <2> QED BY <2>2, <2>3, <2>4, <2>5, CalmStep
<1> QED BY <1>1, <1>2, <1>3

LEMMA WaitCancelledStep ==
    ASSUME PlanInv, WaitCancelled
    PROVE  PlanInv'
<1>0. Types /\ Decisions /\ Owned
  BY DEF PlanInv
<1>1. /\ at = "wait" /\ at' = "sleep" /\ UNCHANGED <<stopOnError, now, parent, result>>
      /\ cancel' = [cancel EXCEPT !.due = FALSE]
      /\ Terminate("cancelled") /\ CancelActive
  BY DEF WaitCancelled
<1>2. /\ Decisions' /\ Frozen /\ stop' \in Decision /\ term' \in Decision
      /\ stop' # stop => stop'.reason = "cancelled" /\ stop'.offset = now
      /\ term' # term => term'.reason = "cancelled"
  BY <1>0, <1>1, TerminateDecides DEF Hard
<1>3. /\ task' \in [Trials -> {"none"} \cup Live \cup Outcomes] /\ sent' \in [Trials -> Nat]
      /\ \A t \in Trials : task[t] \in {"none"} \cup Outcomes => task'[t] = task[t]
      /\ \A t \in Trials : task[t] \in Live => task'[t] \in Live \cup Outcomes
      /\ \A t \in Trials : sent'[t] = sent[t] \/ (task[t] \in Live /\ sent'[t] <= 1)
  BY <1>0, <1>1, CancelActiveKeeps
<1>4. Types'
  BY <1>0, <1>1, <1>2, <1>3 DEF Types, parent, Places
<1>5. Calm
  BY <1>0, <1>1, <1>2, <1>3 DEF Calm, parent, Types
<1>6. Scanning' /\ Leaving'
  BY <1>1 DEF Scanning, Leaving
<1> QED BY <1>2, <1>4, <1>5, <1>6, CalmStep

\* What the trials that wait depend on.
LEMMA SameObstacles ==
    ASSUME UNCHANGED <<pending, active, records>>
    PROVE  /\ Full' = Full
           /\ \A t \in pending : Obstructed(t, active)' <=> Obstructed(t, active)
           /\ ReservedBy(active)' = ReservedBy(active) /\ RateOf(active)' = RateOf(active)
  BY DEF Full, Obstructed, Waits, ReservedBy, RateOf

LEMMA SettleStep ==
    ASSUME PlanInv, Settle
    PROVE  PlanInv'
<1>0. Types /\ Decisions /\ Owned /\ Scanning
  BY DEF PlanInv
<1>1. /\ at = "cancel"
      /\ at' = IF active # {} THEN "wait"
                ELSE IF stop.reason = "none" /\ pending # {} THEN "sleep" ELSE "finish"
      /\ timer' = WaitTimer
      /\ UNCHANGED <<stopOnError, now, pending, active, admission, records, scan, stop, term,
                     cancel, result>>
      /\ CancelActive \/ UNCHANGED <<task, sent>>
  BY DEF Settle
<1>2. Decisions' /\ Frozen
  BY <1>0, <1>1, NothingDecided
<1>3. /\ task' \in [Trials -> {"none"} \cup Live \cup Outcomes] /\ sent' \in [Trials -> Nat]
      /\ \A t \in Trials : task[t] \in {"none"} \cup Outcomes => task'[t] = task[t]
      /\ \A t \in Trials : task[t] \in Live => task'[t] \in Live \cup Outcomes
      /\ \A t \in Trials : sent'[t] = sent[t] \/ (task[t] \in Live /\ sent'[t] <= 1)
  <2>1. CASE CancelActive
    BY <1>0, <2>1, CancelActiveKeeps
  <2>2. CASE UNCHANGED <<task, sent>>
    BY <1>0, <2>2 DEF Types
  <2> QED BY <1>1, <2>1, <2>2
<1>4. Types'
  BY <1>0, <1>1, <1>3 DEF Types, Places
<1>5. Calm
  BY <1>0, <1>1, <1>2, <1>3 DEF Calm, Types
<1>6. Scanning'
  <2>1. stop.reason = "none" /\ ~cancel.requested => \A t \in pending : Full \/ Obstructed(t, active)
    BY <1>0, <1>1 DEF Scanning
  <2> QED BY <1>1, <2>1, SameObstacles DEF Scanning
<1>7. Leaving'
  <2>1. WaitTimer' = WaitTimer
    BY <1>1 DEF WaitTimer
  <2> QED BY <1>1, <2>1 DEF Leaving
<1> QED BY <1>2, <1>4, <1>5, <1>6, <1>7, CalmStep

\* Children, the parent's owner and the clock run beside run().
LEMMA ChildSteps ==
    ASSUME PlanInv, NEW t \in Trials,
           ChildStarts(t) \/ ChildEnds(t) \/ ChildInterrupted(t) \/ ChildStops(t)
    PROVE  PlanInv'
<1>0. Types /\ Decisions /\ Owned /\ Scanning /\ Leaving
  BY DEF PlanInv
<1>1. PICK state \in Live \cup Outcomes : Becomes(t, state)
  BY DEF ChildStarts, ChildEnds, ChildInterrupted, ChildStops, Live, Outcomes, Native, Cleanups
<1>2. task[t] \in Live /\ at \in {"sleep", "wait"}
  BY DEF ChildStarts, ChildEnds, ChildInterrupted, ChildStops, Live, AtAwait
<1>3. /\ task' = [task EXCEPT ![t] = state]
      /\ UNCHANGED <<stopOnError, now, at, sent, parent, stop, term, cancel, result>>
  BY <1>1 DEF Becomes
<1>4. Decisions' /\ Frozen
  BY <1>0, <1>3, NothingDecided
<1>5. Types'
  BY <1>0, <1>1, <1>3 DEF Types, parent
<1>6. Calm
  <2>1. task[t] \notin {"none"} \cup Outcomes
    BY <1>2 DEF Live, Outcomes, Native, Cleanups
  <2>2. \A u \in Trials : IF u = t THEN task'[u] = state ELSE task'[u] = task[u]
    BY <1>0, <1>3 DEF Types
  <2>3. /\ UNCHANGED <<stopOnError, pending, active, admission, records>>
        /\ at # "ended" /\ at' # "ended" /\ now <= now' /\ stop' = stop /\ term' = term
    BY <1>0, <1>2, <1>3 DEF parent, Types
  <2>4. \A u \in Trials : task[u] \in {"none"} \cup Outcomes => task'[u] = task[u]
    BY <2>1, <2>2
  <2>5. \A u \in Trials : task[u] \in Live => task'[u] \in Live \cup Outcomes
    BY <1>1, <2>2
  <2>6. \A u \in Trials : sent'[u] = sent[u]
    BY <1>3
  <2> QED BY <1>4, <2>3, <2>4, <2>5, <2>6 DEF Calm
<1>7. Scanning'
  BY <1>0, <1>2, <1>3, SameObstacles DEF Scanning, parent
<1>8. Leaving'
  <2>1. WaitTimer' = WaitTimer
    BY <1>3 DEF WaitTimer
  <2> QED BY <1>0, <1>2, <1>3, <2>1 DEF Leaving, parent
<1> QED BY <1>4, <1>5, <1>6, <1>7, <1>8, CalmStep

LEMMA OutsideSteps ==
    ASSUME PlanInv, RequestCancel \/ Tick
    PROVE  PlanInv'
<1>0. Types /\ Decisions /\ Owned /\ Scanning /\ Leaving
  BY DEF PlanInv
<1>1. /\ UNCHANGED <<stopOnError, at, task, sent, parent, stop, term, result>>
      /\ now' \in 0..MaxTime /\ now <= now' /\ at # "ended"
      /\ \/ cancel' = cancel
         \/ cancel' = [requested |-> TRUE, due |-> TRUE] /\ at \in {"sleep", "wait"}
  <2>1. now \in 0..MaxTime
    BY <1>0 DEF Types
  <2>2. CASE RequestCancel
    BY <2>1, <2>2 DEF RequestCancel, AtAwait
  <2>3. CASE Tick
    <3>1. /\ now' = now + 1 /\ now < MaxTime /\ at # "ended"
          /\ UNCHANGED <<stopOnError, at, task, sent, parent, stop, term, cancel, result>>
      BY <2>3 DEF Tick
    <3>2. now' \in 0..MaxTime /\ now <= now'
      BY <2>1, <3>1
    <3> QED BY <3>1, <3>2
  <2> QED BY <2>2, <2>3
<1>2. Decisions' /\ Frozen
  BY <1>0, <1>1, SameDecisions
<1>3. Types'
  <2>1. cancel' \in [requested : BOOLEAN, due : BOOLEAN]
    <3>1. cancel \in [requested : BOOLEAN, due : BOOLEAN]
      BY <1>0 DEF Types
    <3>2. [requested |-> TRUE, due |-> TRUE] \in [requested : BOOLEAN, due : BOOLEAN]
      OBVIOUS
    <3> QED BY <1>1, <3>1, <3>2
  <2> QED BY <1>0, <1>1, <2>1 DEF Types, parent
<1>4. Calm
  BY <1>0, <1>1, <1>2 DEF Calm, parent, Types
<1>5. Scanning'
  <2>1. CASE cancel' = cancel
    <3>1. Scanned(active)' <=> Scanned(active)
      BY <1>1, <2>1, SameObstacles DEF Scanned, parent
    <3>2. Scanned(active \ {scan.index})' <=> Scanned(active \ {scan.index})
      BY <1>1, <2>1 DEF Scanned, parent, Obstructed, Waits, ReservedBy, RateOf
    <3> QED BY <1>0, <1>1, <2>1, <3>1, <3>2, SameObstacles DEF Scanning, parent
  <2>2. CASE cancel' # cancel
    BY <1>1, <2>2 DEF Scanning
  <2> QED BY <2>1, <2>2
<1>6. Leaving'
  <2>1. WaitTimer' = WaitTimer
    BY <1>1 DEF WaitTimer
  <2> QED BY <1>0, <1>1, <2>1 DEF Leaving, parent
<1> QED BY <1>2, <1>3, <1>4, <1>5, <1>6, CalmStep

\* The whole batch has been consumed; the scan starts with the sums of the
\* active trials.
LEMMA StartScanStep ==
    ASSUME PlanInv, StartScan
    PROVE  PlanInv'
<1>0. Types /\ Decisions /\ Owned
  BY DEF PlanInv
<1>1. /\ at = "consume" /\ DoneTasks = {}
      /\ at' = IF stop.reason = "none" THEN "admit" ELSE "cancel"
      /\ scan' = [index |-> 1, reserved |-> ReservedBy(active), target |-> RateOf(active)]
      /\ UNCHANGED <<stopOnError, now, task, sent, pending, active, admission, records, timer,
                     stop, term, cancel, result>>
  BY DEF StartScan, BatchConsumed
<1>2. Decisions' /\ Frozen
  BY <1>0, <1>1, NothingDecided
<1>3. Types'
  <2>1. active \in SUBSET Trials /\ at' \in Places
    BY <1>0, <1>1 DEF Places, Types
  <2>a. scan' \in ScanRecord
    BY <1>1, <2>1, SumsTyped
  <2>2. UNCHANGED <<stopOnError, now, task, sent, pending, active, admission, records, stop, term,
                    cancel>>
    BY <1>1
  <2> QED BY <1>0, <2>1, <2>a, <2>2 DEF Types
<1>4. Calm
  BY <1>0, <1>1, <1>2 DEF Calm, Types
<1>5. Scanning'
  <2>1. \A t \in active : task[t] \in Live
    BY <1>0, <1>1 DEF DoneTasks, Owned
  <2>2. \A t \in pending : ~(t < scan'.index)
    BY <1>0, <1>1 DEF Types
  <2>3. Scanned(active)'
    BY <1>1, <2>1, <2>2 DEF Scanned
  <2> QED BY <1>1, <2>3, SameObstacles DEF Scanning
<1>6. Leaving'
  BY <1>1 DEF Leaving
<1> QED BY <1>2, <1>3, <1>4, <1>5, <1>6, CalmStep

\* The next pending trial is the least that the scan has not passed.
LEMMA NextIsLeast ==
    ASSUME Types, NextPending # {}
    PROVE  /\ Min(NextPending) \in pending /\ Min(NextPending) >= scan.index
           /\ Min(NextPending) \in Trials
           /\ \A u \in pending : u < Min(NextPending) => u < scan.index
<1>1. NextPending \in SUBSET Trials /\ NextPending \in SUBSET Int /\ pending \in SUBSET Trials
  <2>1. pending \in SUBSET Trials /\ NextPending \subseteq pending
    BY DEF NextPending, Types
  <2>2. Trials \subseteq Int
    OBVIOUS
  <2> QED BY <2>1, <2>2
<1>a. scan.index \in Int
  BY DEF Types, ScanRecord
<1>2. IsFiniteSet(NextPending)
  BY <1>1, TrialsFinite
<1>3. Min(NextPending) \in NextPending /\ \A u \in NextPending : Min(NextPending) <= u
  BY <1>1, <1>2, MinIsLeast
<1>4. ASSUME NEW u \in pending, u < Min(NextPending) PROVE u < scan.index
  <2>1. u \in Int /\ Min(NextPending) \in Int /\ scan.index \in Int
    <3>1. u \in Trials
      BY <1>1
    <3>2. Min(NextPending) \in Int
      BY <1>1, <1>3
    <3> QED BY <1>a, <3>1, <3>2
  <2>2. u \notin NextPending
    BY <1>3, <1>4, <2>1
  <2> QED BY <2>1, <2>2 DEF NextPending
<1> QED BY <1>1, <1>3, <1>4 DEF NextPending

Halts ==
    /\ at' = "cancel"
    /\ UNCHANGED <<task, pending, active, admission, records, scan, cancel>>

Skips(t) ==
    /\ Blocked(t) /\ scan' = [scan EXCEPT !.index = t + 1]
    /\ UNCHANGED <<at, task, pending, active, admission, records, cancel>>

\* A turn of the scan ends it, skips the next pending trial or admits it.
LEMMA ScanTurns ==
    ASSUME Scan
    PROVE  /\ at = "admit" /\ UNCHANGED <<stopOnError, now, sent, timer, result>>
           /\ \/ /\ NextPending = {} \/ cancel.requested
                 /\ Halts /\ UNCHANGED <<stop, term>>
              \/ /\ CheckLimits /\ Halts /\ (stop'.reason # "none" \/ Full)
              \/ /\ NextPending # {} /\ ~cancel.requested
                 /\ CheckLimits /\ stop'.reason = "none" /\ ~Full
                 /\ \/ Skips(Min(NextPending))
                    \/ ~Blocked(Min(NextPending)) /\ Admit(Min(NextPending))
  BY Zenon DEF Scan, Halts, Skips

LEMMA ScanHalts ==
    ASSUME PlanInv, at = "admit", UNCHANGED <<stopOnError, now, sent, timer, result>>, Halts,
           \/ (NextPending = {} \/ cancel.requested) /\ UNCHANGED <<stop, term>>
           \/ CheckLimits /\ (stop'.reason # "none" \/ Full)
    PROVE  PlanInv'
<1>0. Types /\ Decisions /\ Owned /\ Scanning
  BY DEF PlanInv
<1>1. /\ Decisions' /\ Frozen /\ stop' \in Decision /\ term' \in Decision
      /\ stop' # stop => stop'.reason \in {"timeout", "elapsed_admission_limit"} /\ stop'.offset = now
      /\ term' # term => term'.reason = "timeout"
  <2>1. CASE CheckLimits
    BY <1>0, <2>1, CheckLimitsDecides
  <2>2. CASE UNCHANGED <<stop, term>>
    <3>1. Decisions' /\ Frozen
      BY <1>0, <2>2, NothingDecided
    <3> QED BY <1>0, <2>2, <3>1 DEF Types
  <2> QED BY <2>1, <2>2
<1>2. Types'
  BY <1>0, <1>1 DEF Types, Halts, Places
<1>3. Calm
  BY <1>0, <1>1 DEF Calm, Halts, Types
<1>4. Scanning'
  <2>1. Scanned(active)
    BY <1>0 DEF Scanning
  <2>2. ASSUME NextPending = {}, NEW t \in pending PROVE Obstructed(t, active)
    <3>1. t < scan.index
      <4>1. t \in Int /\ scan.index \in Int
        BY <1>0 DEF Types, ScanRecord
      <4> QED BY <2>2, <4>1 DEF NextPending
    <3> QED BY <2>1, <3>1 DEF Scanned
  <2>3. \/ stop'.reason # "none" \/ cancel.requested \/ Full
        \/ \A t \in pending : Obstructed(t, active)
    BY <2>2
  <2> QED BY <2>3, SameObstacles DEF Scanning, Halts
<1>5. Leaving'
  BY DEF Leaving, Halts
<1> QED BY <1>1, <1>2, <1>3, <1>4, <1>5, CalmStep

\* The sums of the scan are those of the active trials, so that a trial the
\* scan skips is obstructed by them.
LEMMA BlockedIsObstructed ==
    ASSUME PlanInv, at = "admit", NEW t \in Trials
    PROVE  Blocked(t) <=> Obstructed(t, active)
<1>1. scan.reserved = ReservedBy(active) /\ scan.target = RateOf(active)
  BY DEF PlanInv, Scanning
<1> QED BY <1>1 DEF Blocked, Obstructed

LEMMA ScanSkips ==
    ASSUME PlanInv, at = "admit", UNCHANGED <<stopOnError, now, sent, timer, result>>,
           NextPending # {}, CheckLimits, stop'.reason = "none", Skips(Min(NextPending))
    PROVE  PlanInv'
<1>0. Types /\ Decisions /\ Owned /\ Scanning
  BY DEF PlanInv
<1>1. PICK t \in pending : /\ t \in Trials /\ Skips(t) /\ \A u \in pending : u < t => u < scan.index
  BY <1>0, NextIsLeast
<1>2. /\ Blocked(t) /\ scan' = [scan EXCEPT !.index = t + 1]
      /\ UNCHANGED <<at, task, pending, active, admission, records, cancel>>
  BY <1>1 DEF Skips
<1>3. Decisions' /\ Frozen /\ stop' = stop /\ term' = term
  BY <1>0, CheckLimitsDecides
<1>a. scan \in ScanRecord /\ t \in Nat
  BY <1>0, <1>1 DEF Types
<1>4. scan'.reserved = scan.reserved /\ scan'.target = scan.target
  BY <1>a, <1>2 DEF ScanRecord
<1>5. scan'.index = t + 1 /\ scan' \in ScanRecord
  BY <1>a, <1>2 DEF ScanRecord
<1>6. Types'
  <2>1. UNCHANGED <<stopOnError, now, at, task, sent, pending, active, admission, records, stop,
                    term, cancel>>
    BY <1>2, <1>3
  <2> QED BY <1>0, <1>5, <2>1 DEF Types
<1>7. Calm
  BY <1>0, <1>2, <1>3 DEF Calm, Types
<1>8. Scanning'
  <2>1. scan.reserved = ReservedBy(active) /\ scan.target = RateOf(active) /\ Scanned(active)
    BY <1>0 DEF Scanning
  <2>2. ASSUME NEW u \in pending, u < t + 1 PROVE Obstructed(u, active)
    <3>1. u \in Int /\ t \in Int
      BY <1>0 DEF Types
    <3>2. CASE u = t
      BY <1>1, <1>2, <3>2, BlockedIsObstructed
    <3>3. CASE u < t
      BY <1>1, <2>1, <3>3 DEF Scanned
    <3> QED BY <2>2, <3>1, <3>2, <3>3
  <2>3. Scanned(active)'
    BY <1>2, <1>5, <2>1, <2>2, SameObstacles DEF Scanned
  <2> QED BY <1>2, <1>4, <2>1, <2>3, SameObstacles DEF Scanning
<1>9. Leaving'
  BY <1>2 DEF Leaving
<1> QED BY <1>3, <1>6, <1>7, <1>8, <1>9, CalmStep

-----------------------------------------------------------------------------
(* The outcome of a child becomes its record                               *)

\* What Calls and StatusOf make of an outcome, once the hard stop it calls for
\* has been recorded.
LEMMA StatusFacts ==
    ASSUME NEW outcome \in Outcomes, NEW reason \in Hard \cup {"none"},
           Calls(outcome) # "none" => reason # "none"
    PROVE  /\ StatusOf(outcome, reason) \in Statuses \ {"not_run"}
           /\ (outcome \in Cleanups) <=> (StatusOf(outcome, reason) = "cleanup_failed")
           /\ StatusOf(outcome, reason) \in Interrupted => reason # "none"
           /\ StatusOf(outcome, reason) = "timed_out" => reason = "timeout"
           /\ StatusOf(outcome, reason) = "cancelled" => reason # "timeout"
           /\ Calls(outcome) \in Hard \cup {"none"}
           /\ Calls(outcome) = "timeout" => Timeout # NoTime
           /\ Calls(outcome) = "cleanup_failed" => StatusOf(outcome, reason) = "cleanup_failed"
  BY DEF StatusOf, Calls, Outcomes, Native, Cleanups, Statuses, Interrupted, Hard

Entered(t) == StatusOf(task[t], term'.reason)

LEMMA ConsumeDecides ==
    ASSUME Types, Decisions, NEW t \in Trials, task[t] \in Outcomes, Consume(t), now' = now,
           stopOnError' = stopOnError
    PROVE  /\ Decisions' /\ Frozen /\ stop' \in Decision /\ term' \in Decision
           /\ Calls(task[t]) # "none" => term'.reason # "none"
           /\ term' # term => term'.reason = Calls(task[t])
           /\ stop' # stop =>
                  /\ stop'.offset = now
                  /\ \/ stop'.reason = Calls(task[t])
                     \/ stop'.reason = "stop_on_error" /\ stopOnError /\ Entered(t) # "completed"
           /\ stopOnError /\ Entered(t) # "completed" => stop'.reason # "none"
<1> DEFINE calls == Calls(task[t])
           early == IF calls = "none" THEN stop ELSE First(stop, calls)
<1>1. /\ term' = IF calls = "none" THEN term ELSE First(term, calls)
      /\ stop' = IF Entered(t) # "completed" /\ stopOnError
                 THEN First(early, "stop_on_error") ELSE early
  BY DEF Consume, Entered
<1>2. calls \in Hard \cup {"none"} /\ (calls = "timeout" => Timeout # NoTime)
  BY DEF Calls, Outcomes, Native, Cleanups, Hard
<1>3. /\ stop \in Decision /\ term \in Decision /\ "stop_on_error" \in Reasons
      /\ calls \in Reasons /\ stopOnError \in BOOLEAN
  BY <1>2 DEF Types, Reasons
<1> HIDE DEF calls
<1>4. /\ term' \in Decision
      /\ term.reason # "none" \/ calls = "none" => term' = term
      /\ term.reason = "none" /\ calls # "none" => term'.reason = calls /\ term'.offset = now
  BY <1>1, <1>3, FirstDecision
<1>5. /\ early \in Decision
      /\ stop.reason # "none" \/ calls = "none" => early = stop
      /\ stop.reason = "none" /\ calls # "none" =>
             early.reason = calls /\ early.offset = now /\ early = [reason |-> calls, offset |-> now]
  BY <1>3, FirstDecision DEF First
<1> HIDE DEF early
<1>6. /\ stop' \in Decision
      /\ early.reason # "none" => stop' = early
      /\ early.reason = "none" /\ ~(Entered(t) # "completed" /\ stopOnError) => stop' = early
      /\ early.reason = "none" /\ Entered(t) # "completed" /\ stopOnError =>
             stop'.reason = "stop_on_error" /\ stop'.offset = now
  BY <1>1, <1>3, <1>5, FirstDecision
<1>7. stop.reason = "none" => term.reason = "none"
  BY DEF Decisions
<1>8. Frozen
  BY <1>4, <1>5, <1>6 DEF Frozen
<1>9. Decided(stop)' /\ Decided(term)'
  <2>0. now \in Nat
    BY DEF Types
  <2>1. Decided(stop) /\ Decided(term)
    BY DEF Decisions
  <2>2. Decided(term)'
    BY <1>2, <1>4, <2>0, <2>1 DEF Decided, NoTime, Hard
  <2>3. Decided(stop)'
    BY <1>2, <1>5, <1>6, <2>0, <2>1 DEF Decided, NoTime, Hard
  <2> QED BY <2>2, <2>3
<1>10. term'.reason \in Hard \cup {"none"}
  BY <1>2, <1>4 DEF Decisions
<1>11. stop.reason = "none" /\ calls # "none" => stop' = term'
  BY <1>1, <1>2, <1>5, <1>6, <1>7 DEF First, Hard
<1>12. term'.reason # "none" => stop'.reason # "none" /\ term'.offset >= stop'.offset
  <2>1. CASE calls = "none" \/ term.reason # "none"
    BY <1>4, <1>8, <2>1 DEF Decisions, Frozen
  <2>2. CASE calls # "none" /\ stop.reason = "none"
    BY <1>3, <1>4, <1>11, <2>2 DEF Types, Decision
  <2>3. CASE calls # "none" /\ stop.reason # "none" /\ term.reason = "none"
    BY <1>4, <1>8, <2>3 DEF Decisions, Frozen, Decided
  <2> QED BY <2>1, <2>2, <2>3
<1>13. stop'.reason \in Hard => term' = stop'
  <2>1. CASE stop.reason # "none"
    BY <1>8, <2>1 DEF Decisions, Frozen, Hard
  <2>2. CASE stop.reason = "none" /\ calls # "none"
    BY <1>11, <2>2
  <2>3. CASE stop.reason = "none" /\ calls = "none"
    BY <1>5, <1>6, <2>3 DEF Hard
  <2> QED BY <2>1, <2>2, <2>3
<1>14. "timeout" \in {stop'.reason, term'.reason} => Timeout # NoTime
  BY <1>2, <1>4, <1>5, <1>6 DEF Decisions
<1>15. stop'.reason = "elapsed_admission_limit" => Limit # NoTime /\ stop'.offset >= Limit
  BY <1>2, <1>5, <1>6 DEF Decisions, Hard
<1>16. Decisions'
  BY <1>9, <1>10, <1>12, <1>13, <1>14, <1>15 DEF Decisions
<1>17. stop' # stop =>
           /\ stop'.offset = now
           /\ \/ stop'.reason = calls
              \/ stop'.reason = "stop_on_error" /\ stopOnError /\ Entered(t) # "completed"
  BY <1>3, <1>5, <1>6
<1>18. stopOnError /\ Entered(t) # "completed" => stop'.reason # "none"
  BY <1>3, <1>6
<1> QED BY <1>4, <1>6, <1>8, <1>16, <1>17, <1>18 DEF calls

\* Consuming the outcome of an active child keeps the history in order.
LEMMA ConsumeKeeps ==
    ASSUME PlanInv, at \notin {"finish", "ended"}, at' # "ended", NEW t \in active,
           task[t] \in Outcomes, Consume(t),
           UNCHANGED <<stopOnError, now, task, sent, pending, admission>>
    PROVE  /\ Owned' /\ Entries' /\ Decisions' /\ Causes' /\ Order' /\ Reservations'
           /\ stop' \in Decision /\ term' \in Decision
           /\ active' = active \ {t} /\ active' \in SUBSET Trials
           /\ records' \in [Trials -> [status : Statuses \cup {"none"}, reason : Reasons,
                                       released : Int, finished : Int]]
           /\ \A u \in Trials : u # t => records'[u] = records[u]
<1>0. /\ Types /\ Owned /\ Entries /\ Causes /\ Order /\ Reservations /\ Decisions
      /\ t \in Trials /\ t \in Admitted /\ active \subseteq Admitted
  BY DEF PlanInv, Owned, Types
<1>1. /\ Decisions' /\ Frozen /\ stop' \in Decision /\ term' \in Decision
      /\ Calls(task[t]) # "none" => term'.reason # "none"
      /\ term' # term => term'.reason = Calls(task[t])
      /\ stop' # stop =>
             /\ stop'.offset = now
             /\ \/ stop'.reason = Calls(task[t])
                \/ stop'.reason = "stop_on_error" /\ stopOnError /\ Entered(t) # "completed"
      /\ stopOnError /\ Entered(t) # "completed" => stop'.reason # "none"
  BY <1>0, ConsumeDecides
<1> DEFINE status == Entered(t)
           entry  == [status   |-> status,
                      reason   |-> IF status \in Interrupted THEN term'.reason ELSE "none",
                      finished |-> now,
                      released |-> IF status = "cleanup_failed" THEN NoTime ELSE now]
<1>2. records' = [records EXCEPT ![t] = entry] /\ active' = active \ {t}
  BY DEF Consume, Entered
<1>3. /\ status \in Statuses \ {"not_run"}
      /\ (task[t] \in Cleanups) <=> (status = "cleanup_failed")
      /\ status \in Interrupted => term'.reason # "none"
      /\ status = "timed_out" => term'.reason = "timeout"
      /\ status = "cancelled" => term'.reason # "timeout"
      /\ Calls(task[t]) = "cleanup_failed" => status = "cleanup_failed"
  <2>1. term'.reason \in Hard \cup {"none"}
    BY <1>1 DEF Decisions
  <2> QED BY <1>1, <2>1, StatusFacts DEF Entered
<1> HIDE DEF status
<1>a. records'[t] = entry /\ \A u \in Trials : u # t => records'[u] = records[u]
  <2> HIDE DEF entry
  <2> QED BY <1>0, <1>2 DEF Types
<1>b. /\ Admitted' = Admitted /\ Recorded' = Recorded \cup {t} /\ t \notin Recorded
      /\ Recorded \subseteq Trials /\ Admitted \subseteq Trials
  <2>1. pending' = pending /\ t \in active
    BY DEF Consume
  <2> HIDE DEF entry
  <2> QED BY <1>0, <1>2, <2>1 DEF Admitted, Recorded
<1>4. /\ records'[t] = entry /\ \A u \in Trials : u # t => records'[u] = records[u]
      /\ Admitted' = Admitted /\ Recorded' = Recorded \cup {t} /\ t \notin Recorded
      /\ Recorded \subseteq Trials /\ Admitted \subseteq Trials
  BY <1>a, <1>b
<1>5. /\ entry.status = status /\ entry.finished = now
      /\ entry.reason = IF status \in Interrupted THEN term'.reason ELSE "none"
      /\ entry.released = IF status = "cleanup_failed" THEN NoTime ELSE now
  OBVIOUS
<1>6. entry \in [status : Statuses \cup {"none"}, reason : Reasons, released : Int, finished : Int]
  <2>1. term'.reason \in Reasons /\ "none" \in Reasons /\ now \in Int /\ NoTime \in Int
    BY <1>0, <1>1 DEF Types, Decision, Reasons, NoTime
  <2> QED BY <1>3, <2>1
<1>7. records' \in [Trials -> [status : Statuses \cup {"none"}, reason : Reasons,
                              released : Int, finished : Int]]
  <2> HIDE DEF entry
  <2> QED BY <1>0, <1>2, <1>6 DEF Types
<1> HIDE DEF entry
<1>8. Owned'
  <2>1. \A u \in active' : u \in Trials /\ u # t /\ u \in active
    BY <1>0, <1>2 DEF Types
  <2>2. \A u \in pending : u \in Trials /\ u # t
    BY <1>0 DEF Types, Admitted
  <2>3. \A u \in Recorded' : task[u] \in Outcomes
    BY <1>0, <1>4 DEF Owned
  <2> QED BY <1>0, <1>4, <2>1, <2>2, <2>3 DEF Owned
<1>9. \A u \in Admitted : admission[u].offset <= now
  BY <1>0 DEF Order
<1>10. Entry(t)'
  <2>1. status \in Interrupted => ValidInterruption(t)'
    <3>1. term'.reason # "none" => term'.offset <= now
      BY <1>1 DEF Decisions, Decided
    <3> QED BY <1>0, <1>1, <1>3, <1>4, <1>5, <3>1 DEF ValidInterruption, Types, Decision
  <2>2. stopOnError /\ status # "completed" =>
            /\ stop'.reason # "none"
            /\ \A u \in Admitted : admission[u].offset <= now
    BY <1>1, <1>9 DEF status
  <2>3. now <= now
    BY <1>0 DEF Types
  <2> QED BY <1>0, <1>3, <1>4, <1>5, <1>9, <2>1, <2>2, <2>3 DEF Entry
<1>11. ASSUME NEW u \in Recorded PROVE Entry(u)'
  <2>1. Entry(u) /\ records'[u] = records[u]
    BY <1>0, <1>4, <1>11 DEF Entries
  <2>2. records[u].status \in Interrupted => ValidInterruption(u)'
    BY <1>1, <2>1 DEF Entry, ValidInterruption, Frozen
  <2>3. stopOnError /\ records[u].status # "completed" => stop'.reason # "none"
    BY <1>1, <2>1 DEF Entry, Frozen
  <2> QED BY <1>4, <2>1, <2>2, <2>3 DEF Entry
<1>12. Entries'
  BY <1>4, <1>10, <1>11 DEF Entries
<1>13. Causes'
  <2>1. stop'.reason = "stop_on_error" =>
            /\ stopOnError
            /\ \E u \in Recorded' : records'[u].status # "completed" /\ records'[u].finished <= stop'.offset
    <3>1. CASE stop' = stop
      BY <1>0, <1>4, <3>1 DEF Causes
    <3>2. CASE stop' # stop
      <4>1. stop'.reason = "stop_on_error" => stopOnError /\ status # "completed" /\ stop'.offset = now
        <5>1. Calls(task[t]) # "stop_on_error"
          BY DEF Calls
        <5> QED BY <1>1, <3>2, <5>1 DEF status
      <4>2. now <= now
        BY <1>0 DEF Types
      <4> QED BY <1>4, <1>5, <4>1, <4>2
    <3> QED BY <3>1, <3>2
  <2>2. "cleanup_failed" \in {stop'.reason, term'.reason} =>
            \E u \in Recorded' : records'[u].status = "cleanup_failed"
    <3>1. CASE Calls(task[t]) = "cleanup_failed"
      BY <1>3, <1>4, <1>5, <3>1
    <3>2. CASE Calls(task[t]) # "cleanup_failed"
      <4>1. "cleanup_failed" \in {stop'.reason, term'.reason} => "cleanup_failed" \in {stop.reason, term.reason}
        BY <1>1, <3>2
      <4> QED BY <1>0, <1>4, <4>1 DEF Causes
    <3> QED BY <3>1, <3>2
  <2>3. stop'.reason # "none" => \A u \in Admitted : admission[u].offset <= stop'.offset
    BY <1>0, <1>1, <1>9 DEF Causes
  <2> QED BY <1>4, <2>1, <2>2, <2>3 DEF Causes
<1>14. Order'
  <2>1. ASSUME NEW a \in Admitted, NEW u \in Trials, Follows(a, u) PROVE Follows(a, u)'
    BY <1>4, <2>1 DEF Follows
  <2> QED BY <1>0, <1>4, <2>1 DEF Order
<1>15. Reservations'
  <2> SUFFICES ASSUME NEW time \in 0..MaxTime PROVE WithinLimits(OpenSoFar(time)')
    BY DEF Reservations, WithinLimits
  <2>1. records[t].released = NoTime
    BY <1>0 DEF Owned, NoRecord
  <2>2. OpenSoFar(time)' \in SUBSET OpenSoFar(time)
    BY <1>4, <2>1 DEF OpenSoFar
  <2>3. OpenSoFar(time) \in SUBSET Trials /\ WithinLimits(OpenSoFar(time))
    BY <1>0, <1>4 DEF OpenSoFar, Reservations
  <2> QED BY <2>2, <2>3, LimitsOfFewer
<1>16. active' \in SUBSET Trials
  BY <1>0, <1>2 DEF Types
<1> QED BY <1>1, <1>2, <1>4, <1>7, <1>8, <1>12, <1>13, <1>14, <1>15, <1>16

LEMMA ConsumeDoneStep ==
    ASSUME PlanInv, ConsumeDone
    PROVE  PlanInv'
<1>0. Types /\ at = "consume" /\ at' = "consume"
  BY DEF PlanInv, ConsumeDone
<1>1. PICK t \in active : task[t] \in Outcomes /\ Consume(t)
  BY DEF ConsumeDone, DoneTasks
<1>2. UNCHANGED <<stopOnError, now, at, task, sent, pending, admission, scan, timer, cancel, result>>
  BY DEF ConsumeDone
<1>3. /\ Owned' /\ Entries' /\ Decisions' /\ Causes' /\ Order' /\ Reservations'
      /\ stop' \in Decision /\ term' \in Decision /\ active' \in SUBSET Trials
      /\ records' \in [Trials -> [status : Statuses \cup {"none"}, reason : Reasons,
                                  released : Int, finished : Int]]
  BY <1>0, <1>1, <1>2, ConsumeKeeps
<1>4. Types'
  BY <1>0, <1>2, <1>3 DEF Types
<1>5. Scanning' /\ Leaving'
  BY <1>0 DEF Scanning, Leaving
<1> QED BY <1>3, <1>4, <1>5 DEF PlanInv

\* An immediate outcome gives back what its trial reserved, and leaves those
\* that the scan has passed where they were.
LEMMA ConsumeInstantStep ==
    ASSUME PlanInv, ConsumeInstant
    PROVE  PlanInv'
<1>0. Types /\ Owned /\ Scanning /\ at = "instant" /\ at' = "admit"
  BY DEF PlanInv, ConsumeInstant
<1>1. PICK t \in active : t = scan.index /\ task[t] \in Outcomes /\ Scanned(active \ {t})
  BY <1>0 DEF Scanning
<1>2. /\ Consume(t) /\ scan' = Retaken(active \ {t})
      /\ UNCHANGED <<stopOnError, now, task, sent, pending, admission, timer, cancel, result>>
  BY <1>1 DEF ConsumeInstant
<1>3. /\ Owned' /\ Entries' /\ Decisions' /\ Causes' /\ Order' /\ Reservations'
      /\ stop' \in Decision /\ term' \in Decision
      /\ active' = active \ {t} /\ active' \in SUBSET Trials
      /\ records' \in [Trials -> [status : Statuses \cup {"none"}, reason : Reasons,
                                  released : Int, finished : Int]]
      /\ \A u \in Trials : u # t => records'[u] = records[u]
  BY <1>0, <1>1, <1>2, ConsumeKeeps
<1>a. t + 1 \in Nat \ {0} /\ t \in Trials
  BY <1>0 DEF Types
<1> DEFINE rest == active \ {t}
<1>b. rest = active' /\ rest \in SUBSET Trials
  BY <1>3
<1>4. scan' = [index |-> t + 1, reserved |-> ReservedBy(rest), target |-> RateOf(rest)]
  BY <1>1, <1>2 DEF Retaken
<1> HIDE DEF rest
<1>5. scan' \in ScanRecord /\ scan'.index = t + 1
  BY <1>a, <1>b, <1>4, SumsTyped
<1>6. Types'
  <2>1. at' \in Places
    BY <1>0 DEF Places
  <2> QED BY <1>0, <1>2, <1>3, <1>5, <2>1 DEF Types
<1>7. Scanned(active)'
  <2>1. ASSUME NEW u \in pending, u < t + 1 PROVE Obstructed(u, active)'
    <3>1. u \in Trials /\ t \in Trials /\ u # t
      BY <1>0, <1>a DEF Types, Owned, Admitted
    <3>2. u < t
      BY <2>1, <3>1
    <3>3. Obstructed(u, active \ {t})
      BY <1>1, <3>2 DEF Scanned
    <3>4. Waits(u)' <=> Waits(u)
      <4>1. \A w \in 1..(u - 1) : w \in Trials /\ w # t
        BY <3>1, <3>2
      <4>2. \A w \in 1..(u - 1) : records'[w] = records[w]
        BY <1>3, <4>1
      <4> QED BY <4>2 DEF Waits
    <3>5. /\ ReservedBy(active)' = ReservedBy(active \ {t})
          /\ RateOf(active)' = RateOf(active \ {t})
      BY <1>3 DEF ReservedBy, RateOf
    <3> QED BY <3>3, <3>4, <3>5 DEF Obstructed
  <2> QED BY <1>1, <1>2, <1>3, <1>5, <2>1 DEF Scanned
<1>8. Scanning'
  <2>1. scan'.reserved = ReservedBy(rest) /\ scan'.target = RateOf(rest)
    BY <1>4
  <2>2. ReservedBy(active)' = ReservedBy(rest) /\ RateOf(active)' = RateOf(rest)
    BY <1>b DEF ReservedBy, RateOf
  <2> QED BY <1>0, <1>7, <2>1, <2>2 DEF Scanning
<1>9. Leaving'
  BY <1>0 DEF Leaving
<1> QED BY <1>3, <1>6, <1>8, <1>9 DEF PlanInv

-----------------------------------------------------------------------------
(* Admission                                                               *)

\* The admission index counts the trials admitted so far.
LEMMA IndexCountsAdmitted ==
    ASSUME PlanInv, at # "ended"
    PROVE  /\ Cardinality(active) + 1 + Cardinality({u \in Trials : records[u].status # "none"})
                 = Cardinality(Admitted) + 1
           /\ Cardinality(Admitted) \in Nat
<1>0. Types /\ Owned /\ Entries
  BY DEF PlanInv
<1>1. \A u \in pending \cup active : records[u].status = "none"
  BY <1>0 DEF Owned, NoRecord
<1>2. \A u \in Recorded : records[u].status # "none"
  BY <1>0 DEF Entries, Entry, Statuses, Native, Interrupted
<1>3. {u \in Trials : records[u].status # "none"} = Recorded
  BY <1>0, <1>1, <1>2 DEF Recorded, Admitted, Types
<1>4. /\ active \cup Recorded = Admitted /\ active \cap Recorded = {}
      /\ active \in SUBSET Trials /\ Recorded \in SUBSET Trials /\ Admitted \in SUBSET Trials
  BY <1>0 DEF Recorded, Admitted, Owned, Types
<1>5. /\ IsFiniteSet(active) /\ IsFiniteSet(Recorded)
      /\ Cardinality(active) \in Nat /\ Cardinality(Recorded) \in Nat /\ Cardinality(Admitted) \in Nat
  BY <1>4, TrialsFinite
<1>6. Cardinality(active \cup Recorded)
          = Cardinality(active) + Cardinality(Recorded) - Cardinality(active \cap Recorded)
  BY <1>5, FS_Union
<1>7. Cardinality(active \cap Recorded) = 0
  BY <1>4, FS_EmptySet
<1>8. /\ Cardinality({u \in Trials : records[u].status # "none"}) = Cardinality(Recorded)
      /\ Cardinality(Admitted) = Cardinality(active \cup Recorded)
  BY Zenon, <1>3, <1>4
<1> QED BY <1>5, <1>6, <1>7, <1>8

\* An open admission: nothing has been decided and no cleanup is unconfirmed.
LEMMA OpenAdmission ==
    ASSUME PlanInv, stop.reason = "none"
    PROVE  /\ term.reason = "none"
           /\ \A u \in Recorded :
                  /\ records[u].status \notin Interrupted
                  /\ stopOnError => records[u].status = "completed"
                  /\ records[u].released = records[u].finished
                  /\ records[u].released # NoTime /\ records[u].released <= now
<1>1. term.reason = "none"
  BY DEF PlanInv, Decisions
<1>2. ASSUME NEW u \in Recorded
      PROVE  /\ records[u].status \notin Interrupted
             /\ stopOnError => records[u].status = "completed"
             /\ records[u].released = records[u].finished
             /\ records[u].released # NoTime /\ records[u].released <= now
  <2>1. Entry(u) /\ u \in Admitted /\ u \in Trials
    BY DEF PlanInv, Entries, Recorded, Admitted
  <2>2. records[u].status \notin Interrupted
    BY <1>1, <2>1 DEF Entry, ValidInterruption
  <2>3. records[u].released = records[u].finished
    BY <2>1, <2>2 DEF Entry, Interrupted
  <2>4. 0 <= admission[u].offset /\ admission[u].offset \in Int /\ records[u].finished \in Int
    BY <2>1 DEF PlanInv, Order, Types
  <2>5. 0 <= records[u].finished
    BY <2>1, <2>4 DEF Entry
  <2> QED BY <2>1, <2>2, <2>3, <2>4, <2>5 DEF Entry, NoTime
<1> QED BY <1>1, <1>2

\* What admit() assigns for the next trial t, when its child starts in the
\* state `first`.
Enters(t, first, instant) ==
    /\ task' = [task EXCEPT ![t] = first]
    /\ at' = IF instant THEN "instant" ELSE "admit"
    /\ scan' = IF instant THEN [scan EXCEPT !.index = t]
               ELSE [index    |-> t + 1,
                     reserved |-> scan.reserved \cup Keys[t],
                     target   |-> scan.target + Target[t]]
    /\ admission' = [admission EXCEPT ![t] = [index |-> Cardinality(Admitted) + 1, offset |-> now]]
    /\ pending' = pending \ {t} /\ active' = active \cup {t}
    /\ UNCHANGED records
    /\ cancel' \in [requested : BOOLEAN, due : BOOLEAN]
    /\ instant <=> first \in Outcomes /\ ~cancel'.requested

LEMMA AdmitEnters ==
    ASSUME PlanInv, at = "admit", NEW t \in Trials, Admit(t)
    PROVE  \E first \in Live \cup Outcomes, instant \in BOOLEAN : Enters(t, first, instant)
<1>1. PICK first \in FirstStates, asks \in {FALSE} \cup {Eager} :
          LET requested == cancel.requested \/ asks
              instant   == first \in Outcomes /\ ~requested
          IN  /\ task' = [task EXCEPT ![t] = first]
              /\ cancel' = [requested |-> requested, due |-> cancel.due \/ asks]
              /\ at' = IF instant THEN "instant" ELSE "admit"
              /\ scan' = IF instant THEN [scan EXCEPT !.index = t]
                         ELSE [index    |-> t + 1,
                               reserved |-> scan.reserved \cup Keys[t],
                               target   |-> scan.target + Target[t]]
  BY Zenon DEF Admit
<1>2. /\ admission' = [admission EXCEPT ![t] =
                          [index  |-> Cardinality(active) + 1
                                        + Cardinality({u \in Trials : records[u].status # "none"}),
                           offset |-> now]]
      /\ pending' = pending \ {t} /\ active' = active \cup {t} /\ UNCHANGED records
  BY Zenon DEF Admit
<1> DEFINE requested == cancel.requested \/ asks
           instant   == first \in Outcomes /\ ~requested
<1>3. requested \in BOOLEAN /\ (cancel.due \/ asks) \in BOOLEAN /\ instant \in BOOLEAN
  OBVIOUS
<1>4. cancel'.requested = requested
  BY <1>1
<1>5. cancel' \in [requested : BOOLEAN, due : BOOLEAN]
  BY <1>1, <1>3
<1>6. first \in Live \cup Outcomes
  BY DEF FirstStates, Live, Outcomes, Native, Cleanups
<1>7. admission' = [admission EXCEPT ![t] = [index |-> Cardinality(Admitted) + 1, offset |-> now]]
  BY Zenon, <1>2, IndexCountsAdmitted
<1>8. instant <=> first \in Outcomes /\ ~cancel'.requested
  BY <1>4
<1>9. /\ task' = [task EXCEPT ![t] = first]
      /\ at' = IF instant THEN "instant" ELSE "admit"
      /\ scan' = IF instant THEN [scan EXCEPT !.index = t]
                 ELSE [index    |-> t + 1,
                       reserved |-> scan.reserved \cup Keys[t],
                       target   |-> scan.target + Target[t]]
  BY Zenon, <1>1
<1> HIDE DEF instant, requested
<1>10. Enters(t, first, instant)
  BY Zenon, <1>2, <1>5, <1>7, <1>8, <1>9 DEF Enters
<1> QED BY <1>3, <1>6, <1>10

\* An admitted trial joins the history at its end.
LEMMA AdmitKeeps ==
    ASSUME PlanInv, at = "admit", stop.reason = "none", ~Full,
           UNCHANGED <<stopOnError, now, sent, stop, term>>,
           NEW t \in pending, NEW first \in Live \cup Outcomes, NEW instant \in BOOLEAN,
           Enters(t, first, instant), ~Blocked(t)
    PROVE  Owned' /\ Entries' /\ Causes' /\ Order' /\ Reservations'
<1>0. /\ Types /\ Owned /\ Entries /\ Order /\ Reservations /\ Scanning
      /\ t \in Trials /\ t \notin Admitted /\ t \notin active /\ t \notin Recorded
      /\ active \subseteq Admitted /\ Admitted \subseteq Trials /\ Recorded \subseteq Admitted
      /\ Admitted = active \cup Recorded
  BY DEF PlanInv, Owned, Types, Admitted, Recorded
<1>1. /\ task' = [task EXCEPT ![t] = first]
      /\ admission' = [admission EXCEPT ![t] = [index |-> Cardinality(Admitted) + 1, offset |-> now]]
      /\ pending' = pending \ {t} /\ active' = active \cup {t} /\ records' = records
      /\ at' \in {"instant", "admit"}
  BY DEF Enters
<1>2. term.reason = "none" /\ \A u \in Recorded :
                  /\ records[u].status \notin Interrupted
                  /\ stopOnError => records[u].status = "completed"
                  /\ records[u].released = records[u].finished
                  /\ records[u].released # NoTime /\ records[u].released <= now
  BY OpenAdmission
<1>3. Admitted' = Admitted \cup {t} /\ Recorded' = Recorded
  BY <1>0, <1>1 DEF Admitted, Recorded
<1>4. /\ task'[t] = first /\ \A u \in Trials : u # t => task'[u] = task[u]
      /\ admission'[t].index = Cardinality(Admitted) + 1 /\ admission'[t].offset = now
      /\ \A u \in Trials : u # t => admission'[u] = admission[u]
  BY <1>0, <1>1 DEF Types
<1>5. /\ now \in 0..MaxTime /\ Cardinality(Admitted) \in Nat
      /\ \A u \in Trials : admission[u].index \in Nat /\ admission[u].offset \in Int
  BY <1>0, TrialsFinite DEF Types
<1>6. Owned'
  <2>1. records[t] = NoRecord
    BY <1>0 DEF Owned
  <2>2. \A u \in pending' : u \in pending /\ u # t /\ u \in Trials
    BY <1>0, <1>1 DEF Types
  <2>3. \A u \in active' : task'[u] \in Live \cup Outcomes /\ records[u] = NoRecord
    BY <1>0, <1>1, <1>4, <2>1 DEF Owned
  <2>4. \A u \in Recorded : task'[u] \in Outcomes
    BY <1>0, <1>4 DEF Owned
  <2>5. \A u \in pending' :
           /\ task'[u] = "none" /\ sent[u] = 0 /\ admission'[u].index = 0 /\ records[u] = NoRecord
    BY <1>0, <1>4, <2>2 DEF Owned
  <2>6. active' \subseteq Admitted'
    BY <1>0, <1>1, <1>3
  <2>7. \A u \in Trials : sent[u] <= 1
    BY <1>0 DEF Owned
  <2> QED BY <1>1, <1>3, <2>3, <2>4, <2>5, <2>6, <2>7 DEF Owned
<1>7. Entries'
  <2> SUFFICES ASSUME NEW u \in Recorded PROVE Entry(u)'
    BY <1>3 DEF Entries
  <2>1. Entry(u) /\ u \in Trials /\ u # t
    BY <1>0 DEF Entries
  <2>2. task'[u] = task[u] /\ admission'[u] = admission[u]
    BY <1>4, <2>1
  <2>3. records[u].status \notin Interrupted /\ (stopOnError => records[u].status = "completed")
    BY <1>2
  <2> QED BY <1>1, <2>1, <2>2, <2>3 DEF Entry
<1>8. Causes'
  BY <1>2 DEF Causes
<1>9. Order'
  <2>1. /\ \A u \in Admitted : u # t /\ u \in Trials /\ admission'[u] = admission[u]
        /\ \A u \in Admitted : admission[u].offset <= now /\ 0 <= admission[u].offset
    BY <1>0, <1>4 DEF Order
  <2>2. {admission'[u].index : u \in Admitted'} = 1..Cardinality(Admitted')
    <3>1. Cardinality(Admitted') = Cardinality(Admitted) + 1
      <4>1. IsFiniteSet(Admitted)
        BY <1>0, TrialsFinite
      <4> QED BY <1>0, <1>3, <4>1, FS_AddElement
    <3>2. {admission[u].index : u \in Admitted} = 1..Cardinality(Admitted)
      BY <1>0 DEF Order
    <3>3. {admission'[u].index : u \in Admitted'}
              = {admission[u].index : u \in Admitted} \cup {Cardinality(Admitted) + 1}
      BY <1>3, <1>4, <2>1
    <3>4. 1..(Cardinality(Admitted) + 1) = (1..Cardinality(Admitted)) \cup {Cardinality(Admitted) + 1}
      BY <1>5
    <3> QED BY Zenon, <3>1, <3>2, <3>3, <3>4
  <2>3. \A u \in Admitted : admission[u].index <= Cardinality(Admitted)
    <3>1. \A u \in Admitted : admission[u].index \in 1..Cardinality(Admitted)
      BY <1>0 DEF Order
    <3> QED BY <1>5, <3>1
  <2>4. \A a \in Admitted' : 0 <= admission'[a].offset /\ admission'[a].offset <= now
    BY <1>3, <1>4, <1>5, <2>1
  <2>5. ASSUME NEW a \in Admitted', NEW b \in Admitted', admission'[a].index < admission'[b].index
        PROVE  admission'[a].offset <= admission'[b].offset
    <3>1. CASE b = t
      BY <1>4, <2>4, <3>1
    <3>2. CASE b # t /\ a = t
      <4>1. b \in Admitted /\ admission'[b].index <= Cardinality(Admitted) /\ admission'[b].index \in Nat
        BY <1>0, <1>3, <1>5, <2>1, <2>3, <3>2
      <4> QED BY <1>4, <1>5, <2>5, <3>2, <4>1
    <3>3. CASE b # t /\ a # t
      <4>1. a \in Admitted /\ b \in Admitted
        BY <1>3, <3>3
      <4> QED BY <1>0, <2>1, <2>5, <4>1 DEF Order
    <3> QED BY <3>1, <3>2, <3>3
  <2>6. ASSUME NEW a \in Admitted', NEW u \in Trials, u < a, Cell[u] = Cell[a]
        PROVE  Follows(a, u)'
    <3>1. CASE a # t
      <4>1. a \in Admitted /\ Follows(a, u) /\ u \in Admitted
        BY <1>0, <1>3, <2>6, <3>1 DEF Order, Follows
      <4> QED BY <1>1, <1>3, <2>1, <4>1 DEF Follows
    <3>2. CASE a = t
      <4>1. u \in 1..(t - 1)
        BY <1>0, <2>6, <3>2
      <4>2. records[u].status # "none"
        BY <2>6, <3>2, <4>1 DEF Blocked, Waits
      <4>3. u \in Recorded
        BY <1>0, <4>2 DEF Owned, NoRecord, Recorded, Admitted
      <4>4. u \in Admitted /\ admission'[u].index <= Cardinality(Admitted) /\ admission'[u].index \in Nat
        BY <1>0, <1>5, <2>1, <2>3, <4>3
      <4>5. admission'[u].index < admission'[a].index
        BY <1>4, <1>5, <3>2, <4>4
      <4>6. records[u].released # NoTime /\ records[u].released <= admission'[a].offset
        BY <1>2, <1>4, <3>2, <4>3
      <4> QED BY <1>1, <1>3, <4>3, <4>5, <4>6 DEF Follows
    <3> QED BY <3>1, <3>2
  <2> QED BY <2>2, <2>4, <2>5, <2>6 DEF Order
<1>10. Reservations'
  <2> SUFFICES ASSUME NEW time \in 0..MaxTime PROVE WithinLimits(OpenSoFar(time)')
    BY DEF Reservations, WithinLimits
  <2>1. CASE time < now
    <3>1. ~(now <= time)
      BY <1>5, <2>1
    <3>2. OpenSoFar(time)' = OpenSoFar(time)
      BY <1>0, <1>1, <1>3, <1>4, <3>1 DEF OpenSoFar
    <3> QED BY <1>0, <3>2 DEF Reservations
  <2>2. CASE now <= time
    <3>1. \A u \in Recorded : ~(time < records[u].released)
      BY <1>0, <1>2, <1>5, <2>2 DEF Types
    <3>2. OpenSoFar(time)' \in SUBSET (active \cup {t})
      BY <1>0, <1>1, <1>2, <1>3, <3>1 DEF OpenSoFar
    <3>3. active \in SUBSET OpenSoFar(now)
      BY <1>0 DEF OpenSoFar, Owned, NoRecord, Order
    <3>4. OpenSoFar(now) \in SUBSET Trials /\ WithinLimits(OpenSoFar(now))
      BY <1>0, <1>5 DEF OpenSoFar, Reservations
    <3>5. active \in SUBSET Trials /\ WithinLimits(active)
      BY <3>3, <3>4, LimitsOfFewer
    <3>6. ~Obstructed(t, active)
      BY <1>0, BlockedIsObstructed
    <3>7. WithinLimits(active \cup {t})
      BY <1>0, <3>5, <3>6, LimitsOfMore DEF Obstructed, Full
    <3>8. active \cup {t} \in SUBSET Trials
      BY <1>0, <3>5
    <3> QED BY <3>2, <3>7, <3>8, LimitsOfFewer
  <2> QED BY <1>5, <2>1, <2>2
<1> QED BY <1>6, <1>7, <1>8, <1>9, <1>10

LEMMA ScanAdmits ==
    ASSUME PlanInv, at = "admit", UNCHANGED <<stopOnError, now, sent, timer, result>>,
           NextPending # {}, ~cancel.requested, CheckLimits, stop'.reason = "none", ~Full,
           ~Blocked(Min(NextPending)), Admit(Min(NextPending))
    PROVE  PlanInv'
<1>0. Types /\ Decisions /\ Owned /\ Scanning
  BY DEF PlanInv
<1>1. PICK t \in pending : /\ t \in Trials /\ ~Blocked(t) /\ Admit(t)
                          /\ \A u \in pending : u < t => u < scan.index
  BY <1>0, NextIsLeast
<1>2. UNCHANGED <<stop, term>> /\ stop.reason = "none"
  BY <1>0, CheckLimitsDecides
<1>3. PICK first \in Live \cup Outcomes, instant \in BOOLEAN : Enters(t, first, instant)
  BY <1>1, AdmitEnters
<1>4. Owned' /\ Entries' /\ Causes' /\ Order' /\ Reservations'
  BY <1>1, <1>2, <1>3, AdmitKeeps
<1>5. Decisions'
  BY <1>0, <1>2, NothingDecided
<1>6. /\ task' = [task EXCEPT ![t] = first] /\ at' = IF instant THEN "instant" ELSE "admit"
      /\ admission' = [admission EXCEPT ![t] = [index |-> Cardinality(Admitted) + 1, offset |-> now]]
      /\ pending' = pending \ {t} /\ active' = active \cup {t} /\ records' = records
      /\ cancel' \in [requested : BOOLEAN, due : BOOLEAN]
      /\ instant <=> first \in Outcomes /\ ~cancel'.requested
  BY <1>3 DEF Enters
<1>7. scan' = IF instant THEN [scan EXCEPT !.index = t]
              ELSE [index    |-> t + 1,
                    reserved |-> scan.reserved \cup Keys[t],
                    target   |-> scan.target + Target[t]]
  BY <1>3 DEF Enters
<1>8. /\ scan.reserved = ReservedBy(active) /\ scan.target = RateOf(active) /\ Scanned(active)
      /\ t \notin active /\ t \in Nat \ {0} /\ active \cup {t} \in SUBSET Trials /\ scan \in ScanRecord
  BY <1>0, <1>1 DEF Scanning, Owned, Admitted, Types
<1> DEFINE more == active \cup {t}
<1>9. ReservedBy(more) = ReservedBy(active) \cup Keys[t] /\ RateOf(more) = RateOf(active) + Target[t]
  <2>1. ReservedBy(more) = ReservedBy(active) \cup Keys[t]
    BY DEF ReservedBy
  <2>2. RateOf(more) = RateOf(active) + Target[t]
    BY <1>1, <1>8, RateOfMore
  <2> QED BY <2>1, <2>2
<1>a. more \in SUBSET Trials /\ active' = more /\ active \subseteq more
  BY <1>6, <1>8
<1> HIDE DEF more
<1>10. CASE instant
  <2>1. scan'.index = t /\ scan' \in ScanRecord
    BY <1>7, <1>8, <1>10 DEF ScanRecord
  <2>2. Types'
    <3>1. at' \in Places
      BY <1>6 DEF Places
    <3>2. task' \in [Trials -> {"none"} \cup Live \cup Outcomes]
      BY <1>0, <1>6 DEF Types
    <3>3. admission' \in [Trials -> [index : Nat, offset : Int]]
      <4>1. Cardinality(Admitted) + 1 \in Nat /\ now \in Int
        <5>1. Admitted \in SUBSET Trials /\ now \in Int
          BY <1>0 DEF Admitted, Types
        <5> QED BY <5>1, TrialsFinite
      <4>2. [index |-> Cardinality(Admitted) + 1, offset |-> now] \in [index : Nat, offset : Int]
        BY <4>1
      <4> QED BY <1>0, <1>6, <4>2 DEF Types
    <3>4. pending' \in SUBSET Trials
      BY <1>0, <1>6 DEF Types
    <3> QED BY <1>0, <1>2, <1>6, <1>a, <2>1, <3>1, <3>2, <3>3, <3>4 DEF Types
  <2>3. \A u \in pending' : u < t => Obstructed(u, active)'
    <3> SUFFICES ASSUME NEW u \in pending', u < t PROVE Obstructed(u, active)'
      OBVIOUS
    <3>1. Obstructed(u, active) /\ u \in Trials
      BY <1>0, <1>1, <1>6, <1>8 DEF Scanned, Types
    <3>2. Obstructed(u, more)
      BY <1>a, <3>1, ObstructedByMore
    <3> QED BY <1>6, <1>a, <3>2 DEF Obstructed, Waits, ReservedBy, RateOf
  <2>4. \A u \in pending' : u < t => Obstructed(u, active \ {t})'
    <3> SUFFICES ASSUME NEW u \in pending', u < t PROVE Obstructed(u, active \ {t})'
      OBVIOUS
    <3>1. Obstructed(u, active)
      BY <1>1, <1>6, <1>8 DEF Scanned
    <3>2. active' \ {t} = active
      BY <1>6, <1>8
    <3> QED BY <1>6, <3>1, <3>2 DEF Obstructed, Waits, ReservedBy, RateOf
  <2>5. \A u \in active : task[u] \in Live /\ task'[u] = task[u]
    BY <1>0, <1>6, <1>8 DEF Scanned, Types
  <2>6. task'[t] = first /\ first \in Outcomes
    BY <1>0, <1>1, <1>6, <1>10 DEF Types
  <2>7. Scanned(active \ {scan.index})'
    BY <1>6, <1>8, <2>1, <2>4, <2>5 DEF Scanned
  <2>8. Scanning'
    BY <1>6, <1>10, <2>1, <2>6, <2>7 DEF Scanning
  <2>9. Leaving'
    BY <1>6, <1>10 DEF Leaving
  <2> QED BY <1>4, <1>5, <2>2, <2>8, <2>9 DEF PlanInv
<1>11. CASE ~instant
  <2>1. scan' = [index |-> t + 1, reserved |-> ReservedBy(more), target |-> RateOf(more)]
    BY <1>7, <1>8, <1>9, <1>11
  <2>2. scan' \in ScanRecord /\ scan'.index = t + 1
    BY <1>8, <1>a, <2>1, SumsTyped
  <2>3. scan'.reserved = ReservedBy(more) /\ scan'.target = RateOf(more)
    BY <2>1
  <2>4. Types'
    <3>1. at' \in Places
      BY <1>6 DEF Places
    <3>2. task' \in [Trials -> {"none"} \cup Live \cup Outcomes]
      BY <1>0, <1>6 DEF Types
    <3>3. admission' \in [Trials -> [index : Nat, offset : Int]]
      <4>1. Cardinality(Admitted) + 1 \in Nat /\ now \in Int
        <5>1. Admitted \in SUBSET Trials /\ now \in Int
          BY <1>0 DEF Admitted, Types
        <5> QED BY <5>1, TrialsFinite
      <4>2. [index |-> Cardinality(Admitted) + 1, offset |-> now] \in [index : Nat, offset : Int]
        BY <4>1
      <4> QED BY <1>0, <1>6, <4>2 DEF Types
    <3>4. pending' \in SUBSET Trials
      BY <1>0, <1>6 DEF Types
    <3> QED BY <1>0, <1>2, <1>6, <1>a, <2>2, <3>1, <3>2, <3>3, <3>4 DEF Types
  <2>5. \A u \in pending' : u < t + 1 => Obstructed(u, active)'
    <3> SUFFICES ASSUME NEW u \in pending', u < t + 1 PROVE Obstructed(u, active)'
      OBVIOUS
    <3>0. u \in pending /\ u # t /\ u \in Trials
      BY <1>0, <1>6 DEF Types
    <3>1. u < t
      BY <1>1, <3>0
    <3>2. Obstructed(u, active)
      BY <1>1, <1>8, <3>0, <3>1 DEF Scanned
    <3>3. Obstructed(u, more)
      BY <1>a, <3>0, <3>2, ObstructedByMore
    <3> QED BY <1>6, <1>a, <3>3 DEF Obstructed, Waits, ReservedBy, RateOf
  <2>6. ~cancel'.requested => \A u \in active' : task'[u] \in Live
    <3>1. ~cancel'.requested => first \in Live
      BY <1>6, <1>11
    <3>2. task'[t] = first /\ \A u \in active : task[u] \in Live /\ task'[u] = task[u]
      BY <1>0, <1>1, <1>6, <1>8 DEF Scanned, Types
    <3> QED BY <1>6, <3>1, <3>2
  <2>7. Scanned(active)'
    BY <1>6, <2>2, <2>5, <2>6 DEF Scanned
  <2>8. ReservedBy(active)' = ReservedBy(more) /\ RateOf(active)' = RateOf(more)
    BY <1>a DEF ReservedBy, RateOf
  <2>9. Scanning'
    BY <1>6, <1>11, <2>3, <2>7, <2>8 DEF Scanning
  <2>10. Leaving'
    BY <1>6, <1>11 DEF Leaving
  <2> QED BY <1>4, <1>5, <2>4, <2>9, <2>10 DEF PlanInv
<1> QED BY <1>10, <1>11

LEMMA ScanStep == ASSUME PlanInv, Scan PROVE PlanInv'
<1>1. /\ at = "admit" /\ UNCHANGED <<stopOnError, now, sent, timer, result>>
      /\ \/ /\ NextPending = {} \/ cancel.requested
            /\ Halts /\ UNCHANGED <<stop, term>>
         \/ /\ CheckLimits /\ Halts /\ (stop'.reason # "none" \/ Full)
         \/ /\ NextPending # {} /\ ~cancel.requested
            /\ CheckLimits /\ stop'.reason = "none" /\ ~Full
            /\ \/ Skips(Min(NextPending))
               \/ ~Blocked(Min(NextPending)) /\ Admit(Min(NextPending))
  BY ScanTurns
<1> QED BY Zenon, <1>1, ScanHalts, ScanSkips, ScanAdmits

-----------------------------------------------------------------------------
\* What is still pending is recorded as not run, for the reason of the stop.
LEMMA FinishStep ==
    ASSUME PlanInv, Finish
    PROVE  PlanInv'
<1>0. /\ Types /\ Owned /\ Entries /\ Causes /\ Order /\ Reservations /\ Decisions
      /\ at = "finish" /\ active = {} /\ (pending # {} => stop.reason # "none")
  BY DEF PlanInv, Leaving, Finish
<1> DEFINE unrun == [NoRecord EXCEPT !.status = "not_run", !.reason = stop.reason]
<1>1. /\ at' = "ended" /\ result' = [kind |-> Outward, elapsed |-> now]
      /\ records' = [t \in Trials |-> IF t \in pending THEN unrun ELSE records[t]]
      /\ UNCHANGED <<stopOnError, now, task, sent, pending, active, admission, scan, timer,
                     stop, term, cancel>>
  BY DEF Finish
<1>2. /\ unrun \in [status : Statuses \cup {"none"}, reason : Reasons, released : Int, finished : Int]
      /\ unrun.status = "not_run"
  <2>1. NoRecord \in [status : Statuses \cup {"none"}, reason : Reasons, released : Int, finished : Int]
    BY DEF NoRecord, Reasons, NoTime
  <2>2. stop.reason \in Reasons /\ "not_run" \in Statuses \cup {"none"}
    <3>1. stop \in Decision
      BY <1>0 DEF Types
    <3>2. stop.reason \in Reasons
      BY <3>1 DEF Decision
    <3> QED BY <3>2 DEF Statuses
  <2> QED BY <2>1, <2>2
<1>3. /\ \A t \in pending : records'[t] = unrun
      /\ \A t \in Admitted : t \in Trials /\ records'[t] = records[t]
      /\ Admitted' = Admitted /\ Recorded' = Recorded /\ Recorded \subseteq Admitted
      /\ pending \subseteq Trials
  <2> HIDE DEF unrun
  <2> QED BY <1>0, <1>1 DEF Types, Admitted, Recorded
<1>4. Types'
  <2>1. records' \in [Trials -> [status : Statuses \cup {"none"}, reason : Reasons,
                                released : Int, finished : Int]]
    <3> HIDE DEF unrun
    <3> QED BY <1>0, <1>1, <1>2 DEF Types
  <2>2. at' \in Places
    BY <1>1 DEF Places
  <2> QED BY <1>0, <1>1, <2>1, <2>2 DEF Types
<1>5. Owned'
  <2>1. \A t \in pending : records'[t] = unrun
    BY <1>3
  <2>2. active' = {} /\ unrun' = unrun
    BY <1>0, <1>1
  <2> QED BY <1>0, <1>1, <1>3, <2>1, <2>2 DEF Owned
<1>6. Entries'
  <2> SUFFICES ASSUME NEW t \in Recorded PROVE Entry(t)'
    BY <1>3 DEF Entries
  <2>1. Entry(t) /\ records'[t] = records[t]
    BY <1>0, <1>3 DEF Entries
  <2>2. ValidInterruption(t) => ValidInterruption(t)'
    BY <1>1, <2>1 DEF ValidInterruption
  <2> QED BY <1>1, <1>3, <2>1, <2>2 DEF Entry
<1>7. Decisions'
  BY <1>0, <1>1, NothingDecided
<1>8. Causes'
  BY <1>0, <1>1, <1>3 DEF Causes
<1>9. Order'
  <2>1. \A t \in Admitted, u \in Trials : Follows(t, u) => Follows(t, u)'
    BY <1>1, <1>3 DEF Follows
  <2> QED BY <1>0, <1>1, <1>3, <2>1 DEF Order
<1>10. Reservations'
  <2>1. \A time \in 0..MaxTime : OpenSoFar(time)' = OpenSoFar(time)
    BY <1>1, <1>3 DEF OpenSoFar
  <2>2. \A time \in 0..MaxTime : WithinLimits(OpenSoFar(time)')
    BY <1>0, <2>1 DEF Reservations
  <2> QED BY <2>2 DEF Reservations, WithinLimits
<1>11. Scanning'
  BY <1>1 DEF Scanning
<1>12. Leaving'
  <2>1. \A t \in pending : records[t].status = "none"
    BY <1>0 DEF Owned, NoRecord
  <2>2. \A t \in Trials : (records'[t].status = "cleanup_failed") <=> (records[t].status = "cleanup_failed")
    <3> SUFFICES ASSUME NEW t \in Trials
                 PROVE  (records'[t].status = "cleanup_failed") <=> (records[t].status = "cleanup_failed")
      OBVIOUS
    <3>1. CASE t \in pending
      BY <1>2, <1>3, <2>1, <3>1
    <3>2. CASE t \notin pending
      BY <1>3, <3>2 DEF Admitted
    <3> QED BY <3>1, <3>2
  <2>3. Unconfirmed' = Unconfirmed
    BY <2>2 DEF Unconfirmed
  <2>4. Outward' = Outward
    BY <1>1, <2>3 DEF Outward
  <2>5. result'.kind = Outward /\ result'.elapsed = now
    BY <1>1
  <2> QED BY <1>0, <1>1, <2>4, <2>5 DEF Leaving
<1> QED BY <1>4, <1>5, <1>6, <1>7, <1>8, <1>9, <1>10, <1>11, <1>12 DEF PlanInv

LEMMA StepPlanInv == PlanInv /\ [Next]_vars => PlanInv'
<1> SUFFICES ASSUME PlanInv, [Next]_vars PROVE PlanInv'
  OBVIOUS
<1>1. CASE Run
  BY <1>1, DecidingSteps, ConsumeDoneStep, StartScanStep, ScanStep, ConsumeInstantStep, SettleStep,
     WaitCancelledStep, FinishStep DEF Run
<1>2. CASE RequestCancel \/ Tick
  BY <1>2, OutsideSteps
<1>3. ASSUME NEW t \in Trials,
             ChildStarts(t) \/ ChildEnds(t) \/ ChildInterrupted(t) \/ ChildStops(t)
      PROVE  PlanInv'
  BY <1>3, ChildSteps
<1>4. CASE UNCHANGED vars
  <2>1. /\ UNCHANGED <<stopOnError, now, at, task, sent, pending, active, admission, records, scan,
                       timer, stop, term, cancel, result>>
        /\ Admitted' = Admitted /\ Recorded' = Recorded
    BY <1>4 DEF vars, parent, Admitted, Recorded
  <2>2. Types' /\ Owned'
    BY <2>1 DEF PlanInv, Types, Owned
  <2>3. Entries' /\ Causes' /\ Order'
    BY <2>1 DEF PlanInv, Entries, Entry, ValidInterruption, Causes, Order, Follows
  <2>4. Decisions'
    BY <2>1 DEF PlanInv, Decisions, Decided
  <2>5. Reservations'
    <3>1. \A time \in 0..MaxTime : OpenSoFar(time)' = OpenSoFar(time)
      BY <2>1 DEF OpenSoFar
    <3>2. \A time \in 0..MaxTime : WithinLimits(OpenSoFar(time)')
      BY <3>1 DEF PlanInv, Reservations
    <3> QED BY <3>2 DEF Reservations, WithinLimits
  <2>6. Scanning'
    <3>1. Scanned(active)' <=> Scanned(active)
      BY <2>1 DEF Scanned, Obstructed, Waits, ReservedBy, RateOf
    <3>2. Scanned(active \ {scan.index})' <=> Scanned(active \ {scan.index})
      BY <2>1 DEF Scanned, Obstructed, Waits, ReservedBy, RateOf
    <3> QED BY <2>1, <3>1, <3>2, SameObstacles DEF PlanInv, Scanning
  <2>7. Leaving'
    <3>1. WaitTimer' = WaitTimer /\ Outward' = Outward
      BY <2>1 DEF WaitTimer, Outward, Unconfirmed
    <3> QED BY <2>1, <3>1 DEF PlanInv, Leaving
  <2> QED BY <2>2, <2>3, <2>4, <2>5, <2>6, <2>7 DEF PlanInv
<1> QED BY <1>1, <1>2, <1>3, <1>4 DEF Next

THEOREM PlanInvariance == Spec => []PlanInv
<1> QED BY InitPlanInv, StepPlanInv, PTL DEF Spec

\* Whatever children, stops, deadlines and cancellations do, the history that
\* run() builds passes the validation of the report codec.
THEOREM HistoryAcceptedHolds == Spec => []HistoryAccepted
  BY PlanInvariance, InvAcceptsHistory, PTL

\* The workers that may exist respect every limit of the policy at every
\* instant, and run() ends with each of them accounted for.
THEOREM ChildrenWithinLimitsHolds == Spec => []ChildrenWithinLimits
  BY PlanInvariance, InvKeepsLimits, PTL

\* run() only waits while nothing can be admitted, and never on a timer that
\* has expired without leading to a decision.
THEOREM WaitIsJustifiedHolds == Spec => []WaitIsJustified
  BY PlanInvariance, InvJustifiesWait, PTL

\* No trial is admitted while the outcome of another is there to be consumed.
LEMMA AdmissionSeesOutcomes ==
    ASSUME PlanInv, [Next]_vars, pending' # pending
    PROVE  \A t \in active : task[t] \in Live
<1>1. Scan
  BY DEF Next, Run, vars, parent, Resume, Check, ConsumeDone, StartScan, ConsumeInstant, Settle,
         WaitReturns, WaitCancelled, Finish, RequestCancel, Tick, ChildStarts, ChildEnds,
         ChildInterrupted, ChildStops, Becomes
<1>2. at = "admit" /\ ~cancel.requested
  <2>1. at = "admit"
    BY <1>1, ScanTurns
  <2>2. Halts => pending' = pending
    BY DEF Halts
  <2> QED BY <1>1, <2>1, <2>2, ScanTurns
<1>3. Scanned(active)
  BY <1>2 DEF PlanInv, Scanning
<1> QED BY <1>2, <1>3 DEF Scanned

THEOREM OutcomesBeforeAdmissionHolds == Spec => OutcomesBeforeAdmission
<1>1. PlanInv /\ [Next]_vars => [pending' # pending => \A t \in active : task[t] \in Live]_vars
  BY AdmissionSeesOutcomes
<1> QED BY <1>1, PlanInvariance, PTL DEF Spec, OutcomesBeforeAdmission
=============================================================================
