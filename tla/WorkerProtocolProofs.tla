------------------------ MODULE WorkerProtocolProofs ------------------------
(***************************************************************************)
(* The session between run_worker and its child for every number of runs,  *)
(* callbacks and queue slots: no frame of the child is rejected, every     *)
(* result accounts for its events, and runs are authorised one by one.     *)
(*                                                                         *)
(* The invariant looks at the frames that are under way as a set, in which *)
(* the sequence numbers give the order.  It says how they are numbered     *)
(* (Numbered), which may follow which (Ordered), what the reader will find *)
(* when it accepts them (Ahead, EventsAhead, LivesAhead, ResultAhead), what *)
(* the child will still add to them (Places, Captured, Counted), that the  *)
(* counters of both sides add up (Accounts), how far the parent lets the   *)
(* child go (Rounds), and what an end of either side implies (Endings).    *)
(***************************************************************************)
EXTENDS WorkerProtocol, FiniteSetTheorems, TLAPS

ControlTypes == {"ready", "result", "error", "terminal"}
Stages == {"capture", "retention"}
Phases == {"startup", "running", "continuation", "ending", "terminal"}

Envelope == [type : {"ready", "error"}, sequence : Nat, run : Nat]
Event    == [type : {"event"}, sequence : Nat, run : Nat, n : Nat]
Callback == [type : {"live_event"}, sequence : Nat, run : Nat, n : Nat \ {0}]
Gap      == [type : {"live_event"}, sequence : Nat, run : Nat, n : {0},
             stage : Stages, lost : Nat]
Result   == [type : {"result"}, sequence : Nat, run : Nat, emitted : Nat, dropped : Nat,
             liveEmitted : Nat, liveDropped : Nat, callbacks : Nat, capture : Nat,
             retention : Nat, parentDropped : Nat, parentLiveDropped : Nat]
Terminal == [type : {"terminal"}, sequence : Nat, run : Nat, runs : Nat, failed : BOOLEAN]

Frame == Envelope \cup Event \cup Callback \cup Gap \cup Result \cup Terminal

Workers  == [role : {"client", "server"},
             at : {"setup", "native", "joining", "unsettled", "command", "error", "terminal",
                   "close", "exited"},
             run : Nat \ {0}, count : Nat, failed : BOOLEAN, cut : BOOLEAN]
Captures == [queue : Seq(Nat), callbacks : Nat, copied : Nat, captureDropped : Nat,
             retentionDropped : Nat, emitted : Nat, dropped : Nat, liveEmitted : Nat,
             liveDropped : Nat, held : Nat, parser : {"running", "retention", "done"},
             closed : BOOLEAN]
Outs     == [frames : Seq(Frame), sequence : Nat, closed : BOOLEAN]
Commands == [run : Nat, continue : BOOLEAN]
Parents  == [incoming : Nat, phase : Phases, run : Nat, runs : Nat, failed : BOOLEAN,
             eventSequence : Nat, liveReceived : Nat, captureSequence : Nat,
             gaps : SUBSET [stage : Stages, lost : Nat]]
Inboxes  == [frames : Seq(Frame), dropped : Nat, liveDropped : Nat]
Loops    == [at : {"loop", "decide", "tell", "tellEnd", "ended"}, count : Nat,
             error : BOOLEAN, broken : BOOLEAN, ok : BOOLEAN,
             outcome : {"none", "success", "worker", "callback", "transport"}]
Tallies  == [events : Nat, lives : Nat, lost : Nat]

Types ==
    /\ worker \in Workers /\ capture \in Captures /\ out \in Outs /\ pipe \in Seq(Frame)
    /\ commands \in Seq(Commands) /\ responses \in Parents
    /\ reader \in {"reading", "eof", "refused", "truncated"}
    /\ inbox \in Inboxes /\ main \in Loops /\ tally \in Tallies

Members(s) == {s[i] : i \in 1..Len(s)}

\* The frames that the child has emitted and the reader has not accepted, and
\* those that wait for the message loop.
Flight   == Members(pipe) \cup Members(out.frames)
Received == Members(inbox.frames)

Sent(type)      == \E f \in Flight : f.type = type
Number(S, type) == Cardinality({f \in S : f.type = type})

Numbered ==
    /\ \A i \in 1..Len(pipe) : pipe[i].sequence = responses.incoming + i
    /\ \A i \in 1..Len(out.frames) :
           out.frames[i].sequence = responses.incoming + Len(pipe) + i
    /\ worker.at # "exited" =>
           /\ out.sequence = responses.incoming + Len(pipe) + Len(out.frames)
           /\ ~out.closed
    /\ worker.at = "exited" => out.frames = <<>>
    /\ \A f \in Received : f.sequence <= responses.incoming
    /\ \A i, j \in 1..Len(inbox.frames) :
           i < j => inbox.frames[i].sequence < inbox.frames[j].sequence

\* Which frame may come before which in one run.
Precedes(f, g) ==
    /\ f.type # "terminal" /\ g.type # "ready"
    /\ f.type = "result" => g.type \in {"error", "terminal"}
    /\ f.type = "error" => g.type = "terminal"

Ordered ==
    \A f, g \in Received \cup Flight : f.sequence < g.sequence => Precedes(f, g)

\* The phase the parent will be in when it has accepted everything.
FinalPhase ==
    IF Sent("terminal") THEN "terminal"
    ELSE IF Sent("error") \/ (Sent("result") /\ worker.role = "client") THEN "ending"
    ELSE IF Sent("result") THEN "continuation"
    ELSE IF Sent("ready") THEN "running"
    ELSE responses.phase

FinalRuns   == IF Sent("result") THEN responses.runs + 1 ELSE responses.runs
FinalFailed == responses.failed \/ Sent("error")

\* No frame that is under way will be refused for its run or its phase.
Ahead ==
    /\ Flight # {} => responses.run = worker.run /\ responses.phase # "terminal"
    /\ \A f \in Flight :
           /\ f.run = worker.run
           /\ f.type = "ready" => responses.phase = "startup"
           /\ f.type \in EventTypes \cup {"result"} =>
                  responses.phase = "running" \/ (responses.phase = "startup" /\ Sent("ready"))
           /\ f.type = "error" => ~responses.failed
           /\ f.type = "terminal" =>
                  /\ f.runs = FinalRuns /\ (f.failed <=> FinalFailed)
                  /\ \/ responses.phase = "ending" \/ Sent("error")
                     \/ Sent("result") /\ worker.role = "client"
           /\ worker.role = "server" /\ f.type = "result" =>
                  /\ worker.at \in {"command", "exited"} /\ (worker.at = "exited" => worker.cut)
                  /\ worker.count = worker.run /\ ~Sent("error") /\ ~Sent("terminal")
                  /\ main.at \in {"loop", "ended"} /\ commands = <<>>

EventsAhead ==
    \A f \in Flight : f.type = "event" =>
        /\ Legacy /\ f.n > responses.eventSequence
        /\ \A g \in Flight : g.type = "event" /\ f.sequence < g.sequence => f.n < g.n

Gaps == responses.gaps \cup {[stage |-> f.stage, lost |-> f.lost] :
                             f \in {g \in Flight : g.type = "live_event" /\ g.n = 0}}

LivesAhead ==
    /\ \A f \in Flight : f.type = "live_event" =>
           /\ Live
           /\ f.n # 0 => f.n > responses.captureSequence /\ responses.gaps = {}
           /\ f.n = 0 => \A gap \in responses.gaps : gap.stage # f.stage
           /\ \A g \in Flight : g.type = "live_event" /\ f.sequence < g.sequence =>
                  /\ f.n # 0 /\ g.n # 0 => f.n < g.n
                  /\ f.n = 0 => g.n = 0 /\ g.stage # f.stage

\* The counters of a result under way agree with what precedes it.
ResultAhead ==
    \A r \in Flight : r.type = "result" =>
        /\ r.dropped <= r.emitted /\ r.emitted >= responses.eventSequence
        /\ r.liveEmitted = responses.liveReceived + Number(Flight, "live_event") + r.liveDropped
        /\ responses.captureSequence <= r.callbacks
        /\ \A f \in Flight : f.type = "event" => f.n <= r.emitted
        /\ \A f \in Flight : f.type = "live_event" => f.n <= r.callbacks
        /\ \A gap \in Gaps : gap.lost = IF gap.stage = "capture" THEN r.capture ELSE r.retention

\* What the parent knows of the child at each place of its main thread.
Places ==
    /\ worker.at = "setup" => FinalPhase = IF worker.run = 1 THEN "startup" ELSE "running"
    /\ worker.at \in {"native", "joining", "unsettled"} => FinalPhase = "running"
    /\ worker.at \in {"setup", "native", "joining", "unsettled"} =>
           /\ responses.run = worker.run /\ worker.count + 1 = worker.run
           /\ main.count = worker.count
    /\ worker.at \in {"setup", "native", "joining", "command"} => ~worker.failed
    /\ worker.at = "command" => worker.role = "server" /\ worker.count = worker.run
    /\ worker.at = "error" => FinalPhase # "terminal" /\ worker.failed /\ ~FinalFailed
    /\ worker.at = "terminal" => FinalPhase = "ending"
    /\ worker.at \in {"close", "exited"} /\ ~worker.cut => FinalPhase = "terminal"
    /\ worker.at \in {"error", "terminal"} => responses.run = worker.run
    /\ worker.at # "error" /\ ~worker.cut => (worker.failed <=> FinalFailed)
    /\ ~worker.cut => worker.count = FinalRuns
    /\ worker.cut => worker.at \in {"unsettled", "exited"} /\ worker.failed
    /\ worker.at = "unsettled" => worker.cut

\* The parser may still emit frames of the run.
Capturing == worker.at \in {"native", "joining", "unsettled"}

\* What the child's capture will still emit, and what it has counted.
Captured ==
    /\ worker.at = "native" => capture.parser = "running" /\ ~capture.closed
    /\ worker.at \in {"joining", "unsettled"} => capture.closed
    /\ capture.parser # "running" => capture.queue = <<>> /\ capture.held = 0
    /\ ~Capturing /\ worker.at # "exited" =>
           /\ capture.held = 0
           /\ capture.parser = "done" \/ (capture.parser = "running" /\ ~capture.closed
                                          /\ capture.queue = <<>>)
    /\ \A i \in 1..Len(capture.queue) :
           /\ capture.held < capture.queue[i] /\ capture.queue[i] <= capture.callbacks
           /\ \A j \in 1..Len(capture.queue) : i < j => capture.queue[i] < capture.queue[j]
    /\ capture.held <= capture.callbacks

\* A frame that is still to be captured is later than the callback n.
Later(n) ==
    /\ n <= capture.callbacks
    /\ capture.held # 0 => n < capture.held
    /\ \A i \in 1..Len(capture.queue) : n < capture.queue[i]

Counted ==
    Capturing =>
        /\ capture.dropped <= capture.emitted /\ responses.eventSequence <= capture.emitted
        /\ \A f \in Flight : f.type = "event" => f.n <= capture.emitted
        /\ capture.liveEmitted = responses.liveReceived + Number(Flight, "live_event")
                                 + capture.liveDropped
        /\ Later(responses.captureSequence)
        /\ \A f \in Flight : f.type = "live_event" /\ f.n # 0 => Later(f.n)
        /\ \A gap \in Gaps :
               IF gap.stage = "capture"
               THEN capture.parser # "running" /\ gap.lost = capture.captureDropped
               ELSE capture.parser = "done" /\ gap.lost = capture.retentionDropped

\* What the parent has received of the events of one kind since the last result.
EventsReceived == tally.events + Number(Received, "event") + inbox.dropped
LivesReceived  == tally.lives + tally.lost + Number(Received, "live_event") + inbox.liveDropped

Accounts ==
    /\ responses.phase \in {"startup", "running"} => responses.liveReceived = LivesReceived
    /\ Capturing /\ Legacy =>
           capture.emitted = EventsReceived + Number(Flight, "event") + capture.dropped
    /\ \A r \in Flight : r.type = "result" /\ Legacy =>
           r.emitted = EventsReceived + Number(Flight, "event") + r.dropped
    /\ \A r \in Received : r.type = "result" =>
           /\ inbox.dropped = 0 /\ inbox.liveDropped = 0
           /\ r.liveEmitted = LivesReceived + r.liveDropped + r.parentLiveDropped
           /\ Legacy => r.emitted = EventsReceived + r.dropped + r.parentDropped

\* Nothing of a run is under way, and nothing of it is remembered.
Fresh ==
    /\ Flight = {} /\ inbox.frames = <<>> /\ inbox.dropped = 0 /\ inbox.liveDropped = 0
    /\ tally.events = 0 /\ tally.lives = 0 /\ tally.lost = 0
    /\ responses.eventSequence = 0 /\ responses.liveReceived = 0
    /\ responses.captureSequence = 0 /\ responses.gaps = {}

\* The parent has decided about the next run and the child has not acted on it.
Told(next) ==
    /\ worker.role = "server" /\ worker.at \in {"command", "exited"}
    /\ worker.at = "exited" => worker.cut
    /\ Flight = {} /\ inbox.frames = <<>>
    /\ worker.count = worker.run /\ (worker.at = "command" => main.count = worker.count)
    /\ IF next THEN responses.phase = "running" /\ responses.run = worker.run + 1
                    /\ main.count < MaxRuns /\ Fresh
       ELSE responses.phase = "ending" /\ responses.run = worker.run

\* The parent is at the child's run or one ahead, and each place of its loop
\* says what the two have exchanged.
Rounds ==
    /\ responses.run = worker.run \/ responses.run = worker.run + 1
    /\ responses.runs = main.count + Number(Received, "result")
    /\ \A f \in Received :
           /\ f.type = "result" => responses.phase \notin {"startup", "running"}
           /\ f.type = "error" => responses.phase \in {"ending", "terminal"} /\ responses.failed
           /\ f.type = "terminal" => responses.phase = "terminal"
           /\ f.type = "result" /\ worker.role = "server" =>
                  responses.phase = "continuation" /\ main.at \in {"loop", "ended"}
    /\ worker.at = "setup" => Fresh
    /\ responses.phase = "continuation" =>
           /\ worker.role = "server" /\ worker.at \in {"command", "exited"}
           /\ worker.at = "exited" => worker.cut
           /\ Flight = {} /\ responses.run = worker.run /\ commands = <<>>
           /\ inbox.dropped = 0 /\ inbox.liveDropped = 0 /\ worker.count = worker.run
           /\ main.at \in {"loop", "decide", "ended"}
    /\ main.at = "decide" =>
           /\ responses.phase = "continuation" /\ inbox.frames = <<>>
           /\ tally.events = 0 /\ tally.lives = 0 /\ tally.lost = 0
    /\ main.at = "tell" => Told(TRUE) /\ commands = <<>>
    /\ main.at = "tellEnd" => Told(FALSE) /\ commands = <<>>
    /\ worker.at = "command" /\ main.at = "loop" /\ commands = <<>> =>
           Sent("result") \/ responses.phase = "continuation"
    /\ commands # <<>> /\ worker.at # "exited" =>
           /\ main.at = "loop" /\ Len(commands) = 1 /\ commands[1].run = worker.run
           /\ IF commands[1].continue THEN Told(TRUE) ELSE Told(FALSE)

\* A reader fails only at the end of a session that was cut short; success
\* leaves nothing behind.
Endings ==
    /\ reader # "refused"
    /\ reader = "truncated" => worker.at = "exited" /\ worker.cut
    /\ reader = "eof" => worker.at = "exited" /\ pipe = <<>> /\ responses.phase = "terminal"
    /\ main.at = "ended" => worker.at = "exited"
    /\ main.at = "ended" <=> main.outcome # "none"
    /\ main.outcome = "transport" => worker.cut
    /\ main.outcome = "success" =>
           /\ reader = "eof" /\ inbox.frames = <<>> /\ ~worker.failed /\ main.count > 0

SessionInv ==
    /\ Types /\ Numbered /\ Ordered /\ Ahead /\ EventsAhead /\ LivesAhead /\ ResultAhead
    /\ Places /\ Captured /\ Counted /\ Accounts /\ Rounds /\ Endings

-----------------------------------------------------------------------------
(* Frames and sets of frames                                               *)

AllTypes == EventTypes \cup ControlTypes

LEMMA FrameFields ==
    ASSUME NEW f \in Frame
    PROVE  /\ f.sequence \in Nat /\ f.run \in Nat /\ f.type \in AllTypes
           /\ f.type \in EventTypes => f.n \in Nat
           /\ f.type = "live_event" /\ f.n = 0 => f.stage \in Stages /\ f.lost \in Nat
           /\ f.type = "result" => f \in Result
           /\ f.type = "terminal" => f \in Terminal
  BY DEF Frame, Envelope, Event, Callback, Gap, Result, Terminal, AllTypes, EventTypes,
         ControlTypes

LEMMA MembersTyped ==
    ASSUME NEW s \in Seq(Frame)
    PROVE  Members(s) \subseteq Frame /\ IsFiniteSet(Members(s))
<1>1. Members(s) \subseteq Frame
  BY DEF Members
<1>2. s \in [1..Len(s) -> Frame] /\ Len(s) \in Nat
  OBVIOUS
<1>3. s \in Surjection(1..Len(s), Members(s))
  BY <1>2 DEF Surjection, Members
<1>4. IsFiniteSet(1..Len(s))
  BY <1>2, FS_Interval
<1>5. IsFiniteSet(Members(s))
  BY <1>3, <1>4, FS_Surjection
<1> QED BY <1>1, <1>5

LEMMA MembersAppend ==
    ASSUME NEW s \in Seq(Frame), NEW f \in Frame
    PROVE  /\ Append(s, f) \in Seq(Frame) /\ Len(Append(s, f)) = Len(s) + 1
           /\ \A i \in 1..Len(s) : Append(s, f)[i] = s[i]
           /\ Append(s, f)[Len(s) + 1] = f
           /\ Members(Append(s, f)) = Members(s) \cup {f}
<1>1. /\ Append(s, f) \in Seq(Frame) /\ Len(Append(s, f)) = Len(s) + 1
      /\ \A i \in 1..Len(s) : Append(s, f)[i] = s[i]
      /\ Append(s, f)[Len(s) + 1] = f
  OBVIOUS
<1>2. 1..Len(s) + 1 = 1..Len(s) \cup {Len(s) + 1}
  OBVIOUS
<1> DEFINE z == Append(s, f)
<1>3. Len(z) = Len(s) + 1 /\ (\A i \in 1..Len(s) : z[i] = s[i]) /\ z[Len(s) + 1] = f
  BY <1>1
<1> HIDE DEF z
<1>4. Members(z) = Members(s) \cup {f}
  BY <1>2, <1>3 DEF Members
<1> QED BY <1>1, <1>4 DEF z

LEMMA MembersTail ==
    ASSUME NEW s \in Seq(Frame), s # <<>>
    PROVE  /\ Head(s) \in Frame /\ Head(s) = s[1] /\ Len(s) \in Nat \ {0}
           /\ Tail(s) \in Seq(Frame) /\ Len(Tail(s)) = Len(s) - 1
           /\ \A i \in 1..Len(Tail(s)) : Tail(s)[i] = s[i + 1]
           /\ Members(s) = {Head(s)} \cup Members(Tail(s))
<1>1. /\ Head(s) \in Frame /\ Head(s) = s[1] /\ Len(s) \in Nat \ {0}
      /\ Tail(s) \in Seq(Frame) /\ Len(Tail(s)) = Len(s) - 1
      /\ \A i \in 1..Len(Tail(s)) : Tail(s)[i] = s[i + 1]
  OBVIOUS
<1> DEFINE z == Tail(s)  n == Len(s)
<1>2. n \in Nat \ {0} /\ Len(z) = n - 1 /\ \A i \in 1..n - 1 : z[i] = s[i + 1]
  BY <1>1
<1> HIDE DEF z, n
<1>3. \A i \in 1..n : i = 1 \/ (i - 1 \in 1..n - 1 /\ (i - 1) + 1 = i)
  BY <1>2
<1>4. \A i \in 1..n - 1 : i + 1 \in 1..n
  BY <1>2
<1>5. 1 \in 1..n
  BY <1>2
<1>6. {s[i] : i \in 1..n} = {s[1]} \cup {z[i] : i \in 1..n - 1}
  <2>1. ASSUME NEW i \in 1..n PROVE s[i] \in {s[1]} \cup {z[j] : j \in 1..n - 1}
    <3>1. CASE i = 1
      BY <3>1
    <3>2. CASE i # 1
      <4> DEFINE k == i - 1
      <4>1. k \in 1..n - 1 /\ k + 1 = i
        BY <1>3, <3>2
      <4> HIDE DEF k
      <4>2. z[k] = s[i]
        BY <1>2, <4>1
      <4> QED BY <4>1, <4>2
    <3> QED BY <3>1, <3>2
  <2>2. \A i \in 1..n - 1 : z[i] \in {s[j] : j \in 1..n}
    BY <1>2, <1>4
  <2>3. s[1] \in {s[j] : j \in 1..n}
    BY <1>5
  <2> QED BY <2>1, <2>2, <2>3
<1>7. Members(s) = {s[1]} \cup Members(z)
  BY <1>2, <1>6 DEF Members, n
<1> QED BY <1>1, <1>7 DEF z

LEMMA NumberTyped ==
    ASSUME NEW S, IsFiniteSet(S), NEW type
    PROVE  Number(S, type) \in Nat
<1>1. IsFiniteSet({f \in S : f.type = type})
  BY FS_Subset
<1> QED BY <1>1, FS_CardinalityType DEF Number

\* One more frame.
LEMMA NumberMore ==
    ASSUME NEW S, IsFiniteSet(S), NEW f, f \notin S, NEW type
    PROVE  /\ f.type = type => Number(S \cup {f}, type) = Number(S, type) + 1
           /\ f.type # type => Number(S \cup {f}, type) = Number(S, type)
<1> DEFINE s == {g \in S : g.type = type}  z == {g \in S \cup {f} : g.type = type}
<1>1. IsFiniteSet(s) /\ f \notin s
  BY FS_Subset
<1>2. CASE f.type = type
  <2>1. z = s \cup {f}
    BY <1>2
  <2>2. Cardinality(s \cup {f}) = Cardinality(s) + 1
    BY <1>1, FS_AddElement
  <2> QED BY <1>2, <2>1, <2>2 DEF Number
<1>3. CASE f.type # type
  <2>1. z = s
    BY <1>3
  <2> QED BY <1>3, <2>1 DEF Number
<1> QED BY <1>2, <1>3

\* One frame less.
LEMMA NumberLess ==
    ASSUME NEW S, IsFiniteSet(S), NEW f \in S, NEW type
    PROVE  /\ f.type = type => Number(S, type) = Number(S \ {f}, type) + 1
           /\ f.type # type => Number(S, type) = Number(S \ {f}, type)
<1> DEFINE z == S \ {f}
<1>1. IsFiniteSet(z) /\ f \notin z /\ S = z \cup {f}
  BY FS_Subset
<1> HIDE DEF z
<1>2. /\ f.type = type => Number(z \cup {f}, type) = Number(z, type) + 1
      /\ f.type # type => Number(z \cup {f}, type) = Number(z, type)
  BY <1>1, NumberMore
<1>3. /\ f.type = type => Number(S, type) = Number(z, type) + 1
      /\ f.type # type => Number(S, type) = Number(z, type)
  BY Zenon, <1>1, <1>2
<1> QED BY <1>3 DEF z

LEMMA NumberNone ==
    ASSUME NEW S, NEW type, \A f \in S : f.type # type
    PROVE  Number(S, type) = 0
<1>1. {f \in S : f.type = type} = {}
  OBVIOUS
<1> QED BY <1>1, FS_EmptySet DEF Number

-----------------------------------------------------------------------------
(* Frames under way                                                        *)

LEMMA FlightFacts ==
    ASSUME Types, Numbered
    PROVE  /\ Flight \subseteq Frame /\ IsFiniteSet(Flight)
           /\ Received \subseteq Frame /\ IsFiniteSet(Received)
           /\ \A f \in Received \cup Flight : f \in Frame /\ f.sequence \in Nat /\ f.type \in AllTypes
           /\ \A f \in Flight : responses.incoming < f.sequence
           /\ worker.at # "exited" => \A f \in Flight : f.sequence <= out.sequence
           /\ \A f \in Received : f.sequence <= responses.incoming
           /\ \A f, g \in Received \cup Flight : f.sequence = g.sequence => f = g
           /\ \A f \in Received : f \notin Flight
<1> DEFINE P == pipe  Q == out.frames  R == inbox.frames  k == responses.incoming
<1>1. P \in Seq(Frame) /\ Q \in Seq(Frame) /\ R \in Seq(Frame) /\ k \in Nat
  BY DEF Types, Outs, Parents, Inboxes
<1>2. /\ \A i \in 1..Len(P) : P[i].sequence = k + i
      /\ \A i \in 1..Len(Q) : Q[i].sequence = k + Len(P) + i
      /\ worker.at # "exited" => out.sequence = k + Len(P) + Len(Q)
      /\ \A f \in Received : f.sequence <= k
      /\ \A i, j \in 1..Len(R) : i < j => R[i].sequence < R[j].sequence
  BY DEF Numbered
<1>3. Flight = Members(P) \cup Members(Q) /\ Received = Members(R)
  BY DEF Flight, Received
<1> HIDE DEF P, Q, R, k
<1>4. /\ Flight \subseteq Frame /\ IsFiniteSet(Flight)
      /\ Received \subseteq Frame /\ IsFiniteSet(Received)
  BY <1>1, <1>3, MembersTyped, FS_Union
<1>5. \A f \in Received \cup Flight : f \in Frame /\ f.sequence \in Nat /\ f.type \in AllTypes
  BY <1>4, FrameFields
<1>6. Len(P) \in Nat /\ Len(Q) \in Nat /\ Len(R) \in Nat
  BY <1>1
<1>7. \A f \in Flight : k < f.sequence
  BY <1>1, <1>2, <1>3, <1>6 DEF Members
<1>8. worker.at # "exited" => \A f \in Flight : f.sequence <= out.sequence
  BY <1>1, <1>2, <1>3, <1>6 DEF Members
<1>9. \A f, g \in Flight : f.sequence = g.sequence => f = g
  <2> SUFFICES ASSUME NEW f \in Flight, NEW g \in Flight, f.sequence = g.sequence PROVE f = g
    OBVIOUS
  <2>1. CASE f \in Members(P) /\ g \in Members(P)
    <3>1. PICK i \in 1..Len(P), j \in 1..Len(P) : f = P[i] /\ g = P[j]
      BY <2>1 DEF Members
    <3>2. k + i = k + j
      BY <1>2, <3>1
    <3>3. i = j
      BY <1>1, <1>6, <3>2
    <3> QED BY <3>1, <3>3
  <2>2. CASE f \in Members(Q) /\ g \in Members(Q)
    <3>1. PICK i \in 1..Len(Q), j \in 1..Len(Q) : f = Q[i] /\ g = Q[j]
      BY <2>2 DEF Members
    <3>2. k + Len(P) + i = k + Len(P) + j
      BY <1>2, <3>1
    <3>3. i = j
      BY <1>1, <1>6, <3>2
    <3> QED BY <3>1, <3>3
  <2>3. ASSUME NEW a \in Members(P), NEW b \in Members(Q) PROVE a.sequence # b.sequence
    <3>1. PICK i \in 1..Len(P), j \in 1..Len(Q) : a = P[i] /\ b = Q[j]
      BY DEF Members
    <3>2. a.sequence = k + i /\ b.sequence = k + Len(P) + j
      BY <1>2, <3>1
    <3> QED BY <1>1, <1>6, <3>2
  <2> QED BY <1>3, <2>1, <2>2, <2>3
<1>10. \A f, g \in Received : f.sequence = g.sequence => f = g
  <2> SUFFICES ASSUME NEW f \in Received, NEW g \in Received, f.sequence = g.sequence
               PROVE f = g
    OBVIOUS
  <2>1. PICK i \in 1..Len(R), j \in 1..Len(R) : f = R[i] /\ g = R[j]
    BY <1>3 DEF Members
  <2>2. f.sequence \in Nat
    BY <1>5
  <2>3. ~(i < j) /\ ~(j < i)
    BY <1>2, <2>1, <2>2
  <2>4. i = j
    BY <1>6, <2>3
  <2> QED BY <2>1, <2>4
<1>11. \A f \in Received, g \in Flight : f.sequence # g.sequence
  BY <1>1, <1>2, <1>5, <1>7
<1>12. \A f, g \in Received \cup Flight : f.sequence = g.sequence => f = g
  BY <1>9, <1>10, <1>11
<1>13. \A f \in Received : f \notin Flight
  BY <1>11
<1> QED BY <1>2, <1>4, <1>5, <1>7, <1>8, <1>12, <1>13 DEF k

\* The child's next frame is the last one under way.
LEMMA Emits ==
    ASSUME Types, Numbered, Ordered, worker.at # "exited",
           NEW f \in Frame, f.sequence = NextSequence,
           \A g \in Received \cup Flight : Precedes(g, f),
           out' = Queued(f), pipe' = pipe, responses' = responses, inbox' = inbox,
           worker'.at # "exited"
    PROVE  /\ out' \in Outs
           /\ Numbered' /\ Ordered' /\ Flight' = Flight \cup {f} /\ Received' = Received
           /\ f \notin Flight
           /\ \A g \in Received \cup Flight : g.sequence < f.sequence
<1> DEFINE P == pipe  Q == out.frames  k == responses.incoming  Z == Append(Q, f)
<1>1. /\ P \in Seq(Frame) /\ Q \in Seq(Frame) /\ k \in Nat /\ out.sequence \in Nat
      /\ Len(P) \in Nat /\ Len(Q) \in Nat
  BY DEF Types, Outs, Parents
<1>2. /\ out'.frames = Z /\ out'.sequence = out.sequence + 1 /\ out'.closed = out.closed
      /\ out' \in Outs
  <2>1. out \in Outs /\ Z \in Seq(Frame) /\ out.sequence + 1 \in Nat
    BY <1>1 DEF Types
  <2>2. out' = [[out EXCEPT !.frames = Z] EXCEPT !.sequence = out.sequence + 1]
    BY DEF Queued
  <2> HIDE DEF Z
  <2> QED BY <2>1, <2>2 DEF Outs
<1>3. /\ \A i \in 1..Len(P) : P[i].sequence = k + i
      /\ \A i \in 1..Len(Q) : Q[i].sequence = k + Len(P) + i
      /\ out.sequence = k + Len(P) + Len(Q) /\ ~out.closed
  BY DEF Numbered
<1>4. f.sequence = out.sequence + 1
  BY DEF NextSequence
<1> HIDE DEF P, Q, k, Z
<1>5. /\ Z \in Seq(Frame) /\ Len(Z) = Len(Q) + 1 /\ Z[Len(Q) + 1] = f
      /\ \A i \in 1..Len(Q) : Z[i] = Q[i]
      /\ Members(Z) = Members(Q) \cup {f}
  BY <1>1, MembersAppend DEF Z
<1>6. \A i \in 1..Len(Z) : Z[i].sequence = k + Len(P) + i
  <2> SUFFICES ASSUME NEW i \in 1..Len(Z) PROVE Z[i].sequence = k + Len(P) + i
    OBVIOUS
  <2>1. CASE i \in 1..Len(Q)
    BY <1>3, <1>5, <2>1
  <2>2. CASE i = Len(Q) + 1
    <3>1. Z[i].sequence = k + Len(P) + Len(Q) + 1
      BY <1>3, <1>4, <1>5, <2>2
    <3> QED BY <1>1, <2>2, <3>1
  <2> QED BY <1>1, <1>5, <2>1, <2>2
<1>7. out'.sequence = k + Len(P) + Len(Z)
  BY <1>1, <1>2, <1>3, <1>5
<1>8. Flight' = Flight \cup {f}
  BY <1>2, <1>5 DEF Flight, P, Q
<1>9. Received' = Received
  BY DEF Received
<1>10. \A g \in Received \cup Flight : g.sequence < f.sequence
  <2>1. /\ \A g \in Received \cup Flight : g.sequence \in Nat
        /\ \A g \in Flight : k < g.sequence /\ g.sequence <= out.sequence
        /\ \A g \in Received : g.sequence <= k
    BY FlightFacts DEF k
  <2>2. k <= out.sequence
    BY <1>1, <1>3
  <2> QED BY <1>1, <1>4, <2>1, <2>2
<1>11. f \notin Flight
  <2>1. ~(f.sequence < f.sequence)
    BY <1>1, <1>4
  <2> QED BY <1>10, <2>1
<1>12. Numbered'
  <2>1. \A i \in 1..Len(out'.frames) : out'.frames[i].sequence = responses'.incoming + Len(pipe') + i
    BY <1>2, <1>6 DEF P, k
  <2>2. out'.sequence = responses'.incoming + Len(pipe') + Len(out'.frames) /\ ~out'.closed
    BY <1>2, <1>3, <1>7 DEF P, k
  <2>3. /\ \A g \in Received : g.sequence <= responses.incoming
        /\ \A i, j \in 1..Len(inbox.frames) :
              i < j => inbox.frames[i].sequence < inbox.frames[j].sequence
        /\ \A i \in 1..Len(pipe) : pipe[i].sequence = responses.incoming + i
    BY DEF Numbered
  <2> QED BY <1>9, <2>1, <2>2, <2>3 DEF Numbered
<1>13. Ordered'
  <2> SUFFICES ASSUME NEW g \in Received \cup (Flight \cup {f}),
                      NEW h \in Received \cup (Flight \cup {f}), g.sequence < h.sequence
               PROVE Precedes(g, h)
    BY <1>8, <1>9 DEF Ordered
  <2>1. CASE g \in Received \cup Flight /\ h \in Received \cup Flight
    BY <2>1 DEF Ordered
  <2>2. CASE g \in Received \cup Flight /\ h = f
    BY <2>2
  <2>3. CASE g = f
    <3>1. \A a \in Nat : ~(a < a)
      OBVIOUS
    <3>2. f.sequence \in Nat /\ \A a \in Received \cup Flight : a.sequence \in Nat
      BY <1>1, <1>4, FlightFacts
    <3>3. h # f
      BY <2>3, <3>1, <3>2
    <3>4. h.sequence < g.sequence /\ h.sequence \in Nat
      BY <1>10, <2>3, <3>2, <3>3
    <3> QED BY <2>3, <3>2, <3>4
  <2> QED BY <2>1, <2>2, <2>3
<1> QED BY <1>2, <1>8, <1>9, <1>10, <1>11, <1>12, <1>13

-----------------------------------------------------------------------------
(* Consequences of the invariant                                           *)

LEMMA Fields ==
    ASSUME Types
    PROVE  /\ worker.run \in Nat /\ worker.count \in Nat
           /\ out.frames \in Seq(Frame) /\ out.sequence \in Nat /\ pipe \in Seq(Frame)
           /\ responses.incoming \in Nat /\ responses.phase \in Phases /\ responses.run \in Nat
           /\ responses.runs \in Nat /\ responses.eventSequence \in Nat
           /\ responses.liveReceived \in Nat /\ responses.captureSequence \in Nat
           /\ responses.gaps \subseteq [stage : Stages, lost : Nat]
           /\ inbox.frames \in Seq(Frame) /\ inbox.dropped \in Nat /\ inbox.liveDropped \in Nat
           /\ main.count \in Nat
           /\ tally.events \in Nat /\ tally.lives \in Nat /\ tally.lost \in Nat
<1>1. worker.run \in Nat /\ worker.count \in Nat
  BY DEF Types, Workers
<1>2. out.frames \in Seq(Frame) /\ out.sequence \in Nat /\ pipe \in Seq(Frame)
  BY DEF Types, Outs
<1>3. /\ responses.incoming \in Nat /\ responses.phase \in Phases /\ responses.run \in Nat
      /\ responses.runs \in Nat /\ responses.eventSequence \in Nat
      /\ responses.liveReceived \in Nat /\ responses.captureSequence \in Nat
      /\ responses.gaps \subseteq [stage : Stages, lost : Nat]
  BY DEF Types, Parents
<1>4. inbox.frames \in Seq(Frame) /\ inbox.dropped \in Nat /\ inbox.liveDropped \in Nat
  BY DEF Types, Inboxes
<1>5. /\ main.count \in Nat
      /\ tally.events \in Nat /\ tally.lives \in Nat /\ tally.lost \in Nat
  BY DEF Types, Loops, Tallies
<1> QED BY <1>1, <1>2, <1>3, <1>4, <1>5

LEMMA CaptureFields ==
    ASSUME Types
    PROVE  /\ capture.queue \in Seq(Nat) /\ capture.callbacks \in Nat
           /\ capture.captureDropped \in Nat /\ capture.retentionDropped \in Nat
           /\ capture.emitted \in Nat /\ capture.dropped \in Nat
           /\ capture.liveEmitted \in Nat /\ capture.liveDropped \in Nat
           /\ capture.held \in Nat /\ capture.parser \in {"running", "retention", "done"}
  BY DEF Types, Captures

\* Before its result, a run has only events under way and in the inbox.
LEMMA Calm ==
    ASSUME SessionInv, FinalPhase \in {"startup", "running"}
    PROVE  /\ responses.phase \in {"startup", "running"}
           /\ \A f \in Received \cup Flight : f.type \in EventTypes \cup {"ready"}
           /\ FinalPhase = "running" => responses.phase = "running" \/ Sent("ready")
           /\ FinalPhase = "startup" => ~Sent("ready") /\ responses.phase = "startup"
<1>1. ~Sent("terminal") /\ ~Sent("error") /\ ~Sent("result")
  BY DEF FinalPhase
<1>2. IF Sent("ready") THEN FinalPhase = "running" ELSE FinalPhase = responses.phase
  BY <1>1 DEF FinalPhase
<1>3. Sent("ready") => responses.phase = "startup"
  BY DEF SessionInv, Ahead, Sent
<1>4. responses.phase \in {"startup", "running"}
  BY <1>2, <1>3
<1>5. \A f \in Received : f.type \notin {"result", "error", "terminal"}
  BY <1>4 DEF SessionInv, Rounds
<1>6. \A f \in Received \cup Flight : f.type \in AllTypes
  BY FlightFacts DEF SessionInv
<1>7. \A f \in Flight : f.type \notin {"result", "error", "terminal"}
  BY <1>1 DEF Sent
<1>8. \A f \in Received \cup Flight : f.type \in EventTypes \cup {"ready"}
  BY <1>5, <1>6, <1>7 DEF AllTypes, ControlTypes
<1> QED BY <1>2, <1>3, <1>4, <1>8

LEMMA SentMore ==
    ASSUME NEW E, Flight' = Flight \cup E, NEW type
    PROVE  Sent(type)' <=> (Sent(type) \/ \E f \in E : f.type = type)
  BY DEF Sent

\* In the middle of a run nothing depends on the commands.
LEMMA RoundsBusy ==
    ASSUME worker'.at \notin {"setup", "command"}, responses'.run = worker'.run,
           responses'.phase # "continuation", main'.at \notin {"decide", "tell", "tellEnd"},
           commands' = <<>> \/ worker'.at = "exited",
           responses'.runs = main'.count + Number(Received', "result"),
           \A f \in Received' :
               /\ f.type = "result" => responses'.phase \notin {"startup", "running"}
               /\ f.type = "error" =>
                      responses'.phase \in {"ending", "terminal"} /\ responses'.failed
               /\ f.type = "terminal" => responses'.phase = "terminal"
               /\ f.type = "result" => worker'.role # "server"
    PROVE  Rounds'
  BY DEF Rounds

-----------------------------------------------------------------------------
(* The parser thread                                                       *)

LEMMA CapturingFacts ==
    ASSUME SessionInv, Capturing
    PROVE  /\ worker.at \notin {"setup", "command", "error", "terminal", "close", "exited"}
           /\ FinalPhase = "running" /\ responses.run = worker.run
           /\ main.count = worker.count /\ worker.count + 1 = worker.run
           /\ main.at = "loop" /\ commands = <<>> /\ ~out.closed
           /\ reader = "reading" /\ main.outcome = "none"
<1>1. worker.at \in {"native", "joining", "unsettled"}
  BY DEF Capturing
<1>2. /\ FinalPhase = "running" /\ responses.run = worker.run
      /\ main.count = worker.count /\ worker.count + 1 = worker.run
  BY <1>1 DEF SessionInv, Places
<1>3. responses.phase \in {"startup", "running"}
  BY <1>2, Calm
<1>4. main.at \notin {"decide", "tell", "tellEnd"} /\ commands = <<>>
  BY <1>1, <1>3 DEF SessionInv, Rounds, Told
<1>5. main.at \in {"loop", "decide", "tell", "tellEnd", "ended"}
  BY DEF SessionInv, Types, Loops
<1>6. reader \in {"reading", "eof", "refused", "truncated"}
  BY DEF SessionInv, Types
<1>7. main.at # "ended" /\ reader = "reading" /\ main.outcome = "none"
  BY <1>1, <1>2, <1>6 DEF SessionInv, Endings
<1>8. ~out.closed
  BY <1>1 DEF SessionInv, Numbered
<1> QED BY <1>1, <1>2, <1>4, <1>5, <1>7, <1>8

\* A step of the parser emits at most one event of the current run.
LEMMA ParserStep ==
    ASSUME SessionInv, Capturing, UNCHANGED <<worker, pipe, commands, parentVars>>,
           NEW E \in SUBSET Frame, Flight' = Flight \cup E,
           \A f \in E : f.type \in EventTypes /\ f.run = worker.run
    PROVE  /\ Ahead' /\ ResultAhead' /\ Places' /\ Rounds' /\ Endings'
           /\ Received' = Received /\ FinalPhase' = "running"
<1>1. /\ worker' = worker /\ pipe' = pipe /\ commands' = commands /\ responses' = responses
      /\ reader' = reader /\ inbox' = inbox /\ main' = main /\ tally' = tally
  BY DEF parentVars
<1>2. Received' = Received
  BY <1>1 DEF Received
<1>3. /\ \A f \in E : f.type \notin ControlTypes
      /\ \A type \in ControlTypes : Sent(type)' <=> Sent(type)
  BY SentMore DEF ControlTypes, EventTypes
<1>4. /\ Sent("ready")' <=> Sent("ready")
      /\ Sent("result")' <=> Sent("result")
      /\ Sent("error")' <=> Sent("error")
      /\ Sent("terminal")' <=> Sent("terminal")
  BY <1>3 DEF ControlTypes
<1>5. FinalPhase' = FinalPhase /\ FinalRuns' = FinalRuns /\ (FinalFailed' <=> FinalFailed)
  BY <1>1, <1>4 DEF FinalPhase, FinalRuns, FinalFailed
<1>6. /\ responses.phase \in {"startup", "running"}
      /\ \A f \in Received \cup Flight : f.type \in EventTypes \cup {"ready"}
      /\ responses.phase = "running" \/ Sent("ready")
  BY Calm, CapturingFacts
<1>7. /\ responses.run = worker.run /\ worker.at \notin {"setup", "command"}
      /\ main.at \notin {"decide", "tell", "tellEnd"} /\ commands = <<>>
  BY CapturingFacts
<1>8. \A f \in Flight' : f.type \in EventTypes \cup {"ready"}
  BY <1>6
<1>9. Ahead'
  <2>1. \A f \in Flight' : f.run = worker.run /\ (f.type = "ready" => responses.phase = "startup")
    BY <1>3 DEF SessionInv, Ahead, ControlTypes
  <2>2. \A f \in Flight' : f.type \notin {"result", "error", "terminal"}
    BY <1>8 DEF EventTypes
  <2> QED BY <1>1, <1>4, <1>6, <1>7, <2>1, <2>2 DEF Ahead
<1>10. ResultAhead'
  BY <1>8 DEF ResultAhead, EventTypes
<1>11. Places'
  BY <1>1, <1>5 DEF SessionInv, Places
<1>12. Rounds'
  <2>1. responses.runs = main.count + Number(Received, "result")
    BY DEF SessionInv, Rounds
  <2>2. responses'.runs = main'.count + Number(Received', "result")
    BY Zenon, <1>1, <1>2, <2>1
  <2>3. \A f \in Received' : f.type \notin {"result", "error", "terminal"}
    BY <1>2, <1>6 DEF EventTypes
  <2> QED BY <1>1, <1>6, <1>7, <2>2, <2>3, RoundsBusy
<1>13. Endings'
  BY <1>1 DEF SessionInv, Endings
<1> QED BY <1>2, <1>5, <1>9, <1>10, <1>11, <1>12, <1>13, CapturingFacts

LEMMA ReceivedSame ==
    ASSUME inbox' = inbox, tally' = tally
    PROVE  /\ Received' = Received /\ EventsReceived' = EventsReceived
           /\ LivesReceived' = LivesReceived
<1>1. Received' = Received
  BY DEF Received
<1>2. /\ Number(Received', "event") = Number(Received, "event")
      /\ Number(Received', "live_event") = Number(Received, "live_event")
  BY Zenon, <1>1
<1>3. EventsReceived' = EventsReceived
  BY <1>2 DEF EventsReceived
<1>4. LivesReceived' = LivesReceived
  BY <1>2 DEF LivesReceived
<1> QED BY <1>1, <1>3, <1>4

LEMMA ReceivedTyped ==
    ASSUME SessionInv
    PROVE  EventsReceived \in Nat /\ LivesReceived \in Nat
<1>1. IsFiniteSet(Received)
  BY FlightFacts DEF SessionInv
<1>2. Number(Received, "event") \in Nat /\ Number(Received, "live_event") \in Nat
  BY <1>1, NumberTyped
<1>3. /\ inbox.dropped \in Nat /\ inbox.liveDropped \in Nat
      /\ tally.events \in Nat /\ tally.lives \in Nat /\ tally.lost \in Nat
  BY Fields DEF SessionInv
<1>4. EventsReceived \in Nat
  BY <1>2, <1>3 DEF EventsReceived
<1>5. LivesReceived \in Nat
  BY <1>2, <1>3 DEF LivesReceived
<1> QED BY <1>4, <1>5

\* A run that has no result yet only has to account for its events so far.
LEMMA AccountsBusy ==
    ASSUME SessionInv, FinalPhase \in {"startup", "running"},
           NEW E, Flight' = Flight \cup E, \A f \in E : f.type # "result",
           inbox' = inbox, tally' = tally, responses' = responses,
           Capturing' /\ Legacy =>
               capture'.emitted = EventsReceived + Number(Flight', "event") + capture'.dropped
    PROVE  Accounts'
<1>1. /\ Received' = Received /\ EventsReceived' = EventsReceived
      /\ LivesReceived' = LivesReceived
  BY ReceivedSame
<1>2. \A f \in Received \cup Flight' : f.type # "result"
  BY Calm DEF EventTypes
<1>3. responses.phase \in {"startup", "running"} => responses.liveReceived = LivesReceived
  BY DEF SessionInv, Accounts
<1> QED BY <1>1, <1>2, <1>3 DEF Accounts

LEMMA TakeCopy ==
    ASSUME SessionInv, Capturing, worker' = worker,
           capture.parser = "running", capture.held = 0, capture.queue # <<>>,
           capture'.queue = Tail(capture.queue), capture'.held = Head(capture.queue),
           capture'.callbacks = capture.callbacks, capture'.parser = capture.parser,
           capture'.closed = capture.closed
    PROVE  Captured' /\ \A n \in Nat : Later(n) => Later(n)'
<1> DEFINE q == capture.queue  t == Tail(q)
<1>1. q \in Seq(Nat) /\ q # <<>> /\ capture.callbacks \in Nat
  BY CaptureFields DEF SessionInv
<1>2. /\ Head(q) = q[1] /\ Len(q) \in Nat \ {0} /\ t \in Seq(Nat) /\ Len(t) = Len(q) - 1
      /\ \A i \in 1..Len(t) : t[i] = q[i + 1]
      /\ \A i \in 1..Len(q) : q[i] \in Nat
  BY <1>1
<1>3. \A i \in 1..Len(q) :
          /\ 0 < q[i] /\ q[i] <= capture.callbacks
          /\ \A j \in 1..Len(q) : i < j => q[i] < q[j]
  BY DEF SessionInv, Captured
<1>4. /\ worker.at = "native" => ~capture.closed
      /\ worker.at \in {"joining", "unsettled"} => capture.closed
      /\ worker.at \in {"native", "joining", "unsettled"}
  BY DEF SessionInv, Captured, Capturing
<1>5. capture'.queue = t /\ capture'.held = q[1] /\ 1 \in 1..Len(q)
  BY <1>2
<1> HIDE DEF q, t
<1>6. \A i \in 1..Len(t) : i + 1 \in 1..Len(q) /\ 1 < i + 1
  BY <1>2
<1>7. \A i \in 1..Len(t) :
          /\ q[1] < t[i] /\ t[i] <= capture.callbacks
          /\ \A j \in 1..Len(t) : i < j => t[i] < t[j]
  <2> SUFFICES ASSUME NEW i \in 1..Len(t)
               PROVE  /\ q[1] < t[i] /\ t[i] <= capture.callbacks
                      /\ \A j \in 1..Len(t) : i < j => t[i] < t[j]
    OBVIOUS
  <2>1. t[i] = q[i + 1] /\ \A j \in 1..Len(t) : t[j] = q[j + 1]
    BY <1>2
  <2>2. q[1] < q[i + 1] /\ q[i + 1] <= capture.callbacks
    BY <1>3, <1>5, <1>6
  <2>3. ASSUME NEW j \in 1..Len(t), i < j PROVE t[i] < t[j]
    <3>1. i + 1 < j + 1
      BY <1>2, <2>3
    <3> QED BY <1>3, <1>6, <2>1, <3>1
  <2> QED BY <2>1, <2>2, <2>3
<1>8. Captured'
  BY <1>3, <1>4, <1>5, <1>7 DEF Captured, Capturing
<1>9. ASSUME NEW n \in Nat, Later(n) PROVE Later(n)'
  <2>1. n <= capture.callbacks /\ \A i \in 1..Len(q) : n < q[i]
    BY <1>9 DEF Later, q
  <2>2. \A i \in 1..Len(t) : n < t[i]
    BY <1>2, <1>6, <2>1
  <2> QED BY <1>5, <2>1, <2>2 DEF Later
<1> QED BY <1>8, <1>9

LEMMA ParseTaken ==
    ASSUME SessionInv, Capturing, UNCHANGED <<worker, pipe, commands, parentVars>>,
           capture.parser = "running", capture.held = 0, capture.queue # <<>>,
           capture' \in Captures,
           capture'.queue = Tail(capture.queue), capture'.held = Head(capture.queue),
           capture'.callbacks = capture.callbacks, capture'.parser = capture.parser,
           capture'.closed = capture.closed, capture'.captureDropped = capture.captureDropped,
           capture'.retentionDropped = capture.retentionDropped,
           capture'.liveEmitted = capture.liveEmitted,
           capture'.liveDropped = capture.liveDropped,
           NEW e \in {0, 1}, NEW d \in {0, 1}, d <= e,
           capture'.emitted = capture.emitted + e, capture'.dropped = capture.dropped + d,
           NEW E \in SUBSET Event, Flight' = Flight \cup E, Numbered', Ordered', out' \in Outs,
           \/ E = {} /\ (Legacy => e = d)
           \/ /\ Legacy /\ e = 1 /\ d = 0
              /\ \E f \in Event : /\ E = {f} /\ f \notin Flight /\ f.run = worker.run
                                  /\ f.n = capture.emitted + 1
                                  /\ \A g \in Flight : g.sequence < f.sequence
    PROVE  SessionInv'
<1>1. /\ worker' = worker /\ pipe' = pipe /\ commands' = commands /\ responses' = responses
      /\ reader' = reader /\ inbox' = inbox /\ main' = main /\ tally' = tally
  BY DEF parentVars
<1>2. /\ Flight \subseteq Frame /\ IsFiniteSet(Flight)
      /\ \A f \in Flight : f.sequence \in Nat
  BY FlightFacts DEF SessionInv
<1>3. \A f \in E : /\ f.type = "event" /\ f.run = worker.run /\ f.sequence \in Nat /\ f.n \in Nat
                   /\ Legacy /\ f.n = capture.emitted + 1 /\ f.n = capture'.emitted
                   /\ \A g \in Flight : g.sequence < f.sequence
  BY DEF Event
<1>4. /\ Ahead' /\ ResultAhead' /\ Places' /\ Rounds' /\ Endings'
      /\ Received' = Received /\ FinalPhase' = "running"
  <2>1. \A f \in E : f.type \in EventTypes /\ f.run = worker.run
    BY <1>3 DEF EventTypes
  <2>2. E \in SUBSET Frame
    BY DEF Frame
  <2> QED BY <2>1, <2>2, ParserStep
<1>5. Captured' /\ \A n \in Nat : Later(n) => Later(n)'
  BY <1>1, TakeCopy
<1>6. /\ capture.emitted \in Nat /\ capture.dropped \in Nat /\ capture.liveEmitted \in Nat
      /\ capture.liveDropped \in Nat /\ responses.eventSequence \in Nat
      /\ responses.captureSequence \in Nat
  BY CaptureFields, Fields DEF SessionInv
<1>7. /\ Number(Flight', "live_event") = Number(Flight, "live_event")
      /\ Legacy => Number(Flight', "event") + d = Number(Flight, "event") + e
      /\ Number(Flight, "event") \in Nat /\ Number(Flight', "event") \in Nat
  <2>1. Number(Flight, "event") \in Nat
    BY <1>2, NumberTyped
  <2>2. CASE E = {} /\ (Legacy => e = d)
    <3>1. Flight' = Flight
      BY <2>2
    <3> QED BY <2>1, <2>2, <3>1
  <2>3. CASE /\ Legacy /\ e = 1 /\ d = 0
             /\ \E f \in Event : /\ E = {f} /\ f \notin Flight /\ f.run = worker.run
                                 /\ f.n = capture.emitted + 1
                                 /\ \A g \in Flight : g.sequence < f.sequence
    <3>1. PICK f \in Event : E = {f} /\ f \notin Flight
      BY <2>3
    <3>2. f.type = "event"
      BY DEF Event
    <3>3. /\ Number(Flight \cup {f}, "event") = Number(Flight, "event") + 1
          /\ Number(Flight \cup {f}, "live_event") = Number(Flight, "live_event")
      BY <1>2, <3>1, <3>2, NumberMore
    <3>4. Flight' = Flight \cup {f}
      BY <3>1
    <3>5. /\ Number(Flight', "event") = Number(Flight, "event") + 1
          /\ Number(Flight', "live_event") = Number(Flight, "live_event")
      BY Zenon, <3>3, <3>4
    <3> QED BY <2>1, <2>3, <3>5
  <2> QED BY <2>2, <2>3
<1>8. Types'
  BY <1>1 DEF SessionInv, Types
<1>9. /\ \A f \in Flight : f.type = "event" =>
             /\ Legacy /\ f.n > responses.eventSequence /\ f.n <= capture.emitted
             /\ \A g \in Flight : g.type = "event" /\ f.sequence < g.sequence => f.n < g.n
      /\ responses.eventSequence <= capture.emitted /\ capture.dropped <= capture.emitted
  BY DEF SessionInv, EventsAhead, Counted
<1>10. \A f \in Flight : f.type = "event" => f.n \in Nat
  BY <1>2, FrameFields DEF EventTypes
<1>11. EventsAhead'
  <2> SUFFICES ASSUME NEW f \in Flight', f.type = "event"
               PROVE  /\ Legacy /\ f.n > responses.eventSequence
                      /\ \A g \in Flight' :
                             g.type = "event" /\ f.sequence < g.sequence => f.n < g.n
    BY <1>1 DEF EventsAhead
  <2>1. CASE f \in Flight
    <3>1. ASSUME NEW g \in E PROVE f.n < g.n
      BY <1>3, <1>6, <1>9, <1>10, <2>1, <3>1
    <3> QED BY <1>9, <2>1, <3>1
  <2>2. CASE f \in E
    <3>1. \A g \in Flight : ~(f.sequence < g.sequence)
      BY <1>2, <1>3, <2>2
    <3>2. \A g \in E : g = f
      BY <2>2
    <3>3. ~(f.sequence < f.sequence)
      BY <1>3, <2>2
    <3>4. Legacy /\ f.n > responses.eventSequence
      BY <1>3, <1>6, <1>9, <2>2
    <3> QED BY <3>1, <3>2, <3>3, <3>4
  <2> QED BY <2>1, <2>2
<1>12. \A f \in Flight' : f.type = "live_event" => f \in Flight
  BY <1>3
<1>13. LivesAhead'
  BY <1>1, <1>12 DEF SessionInv, LivesAhead
<1>14. Gaps' = Gaps
  BY <1>1, <1>3 DEF Gaps
<1>15. Counted'
  <2>1. capture'.dropped <= capture'.emitted /\ responses.eventSequence <= capture'.emitted
    BY <1>6, <1>9
  <2>2. \A f \in Flight' : f.type = "event" => f.n <= capture'.emitted
    BY <1>3, <1>6, <1>9, <1>10
  <2>3. capture'.liveEmitted = responses.liveReceived + Number(Flight', "live_event")
                               + capture'.liveDropped
    BY <1>7 DEF SessionInv, Counted
  <2>4. Later(responses.captureSequence)'
    BY <1>1, <1>5, <1>6 DEF SessionInv, Counted
  <2>5. ASSUME NEW f \in Flight', f.type = "live_event", f.n # 0 PROVE Later(f.n)'
    <3>1. f \in Flight /\ Later(f.n)
      BY <1>12, <2>5 DEF SessionInv, Counted
    <3>2. f.n \in Nat
      BY <1>2, <2>5, <3>1, FrameFields DEF EventTypes
    <3> QED BY <1>5, <3>1, <3>2
  <2>6. \A gap \in Gaps' :
            IF gap.stage = "capture"
            THEN capture'.parser # "running" /\ gap.lost = capture'.captureDropped
            ELSE capture'.parser = "done" /\ gap.lost = capture'.retentionDropped
    BY <1>14 DEF SessionInv, Counted
  <2> QED BY <1>1, <2>1, <2>2, <2>3, <2>4, <2>5, <2>6 DEF Counted
<1>16. Accounts'
  <2>1. /\ \A f \in E : f.type # "result"
        /\ inbox' = inbox /\ tally' = tally /\ responses' = responses
    BY <1>1, <1>3
  <2>2. ASSUME Legacy
        PROVE  capture'.emitted = EventsReceived + Number(Flight', "event") + capture'.dropped
    <3>1. capture.emitted = EventsReceived + Number(Flight, "event") + capture.dropped
      BY <2>2 DEF SessionInv, Accounts
    <3> DEFINE a == capture.emitted  b == EventsReceived  c == Number(Flight, "event")
               x == Number(Flight', "event")  y == capture.dropped
    <3>2. a \in Nat /\ b \in Nat /\ c \in Nat /\ x \in Nat /\ y \in Nat
      BY <1>6, <1>7, ReceivedTyped
    <3>3. a = b + c + y /\ x + d = c + e /\ e \in Nat /\ d \in Nat
      BY <1>7, <2>2, <3>1
    <3>4. capture'.emitted = a + e /\ capture'.dropped = y + d
      OBVIOUS
    <3> HIDE DEF a, b, c, x, y
    <3>5. a + e = b + x + (y + d)
      BY <3>2, <3>3
    <3> QED BY <3>4, <3>5 DEF b, x
  <2>3. FinalPhase \in {"startup", "running"}
    BY CapturingFacts
  <2> QED BY <2>1, <2>2, <2>3, AccountsBusy
<1> QED BY <1>4, <1>5, <1>8, <1>11, <1>13, <1>15, <1>16 DEF SessionInv

LEMMA GapsMade ==
    /\ responses.gaps \subseteq Gaps
    /\ \A f \in Flight : f.type = "live_event" /\ f.n = 0 =>
           [stage |-> f.stage, lost |-> f.lost] \in Gaps
    /\ \A gap \in Gaps :
           \/ gap \in responses.gaps
           \/ \E f \in Flight : /\ f.type = "live_event" /\ f.n = 0
                              /\ gap = [stage |-> f.stage, lost |-> f.lost]
  BY Zenon DEF Gaps

\* What every step that may emit a live event does.
LEMMA LiveStep ==
    ASSUME SessionInv, Capturing, UNCHANGED <<worker, pipe, commands, parentVars>>,
           capture' \in Captures, capture'.emitted = capture.emitted,
           capture'.dropped = capture.dropped,
           NEW e \in {0, 1}, NEW d \in {0, 1},
           capture'.liveEmitted = capture.liveEmitted + e,
           capture'.liveDropped = capture.liveDropped + d,
           NEW E \in SUBSET (Callback \cup Gap), Flight' = Flight \cup E, out' \in Outs,
           \/ E = {} /\ e = d
           \/ /\ e = 1 /\ d = 0
              /\ \E f \in E : E = {f} /\ f \notin Flight /\ f.run = worker.run
    PROVE  /\ Types' /\ EventsAhead' /\ Accounts' /\ Received' = Received
           /\ Ahead' /\ ResultAhead' /\ Places' /\ Rounds' /\ Endings' /\ responses' = responses
           /\ capture'.liveEmitted = responses.liveReceived + Number(Flight', "live_event")
                                     + capture'.liveDropped
           /\ \A f \in Flight' : f.type = "event" => f \in Flight
<1>1. /\ worker' = worker /\ pipe' = pipe /\ commands' = commands /\ responses' = responses
      /\ reader' = reader /\ inbox' = inbox /\ main' = main /\ tally' = tally
  BY DEF parentVars
<1>2. /\ Flight \subseteq Frame /\ IsFiniteSet(Flight)
  BY FlightFacts DEF SessionInv
<1>3. \A f \in E : f.type = "live_event"
  BY DEF Callback, Gap
<1>4. \A f \in E : f.run = worker.run /\ f.type \in EventTypes
  BY <1>3 DEF EventTypes
<1>5. /\ Ahead' /\ ResultAhead' /\ Places' /\ Rounds' /\ Endings' /\ Received' = Received
  <2>1. E \in SUBSET Frame
    BY DEF Frame
  <2> QED BY <1>4, <2>1, ParserStep
<1>6. Types'
  BY <1>1 DEF SessionInv, Types
<1>7. \A f \in Flight' : f.type = "event" => f \in Flight
  BY <1>3
<1>8. EventsAhead'
  BY <1>1, <1>7 DEF SessionInv, EventsAhead
<1>9. /\ Number(Flight', "event") = Number(Flight, "event")
      /\ Number(Flight', "live_event") + d = Number(Flight, "live_event") + e
      /\ Number(Flight, "live_event") \in Nat /\ Number(Flight', "live_event") \in Nat
  <2>1. Number(Flight, "live_event") \in Nat
    BY <1>2, NumberTyped
  <2>2. CASE E = {} /\ e = d
    <3>1. Flight' = Flight
      BY <2>2
    <3> QED BY <2>1, <2>2, <3>1
  <2>3. CASE /\ e = 1 /\ d = 0
             /\ \E f \in E : E = {f} /\ f \notin Flight /\ f.run = worker.run
    <3>1. PICK f \in E : E = {f} /\ f \notin Flight
      BY <2>3
    <3>2. f.type = "live_event"
      BY <1>3
    <3>3. /\ Number(Flight \cup {f}, "event") = Number(Flight, "event")
          /\ Number(Flight \cup {f}, "live_event") = Number(Flight, "live_event") + 1
      BY <1>2, <3>1, <3>2, NumberMore
    <3>4. Flight' = Flight \cup {f}
      BY <3>1
    <3>5. /\ Number(Flight', "event") = Number(Flight, "event")
          /\ Number(Flight', "live_event") = Number(Flight, "live_event") + 1
      BY Zenon, <3>3, <3>4
    <3> QED BY <2>1, <2>3, <3>5
  <2> QED BY <2>2, <2>3
<1>10. Accounts'
  <2>1. /\ \A f \in E : f.type # "result"
        /\ inbox' = inbox /\ tally' = tally /\ responses' = responses
    BY <1>1, <1>3
  <2>2. ASSUME Legacy
        PROVE  capture'.emitted = EventsReceived + Number(Flight', "event") + capture'.dropped
    BY <1>9, <2>2 DEF SessionInv, Accounts
  <2>3. FinalPhase \in {"startup", "running"}
    BY CapturingFacts
  <2> QED BY <2>1, <2>2, <2>3, AccountsBusy
<1>11. capture'.liveEmitted = responses.liveReceived + Number(Flight', "live_event")
                              + capture'.liveDropped
  <2> DEFINE a == capture.liveEmitted  b == responses.liveReceived
             c == Number(Flight, "live_event")  x == Number(Flight', "live_event")
             y == capture.liveDropped
  <2>1. a \in Nat /\ b \in Nat /\ c \in Nat /\ x \in Nat /\ y \in Nat
    BY <1>9, CaptureFields, Fields DEF SessionInv
  <2>2. a = b + c + y /\ x + d = c + e /\ e \in Nat /\ d \in Nat
    BY <1>9 DEF SessionInv, Counted
  <2>3. capture'.liveEmitted = a + e /\ capture'.liveDropped = y + d
    OBVIOUS
  <2> HIDE DEF a, b, c, x, y
  <2>4. a + e = b + x + (y + d)
    BY <2>1, <2>2
  <2> QED BY <2>3, <2>4 DEF b, x
<1> QED BY <1>1, <1>5, <1>6, <1>7, <1>8, <1>10, <1>11

\* A callback that was held is emitted.
LEMMA HeldSent ==
    ASSUME SessionInv, Capturing, UNCHANGED <<worker, pipe, commands, parentVars>>,
           capture' \in Captures, capture.held # 0, capture'.held = 0,
           capture'.queue = capture.queue, capture'.callbacks = capture.callbacks,
           capture'.parser = capture.parser, capture'.closed = capture.closed,
           capture'.emitted = capture.emitted, capture'.dropped = capture.dropped,
           NEW e \in {0, 1}, NEW d \in {0, 1},
           capture'.liveEmitted = capture.liveEmitted + e,
           capture'.liveDropped = capture.liveDropped + d,
           NEW E \in SUBSET Callback, Flight' = Flight \cup E, Numbered', Ordered', out' \in Outs,
           \/ E = {} /\ e = d
           \/ /\ Live /\ e = 1 /\ d = 0
              /\ \E f \in E : /\ E = {f} /\ f \notin Flight /\ f.run = worker.run
                              /\ f.n = capture.held
                              /\ \A g \in Flight : g.sequence < f.sequence
    PROVE  SessionInv'
<1>1. /\ Types' /\ EventsAhead' /\ Accounts' /\ Received' = Received
      /\ Ahead' /\ ResultAhead' /\ Places' /\ Rounds' /\ Endings' /\ responses' = responses
      /\ capture'.liveEmitted = responses.liveReceived + Number(Flight', "live_event")
                                + capture'.liveDropped
      /\ \A f \in Flight' : f.type = "event" => f \in Flight
  <2>1. E \in SUBSET (Callback \cup Gap)
    OBVIOUS
  <2>2. \/ E = {} /\ e = d
        \/ /\ e = 1 /\ d = 0
           /\ \E f \in E : E = {f} /\ f \notin Flight /\ f.run = worker.run
    OBVIOUS
  <2> QED BY <2>1, <2>2, LiveStep
<1>2. capture.held \in Nat \ {0} /\ capture.callbacks \in Nat /\ capture.queue \in Seq(Nat)
  BY CaptureFields DEF SessionInv
<1>3. capture.parser = "running" /\ worker' = worker
  BY <1>2 DEF SessionInv, Captured
<1>4. /\ \A i \in 1..Len(capture.queue) :
             /\ capture.held < capture.queue[i] /\ capture.queue[i] <= capture.callbacks
             /\ \A j \in 1..Len(capture.queue) : i < j => capture.queue[i] < capture.queue[j]
      /\ capture.held <= capture.callbacks
      /\ worker.at = "native" => ~capture.closed
      /\ worker.at \in {"joining", "unsettled"} => capture.closed
      /\ worker.at \in {"native", "joining", "unsettled"}
  BY DEF SessionInv, Captured, Capturing
<1>5. \A i \in 1..Len(capture.queue) : capture.queue[i] \in Nat /\ 0 < capture.queue[i]
  BY <1>2, <1>4
<1>6. Captured'
  BY <1>2, <1>3, <1>4, <1>5 DEF Captured, Capturing
<1>7. \A n \in Nat : Later(n) => Later(n)' /\ n < capture.held
  BY <1>4 DEF Later
<1>9. /\ Gaps = {} /\ responses.gaps = {}
      /\ \A f \in Flight : f.type = "live_event" => f.n # 0
  <2>1. Gaps = {}
    BY <1>3 DEF SessionInv, Counted
  <2> QED BY Zenon, <2>1, GapsMade
<1>10. \A f \in E : f.type = "live_event" /\ f.n # 0 /\ f.n = capture.held /\ f.sequence \in Nat
  BY DEF Callback
<1>11. \A f \in Flight : f.sequence \in Nat /\ (f.type = "live_event" => f.n \in Nat)
  BY FlightFacts, FrameFields DEF SessionInv, EventTypes
<1>12. \A f \in Flight : f.type = "live_event" =>
           /\ Live /\ f.n > responses.captureSequence /\ Later(f.n)
           /\ \A g \in Flight : g.type = "live_event" /\ f.sequence < g.sequence => f.n < g.n
  BY <1>9 DEF SessionInv, LivesAhead, Counted
<1>13. Later(responses.captureSequence) /\ responses.captureSequence \in Nat
  BY Fields DEF SessionInv, Counted
<1>14. LivesAhead'
  <2> SUFFICES ASSUME NEW f \in Flight', f.type = "live_event"
               PROVE  /\ Live /\ f.n # 0 /\ f.n > responses.captureSequence
                      /\ \A g \in Flight' : g.type = "live_event" /\ f.sequence < g.sequence =>
                             f.n < g.n
    BY <1>1, <1>9 DEF LivesAhead
  <2>1. CASE f \in Flight
    <3>1. ASSUME NEW g \in E PROVE f.n < g.n
      BY <1>7, <1>10, <1>11, <1>12, <2>1
    <3> QED BY <1>9, <1>12, <2>1, <3>1
  <2>2. CASE f \in E
    <3>1. \A g \in Flight : ~(f.sequence < g.sequence)
      BY <1>10, <1>11, <2>2
    <3>2. \A g \in E : g = f
      BY <2>2
    <3>3. ~(f.sequence < f.sequence)
      BY <1>10, <2>2
    <3>4. Live /\ f.n # 0 /\ f.n > responses.captureSequence
      BY <1>2, <1>7, <1>10, <1>13, <2>2
    <3> QED BY <3>1, <3>2, <3>3, <3>4
  <2> QED BY <2>1, <2>2
<1>15. Gaps' = {}
  <2>1. \A f \in Flight' : f.type = "live_event" => f.n # 0
    BY <1>9, <1>10
  <2> QED BY <1>1, <1>9, <2>1 DEF Gaps
<1>16. Counted'
  <2>1. /\ capture'.dropped <= capture'.emitted /\ responses.eventSequence <= capture'.emitted
        /\ \A f \in Flight' : f.type = "event" => f.n <= capture'.emitted
    BY <1>1 DEF SessionInv, Counted
  <2>2. Later(responses.captureSequence)'
    BY <1>1, <1>7, <1>13
  <2>3. ASSUME NEW f \in Flight', f.type = "live_event" PROVE Later(f.n)'
    <3>1. CASE f \in Flight
      BY <1>7, <1>11, <1>12, <2>3, <3>1
    <3>2. CASE f \in E
      <4>1. f.n = capture.held
        BY <1>10, <3>2
      <4> QED BY <1>4, <4>1 DEF Later
    <3> QED BY <3>1, <3>2
  <2> QED BY <1>1, <1>15, <2>1, <2>2, <2>3 DEF Counted
<1> QED BY <1>1, <1>6, <1>14, <1>16 DEF SessionInv

\* A gap event is emitted, or there is no gap to report.
LEMMA GapSent ==
    ASSUME SessionInv, Capturing, UNCHANGED <<worker, pipe, commands, parentVars>>,
           capture' \in Captures, capture.held = 0, capture'.held = 0,
           capture'.queue = capture.queue, capture'.callbacks = capture.callbacks,
           capture'.closed = capture.closed, capture'.captureDropped = capture.captureDropped,
           capture'.retentionDropped = capture.retentionDropped,
           capture'.emitted = capture.emitted, capture'.dropped = capture.dropped,
           NEW stage \in Stages,
           IF stage = "capture"
           THEN /\ capture.parser = "running" /\ capture'.parser = "retention"
                /\ capture.closed /\ capture.queue = <<>>
           ELSE capture.parser = "retention" /\ capture'.parser = "done",
           NEW e \in {0, 1}, NEW d \in {0, 1},
           capture'.liveEmitted = capture.liveEmitted + e,
           capture'.liveDropped = capture.liveDropped + d,
           NEW E \in SUBSET Gap, Flight' = Flight \cup E, Numbered', Ordered', out' \in Outs,
           \/ E = {} /\ e = d
           \/ /\ Live /\ e = 1 /\ d = 0
              /\ \E f \in E : /\ E = {f} /\ f \notin Flight /\ f.run = worker.run
                              /\ f.stage = stage
                              /\ f.lost = IF stage = "capture" THEN capture.captureDropped
                                          ELSE capture.retentionDropped
                              /\ \A g \in Flight : g.sequence < f.sequence
    PROVE  SessionInv'
<1>1. /\ Types' /\ EventsAhead' /\ Accounts' /\ Received' = Received
      /\ Ahead' /\ ResultAhead' /\ Places' /\ Rounds' /\ Endings' /\ responses' = responses
      /\ capture'.liveEmitted = responses.liveReceived + Number(Flight', "live_event")
                                + capture'.liveDropped
      /\ \A f \in Flight' : f.type = "event" => f \in Flight
  <2>1. E \in SUBSET (Callback \cup Gap)
    OBVIOUS
  <2>2. \/ E = {} /\ e = d
        \/ /\ e = 1 /\ d = 0
           /\ \E f \in E : E = {f} /\ f \notin Flight /\ f.run = worker.run
    OBVIOUS
  <2> QED BY <2>1, <2>2, LiveStep
<1>2. /\ worker' = worker /\ worker.at \in {"joining", "unsettled"} /\ capture.queue = <<>> /\ capture.closed
      /\ capture'.parser # "running"
  BY DEF SessionInv, Captured, Capturing, Stages
<1>3. capture.callbacks \in Nat
  BY CaptureFields DEF SessionInv
<1>4. Captured'
  BY <1>2, <1>3 DEF Captured, Capturing
<1>5. \A n \in Nat : Later(n) => Later(n)'
  BY <1>2 DEF Later
<1>6. \A gap \in Gaps :
          IF gap.stage = "capture"
          THEN capture.parser # "running" /\ gap.lost = capture.captureDropped
          ELSE capture.parser = "done" /\ gap.lost = capture.retentionDropped
  BY DEF SessionInv, Counted
<1>7. \A gap \in Gaps : gap.stage = "capture" /\ stage = "retention"
  BY <1>6 DEF Stages
<1>8. \A f \in Flight : f.type = "live_event" /\ f.n = 0 => f.stage = "capture" /\ stage = "retention"
  <2>1. \A f \in Flight : f.type = "live_event" /\ f.n = 0 =>
            [stage |-> f.stage, lost |-> f.lost] \in Gaps
    BY Zenon, GapsMade
  <2> QED BY <1>7, <2>1
<1>9. \A f \in E : /\ f.type = "live_event" /\ f.n = 0 /\ f.stage = stage /\ f.sequence \in Nat
                   /\ f.lost = IF stage = "capture" THEN capture.captureDropped
                               ELSE capture.retentionDropped
  BY DEF Gap
<1>10. \A f \in Flight : f.sequence \in Nat
  BY FlightFacts DEF SessionInv
<1>11. LivesAhead'
  <2>1. \A gap \in responses.gaps : gap.stage # stage
    <3>1. responses.gaps \subseteq Gaps
      BY Zenon, GapsMade
    <3> QED BY <1>7, <3>1
  <2> SUFFICES ASSUME NEW f \in Flight', f.type = "live_event"
               PROVE  /\ Live
                      /\ f.n # 0 => f.n > responses.captureSequence /\ responses.gaps = {}
                      /\ f.n = 0 => \A gap \in responses.gaps : gap.stage # f.stage
                      /\ \A g \in Flight' : g.type = "live_event" /\ f.sequence < g.sequence =>
                             /\ f.n # 0 /\ g.n # 0 => f.n < g.n
                             /\ f.n = 0 => g.n = 0 /\ g.stage # f.stage
    BY <1>1 DEF LivesAhead
  <2>2. CASE f \in Flight
    <3>1. \A g \in E : g.n = 0 /\ (f.n = 0 => g.stage # f.stage)
      BY <1>8, <1>9, <2>2
    <3>2. /\ Live
          /\ f.n # 0 => f.n > responses.captureSequence /\ responses.gaps = {}
          /\ f.n = 0 => \A gap \in responses.gaps : gap.stage # f.stage
          /\ \A g \in Flight : g.type = "live_event" /\ f.sequence < g.sequence =>
                 /\ f.n # 0 /\ g.n # 0 => f.n < g.n
                 /\ f.n = 0 => g.n = 0 /\ g.stage # f.stage
      BY <2>2 DEF SessionInv, LivesAhead
    <3> QED BY <3>1, <3>2
  <2>3. CASE f \in E
    <3>1. \A g \in Flight : ~(f.sequence < g.sequence)
      BY <1>9, <1>10, <2>3
    <3>2. \A g \in E : g = f
      BY <2>3
    <3>3. ~(f.sequence < f.sequence)
      BY <1>9, <2>3
    <3>4. Live /\ f.n = 0 /\ f.stage = stage
      BY <1>9, <2>3
    <3> QED BY <2>1, <3>1, <3>2, <3>3, <3>4
  <2> QED BY <2>2, <2>3
<1>12. Counted'
  <2>1. /\ capture'.dropped <= capture'.emitted /\ responses.eventSequence <= capture'.emitted
        /\ \A f \in Flight' : f.type = "event" => f.n <= capture'.emitted
    BY <1>1 DEF SessionInv, Counted
  <2>2. Later(responses.captureSequence)'
    <3>1. Later(responses.captureSequence) /\ responses.captureSequence \in Nat
      BY Fields DEF SessionInv, Counted
    <3> QED BY <1>1, <1>5, <3>1
  <2>3. ASSUME NEW f \in Flight', f.type = "live_event", f.n # 0 PROVE Later(f.n)'
    <3>1. f \in Flight /\ Later(f.n)
      BY <1>9, <2>3 DEF SessionInv, Counted
    <3>2. f.n \in Nat
      BY <2>3, <3>1, FlightFacts, FrameFields DEF SessionInv, EventTypes
    <3> QED BY <1>5, <3>1, <3>2
  <2>4. ASSUME NEW gap \in Gaps'
        PROVE  IF gap.stage = "capture"
               THEN capture'.parser # "running" /\ gap.lost = capture'.captureDropped
               ELSE capture'.parser = "done" /\ gap.lost = capture'.retentionDropped
    <3>1. \/ gap \in responses.gaps
          \/ \E f \in Flight' : /\ f.type = "live_event" /\ f.n = 0
                                /\ gap = [stage |-> f.stage, lost |-> f.lost]
      BY Zenon, <1>1, <2>4 DEF Gaps
    <3>2. CASE gap \in Gaps
      BY <1>2, <1>6, <1>7, <3>2
    <3>3. CASE gap \in responses.gaps
      BY Zenon, <3>2, <3>3, GapsMade
    <3>4. ASSUME NEW f \in Flight', f.type = "live_event", f.n = 0,
                 gap = [stage |-> f.stage, lost |-> f.lost]
          PROVE  IF gap.stage = "capture"
                 THEN capture'.parser # "running" /\ gap.lost = capture'.captureDropped
                 ELSE capture'.parser = "done" /\ gap.lost = capture'.retentionDropped
      <4>1. CASE f \in Flight
        <5>1. gap \in Gaps
          BY Zenon, <3>4, <4>1, GapsMade
        <5> QED BY <3>2, <5>1
      <4>2. CASE f \in E
        <5>1. gap.stage = stage /\ gap.lost = IF stage = "capture" THEN capture.captureDropped
                                              ELSE capture.retentionDropped
          BY <1>9, <3>4, <4>2
        <5> QED BY <1>2, <5>1 DEF Stages
      <4> QED BY <4>1, <4>2
    <3> QED BY <3>1, <3>3, <3>4
  <2> QED BY <1>1, <2>1, <2>2, <2>3, <2>4 DEF Counted
<1> QED BY <1>1, <1>4, <1>11, <1>12 DEF SessionInv

\* The frames stay where they are.
LEMMA EmitsNothing ==
    ASSUME SessionInv, UNCHANGED <<out, pipe>>, responses'.incoming = responses.incoming,
           inbox' = inbox, worker'.at = worker.at
    PROVE  /\ out' \in Outs /\ Numbered' /\ Ordered' /\ Flight' = Flight /\ Received' = Received
<1>1. Flight' = Flight /\ Received' = Received
  BY DEF Flight, Received
<1>2. Numbered'
  BY <1>1 DEF SessionInv, Numbered
<1>3. Ordered'
  BY <1>1 DEF SessionInv, Ordered
<1> QED BY <1>1, <1>2, <1>3 DEF SessionInv, Types

LEMMA EventEmits ==
    ASSUME SessionInv, Capturing, UNCHANGED <<worker, pipe, commands, parentVars>>,
           NEW f \in Event \cup Callback \cup Gap, f.sequence = NextSequence,
           NEW admitted \in Admissions, EmitEvent(f, admitted)
    PROVE  /\ out' \in Outs /\ Numbered' /\ Ordered'
           /\ admitted => /\ Flight' = Flight \cup {f} /\ f \notin Flight
                          /\ \A g \in Flight : g.sequence < f.sequence
           /\ ~admitted => Flight' = Flight
<1>1. /\ worker' = worker /\ pipe' = pipe /\ responses' = responses /\ inbox' = inbox
      /\ worker.at # "exited"
  BY DEF parentVars, Capturing
<1>2. CASE admitted
  <2>1. out' = Queued(f) /\ EventFits
    BY <1>2 DEF EmitEvent, Admissions
  <2>2. f \in Frame /\ f.type \in EventTypes
    BY DEF Frame, Event, Callback, Gap, EventTypes
  <2>3. \A g \in Received \cup Flight : Precedes(g, f)
    <3>1. \A g \in Received \cup Flight : g.type \in EventTypes \cup {"ready"}
      BY Calm, CapturingFacts
    <3> QED BY <2>2, <3>1 DEF Precedes, EventTypes
  <2>4. /\ out' \in Outs
        /\ Numbered' /\ Ordered' /\ Flight' = Flight \cup {f} /\ Received' = Received
        /\ f \notin Flight
        /\ \A g \in Received \cup Flight : g.sequence < f.sequence
    BY <1>1, <2>1, <2>2, <2>3, Emits DEF SessionInv
  <2> QED BY <1>2, <2>4
<1>3. CASE ~admitted
  <2>1. out' = out
    BY <1>3 DEF EmitEvent, AfterDrop
  <2> QED BY <1>1, <1>3, <2>1, EmitsNothing
<1> QED BY <1>2, <1>3

LEMMA ParseTakeStep ==
    ASSUME SessionInv, ParseTake
    PROVE  SessionInv'
<1>1. /\ worker.at # "exited" /\ capture.parser = "running" /\ capture.held = 0
      /\ capture.queue # <<>> /\ UNCHANGED <<worker, pipe, commands, parentVars>>
  BY DEF ParseTake, ChildRuns
<1>2. Capturing
  BY <1>1 DEF SessionInv, Captured, Capturing
<1> DEFINE taken == [capture EXCEPT !.queue = Tail(@), !.held = Head(capture.queue)]
           f == [type |-> "event", sequence |-> NextSequence, run |-> worker.run,
                 n |-> capture.emitted + 1]
<1>3. /\ taken \in Captures /\ taken.emitted = capture.emitted /\ taken.dropped = capture.dropped
      /\ taken.queue = Tail(capture.queue) /\ taken.held = Head(capture.queue)
      /\ taken.callbacks = capture.callbacks /\ taken.parser = capture.parser
      /\ taken.closed = capture.closed /\ taken.captureDropped = capture.captureDropped
      /\ taken.retentionDropped = capture.retentionDropped
      /\ taken.liveEmitted = capture.liveEmitted /\ taken.liveDropped = capture.liveDropped
  <2>1. capture \in Captures /\ Tail(capture.queue) \in Seq(Nat) /\ Head(capture.queue) \in Nat
    BY <1>1, CaptureFields DEF SessionInv, Types
  <2> QED BY <2>1 DEF Captures
<1>4. capture.emitted \in Nat /\ capture.dropped \in Nat /\ worker.run \in Nat /\ out.sequence \in Nat
  BY CaptureFields, Fields DEF SessionInv
<1>5. /\ f \in Event /\ f.sequence = NextSequence /\ f.run = worker.run
      /\ f.n = capture.emitted + 1
  BY <1>4 DEF Event, NextSequence
<1>6. \/ capture' = taken /\ UNCHANGED out
      \/ /\ Legacy
         /\ \E admitted \in Admissions :
                /\ EmitEvent(f, admitted)
                /\ capture' = [taken EXCEPT !.emitted = @ + 1,
                                            !.dropped = IF admitted THEN @ ELSE @ + 1]
      \/ /\ ~Legacy /\ UNCHANGED out /\ capture' = [taken EXCEPT !.emitted = @ + 1]
  BY DEF ParseTake
<1> HIDE DEF taken, f
<1>7. CASE capture' = taken /\ UNCHANGED out
  <2>1. out' \in Outs /\ Numbered' /\ Ordered' /\ Flight' = Flight \cup {}
    BY <1>1, <1>7, EmitsNothing DEF parentVars
  <2>2. capture'.emitted = capture.emitted + 0 /\ capture'.dropped = capture.dropped + 0
    BY <1>3, <1>4, <1>7
  <2> DEFINE E == {}  e == 0  d == 0
  <2>3. /\ E \in SUBSET Event /\ e \in {0, 1} /\ d \in {0, 1} /\ d <= e
        /\ E = {} /\ (Legacy => e = d) /\ Flight' = Flight \cup E
        /\ capture'.emitted = capture.emitted + e /\ capture'.dropped = capture.dropped + d
    BY <2>1, <2>2
  <2> HIDE DEF E, e, d
  <2> QED BY <1>1, <1>2, <1>3, <1>7, <2>1, <2>3, ParseTaken
<1>8. ASSUME NEW admitted \in Admissions, Legacy, EmitEvent(f, admitted),
             capture' = [taken EXCEPT !.emitted = @ + 1,
                                      !.dropped = IF admitted THEN @ ELSE @ + 1]
      PROVE  SessionInv'
  <2>1. /\ out' \in Outs /\ Numbered' /\ Ordered'
        /\ admitted => /\ Flight' = Flight \cup {f} /\ f \notin Flight
                       /\ \A g \in Flight : g.sequence < f.sequence
        /\ ~admitted => Flight' = Flight
    BY <1>1, <1>2, <1>5, <1>8, EventEmits
  <2> DEFINE e == 1  d == IF admitted THEN 0 ELSE 1  E == IF admitted THEN {f} ELSE {}
  <2>2. /\ e \in {0, 1} /\ d \in {0, 1} /\ d <= e /\ E \in SUBSET Event
        /\ Flight' = Flight \cup E
    BY <1>5, <2>1
  <2>3. \/ E = {} /\ (Legacy => e = d)
        \/ /\ Legacy /\ e = 1 /\ d = 0
           /\ \E g \in Event : /\ E = {g} /\ g \notin Flight /\ g.run = worker.run
                               /\ g.n = capture.emitted + 1
                               /\ \A h \in Flight : h.sequence < g.sequence
    BY Zenon, <1>5, <1>8, <2>1
  <2>4. capture' = [taken EXCEPT !.emitted = capture.emitted + e, !.dropped = capture.dropped + d]
    <3>1. taken.emitted + 1 = capture.emitted + e
      BY <1>3
    <3>2. (IF admitted THEN taken.dropped ELSE taken.dropped + 1) = capture.dropped + d
      BY <1>3, <1>4
    <3> HIDE DEF e, d
    <3> QED BY Zenon, <1>8, <3>1, <3>2
  <2>5. capture.emitted + e \in Nat /\ capture.dropped + d \in Nat
    BY <1>4
  <2> HIDE DEF e, d, E
  <2>6. /\ capture' \in Captures /\ capture'.emitted = capture.emitted + e
        /\ capture'.dropped = capture.dropped + d
        /\ capture'.queue = taken.queue /\ capture'.held = taken.held
        /\ capture'.callbacks = taken.callbacks /\ capture'.parser = taken.parser
        /\ capture'.closed = taken.closed /\ capture'.captureDropped = taken.captureDropped
        /\ capture'.retentionDropped = taken.retentionDropped
        /\ capture'.liveEmitted = taken.liveEmitted /\ capture'.liveDropped = taken.liveDropped
    BY <1>3, <2>4, <2>5 DEF Captures
  <2> QED BY <1>1, <1>2, <1>3, <2>1, <2>2, <2>3, <2>6, ParseTaken
<1>9. CASE /\ ~Legacy /\ UNCHANGED out /\ capture' = [taken EXCEPT !.emitted = @ + 1]
  <2>0. /\ capture.emitted + 1 \in Nat /\ capture.dropped + 0 = taken.dropped
        /\ capture' = [taken EXCEPT !.emitted = capture.emitted + 1]
    BY <1>3, <1>4, <1>9
  <2>1. out' \in Outs /\ Numbered' /\ Ordered' /\ Flight' = Flight
    BY <1>1, <1>9, EmitsNothing DEF parentVars
  <2> DEFINE E == {}  e == 1  d == 0
  <2>2. /\ capture' \in Captures /\ capture'.emitted = capture.emitted + e
        /\ capture'.dropped = capture.dropped + d
        /\ capture'.queue = taken.queue /\ capture'.held = taken.held
        /\ capture'.callbacks = taken.callbacks /\ capture'.parser = taken.parser
        /\ capture'.closed = taken.closed /\ capture'.captureDropped = taken.captureDropped
        /\ capture'.retentionDropped = taken.retentionDropped
        /\ capture'.liveEmitted = taken.liveEmitted /\ capture'.liveDropped = taken.liveDropped
    BY <1>3, <2>0 DEF Captures
  <2>3. /\ E \in SUBSET Event /\ e \in {0, 1} /\ d \in {0, 1} /\ d <= e
        /\ E = {} /\ (Legacy => e = d) /\ Flight' = Flight \cup E
    BY <1>9, <2>1
  <2> HIDE DEF E, e, d
  <2> QED BY <1>1, <1>2, <1>3, <2>1, <2>2, <2>3, ParseTaken
<1> QED BY <1>6, <1>7, <1>8, <1>9

\* _live: a live event is counted, and it is under way or counted as dropped.
LEMMA LiveEmits ==
    ASSUME SessionInv, Capturing, UNCHANGED <<worker, pipe, commands, parentVars>>,
           NEW f \in Callback \cup Gap, f.sequence = NextSequence,
           NEW admitted \in Admissions, EmitLive(f, admitted)
    PROVE  \E e \in {0, 1}, d \in {0, 1}, E \in SUBSET {f}, z \in Captures :
               /\ out' \in Outs /\ Numbered' /\ Ordered' /\ Flight' = Flight \cup E
               /\ \/ E = {} /\ e = d
                  \/ /\ Live /\ e = 1 /\ d = 0 /\ E = {f} /\ f \notin Flight
                     /\ \A g \in Flight : g.sequence < f.sequence
               /\ z = LiveCounted(capture, admitted)
               /\ z.liveEmitted = capture.liveEmitted + e
               /\ z.liveDropped = capture.liveDropped + d
               /\ z.queue = capture.queue /\ z.held = capture.held
               /\ z.callbacks = capture.callbacks /\ z.parser = capture.parser
               /\ z.closed = capture.closed /\ z.captureDropped = capture.captureDropped
               /\ z.retentionDropped = capture.retentionDropped
               /\ z.emitted = capture.emitted /\ z.dropped = capture.dropped
<1>1. /\ capture.liveEmitted \in Nat /\ capture.liveDropped \in Nat /\ capture \in Captures
  BY CaptureFields DEF SessionInv, Types
<1>2. CASE ~Live
  <2>1. out' \in Outs /\ Numbered' /\ Ordered' /\ Flight' = Flight \cup {}
    BY <1>2, EmitsNothing DEF EmitLive, parentVars
  <2>2. /\ capture = LiveCounted(capture, admitted)
        /\ capture.liveEmitted = capture.liveEmitted + 0
        /\ capture.liveDropped = capture.liveDropped + 0
    BY <1>1, <1>2 DEF LiveCounted
  <2> QED BY Zenon, <1>1, <2>1, <2>2
<1>3. CASE Live
  <2>1. EmitEvent(f, admitted)
    BY <1>3 DEF EmitLive
  <2>2. /\ out' \in Outs /\ Numbered' /\ Ordered'
        /\ admitted => /\ Flight' = Flight \cup {f} /\ f \notin Flight
                       /\ \A g \in Flight : g.sequence < f.sequence
        /\ ~admitted => Flight' = Flight
    BY <2>1, EventEmits
  <2> DEFINE z == LiveCounted(capture, admitted)  d == IF admitted THEN 0 ELSE 1
             E == IF admitted THEN {f} ELSE {}
  <2>3. z = [capture EXCEPT !.liveEmitted = capture.liveEmitted + 1,
                            !.liveDropped = capture.liveDropped + d]
    <3>1. (IF admitted THEN capture.liveDropped ELSE capture.liveDropped + 1)
              = capture.liveDropped + d
      BY <1>1
    <3>2. z = [capture EXCEPT !.liveEmitted = capture.liveEmitted + 1,
                              !.liveDropped = IF admitted THEN capture.liveDropped
                                              ELSE capture.liveDropped + 1]
      BY <1>3 DEF LiveCounted
    <3> HIDE DEF d, z
    <3> QED BY Zenon, <3>1, <3>2
  <2>4. /\ d \in {0, 1} /\ E \in SUBSET {f} /\ Flight' = Flight \cup E
        /\ capture.liveEmitted + 1 \in Nat /\ capture.liveDropped + d \in Nat
    BY <1>1, <2>2
  <2>5. \/ E = {} /\ 1 = d
        \/ /\ Live /\ d = 0 /\ E = {f} /\ f \notin Flight
           /\ \A g \in Flight : g.sequence < f.sequence
    BY Zenon, <1>3, <2>2
  <2>6. z = LiveCounted(capture, admitted)
    OBVIOUS
  <2> HIDE DEF d, z, E
  <2>7. /\ z \in Captures
        /\ z.liveEmitted = capture.liveEmitted + 1
        /\ z.liveDropped = capture.liveDropped + d
        /\ z.queue = capture.queue /\ z.held = capture.held
        /\ z.callbacks = capture.callbacks /\ z.parser = capture.parser
        /\ z.closed = capture.closed /\ z.captureDropped = capture.captureDropped
        /\ z.retentionDropped = capture.retentionDropped
        /\ z.emitted = capture.emitted /\ z.dropped = capture.dropped
    BY <1>1, <2>3, <2>4 DEF Captures
  <2> QED BY Zenon, <2>2, <2>4, <2>5, <2>6, <2>7
<1> QED BY <1>2, <1>3

LEMMA ParseLiveStep ==
    ASSUME SessionInv, ParseLive
    PROVE  SessionInv'
<1> DEFINE f == [type |-> "live_event", sequence |-> NextSequence, run |-> worker.run,
                 n |-> capture.held]
<1>1. /\ worker.at # "exited" /\ capture.held # 0
      /\ UNCHANGED <<worker, pipe, commands, parentVars>>
  BY DEF ParseLive, ChildRuns
<1>2. PICK admitted \in Admissions, lost \in {0, 1} :
          /\ EmitLive(f, admitted)
          /\ capture' = [LiveCounted(capture, admitted) EXCEPT !.held = 0,
                                                              !.retentionDropped = @ + lost]
  BY DEF ParseLive
<1>3. Capturing
  BY <1>1 DEF SessionInv, Captured, Capturing
<1>4. /\ f \in Callback /\ f.sequence = NextSequence /\ f.run = worker.run /\ f.n = capture.held
  <2>1. capture.held \in Nat \ {0} /\ worker.run \in Nat /\ out.sequence \in Nat
    BY <1>1, CaptureFields, Fields DEF SessionInv
  <2> QED BY <2>1 DEF Callback, NextSequence
<1> HIDE DEF f
<1>5. PICK e \in {0, 1}, d \in {0, 1}, E \in SUBSET {f}, z \in Captures :
          /\ out' \in Outs /\ Numbered' /\ Ordered' /\ Flight' = Flight \cup E
          /\ \/ E = {} /\ e = d
             \/ /\ Live /\ e = 1 /\ d = 0 /\ E = {f} /\ f \notin Flight
                /\ \A g \in Flight : g.sequence < f.sequence
          /\ z = LiveCounted(capture, admitted)
          /\ z.liveEmitted = capture.liveEmitted + e
          /\ z.liveDropped = capture.liveDropped + d
          /\ z.queue = capture.queue /\ z.held = capture.held
          /\ z.callbacks = capture.callbacks /\ z.parser = capture.parser
          /\ z.closed = capture.closed /\ z.captureDropped = capture.captureDropped
          /\ z.retentionDropped = capture.retentionDropped
          /\ z.emitted = capture.emitted /\ z.dropped = capture.dropped
  <2>1. f \in Callback \cup Gap
    BY <1>4
  <2> QED BY <1>1, <1>2, <1>3, <1>4, <2>1, LiveEmits
<1>6. capture' = [z EXCEPT !.held = 0, !.retentionDropped = @ + lost]
  BY Zenon, <1>2, <1>5
<1>7. /\ capture' \in Captures /\ capture'.held = 0
      /\ capture'.liveEmitted = z.liveEmitted /\ capture'.liveDropped = z.liveDropped
      /\ capture'.queue = z.queue /\ capture'.callbacks = z.callbacks
      /\ capture'.parser = z.parser /\ capture'.closed = z.closed
      /\ capture'.emitted = z.emitted /\ capture'.dropped = z.dropped
  <2> DEFINE y == z.retentionDropped + lost
  <2>1. y \in Nat /\ capture' = [z EXCEPT !.held = 0, !.retentionDropped = y]
    BY <1>6 DEF Captures
  <2> HIDE DEF y
  <2> QED BY <2>1 DEF Captures
<1>8. \/ E = {} /\ e = d
      \/ /\ Live /\ e = 1 /\ d = 0
         /\ \E g \in E : /\ E = {g} /\ g \notin Flight /\ g.run = worker.run
                         /\ g.n = capture.held
                         /\ \A h \in Flight : h.sequence < g.sequence
  BY Zenon, <1>4, <1>5
<1>9. E \in SUBSET Callback
  BY <1>4
<1> QED BY <1>1, <1>3, <1>5, <1>7, <1>8, <1>9, HeldSent

LEMMA ParseGapStep ==
    ASSUME SessionInv, CaptureGap \/ RetentionGap
    PROVE  SessionInv'
<1>1. PICK stage \in Stages, here \in {"running", "retention"}, there \in {"retention", "done"},
           lost \in Nat :
          /\ ParseGap(here, there, stage, lost)
          /\ IF stage = "capture"
             THEN here = "running" /\ there = "retention" /\ lost = capture.captureDropped
             ELSE here = "retention" /\ there = "done" /\ lost = capture.retentionDropped
  <2>1. capture.captureDropped \in Nat /\ capture.retentionDropped \in Nat
    BY CaptureFields DEF SessionInv
  <2>2. CASE CaptureGap
    BY <2>1, <2>2 DEF CaptureGap, Stages
  <2>3. CASE RetentionGap
    BY <2>1, <2>3 DEF RetentionGap, Stages
  <2> QED BY <2>2, <2>3
<1> DEFINE f == GapFrame(stage, lost)
<1>2. /\ worker.at # "exited" /\ capture.parser = here /\ capture.held = 0
      /\ here = "running" => capture.closed /\ capture.queue = <<>>
      /\ UNCHANGED <<worker, pipe, commands, parentVars>>
      /\ \/ \E admitted \in Admissions :
                /\ EmitLive(f, admitted)
                /\ capture' = [LiveCounted(capture, admitted) EXCEPT !.parser = there]
         \/ UNCHANGED out /\ capture' = [capture EXCEPT !.parser = there]
  BY <1>1 DEF ParseGap, ChildRuns
<1>3. Capturing
  BY <1>2 DEF SessionInv, Captured, Capturing
<1>4. /\ f \in Gap /\ f.sequence = NextSequence /\ f.run = worker.run
      /\ f.stage = stage /\ f.lost = lost
  <2>1. worker.run \in Nat /\ out.sequence \in Nat
    BY Fields DEF SessionInv
  <2> QED BY <2>1 DEF Gap, GapFrame, NextSequence
<1> HIDE DEF f
<1>5. CASE UNCHANGED out /\ capture' = [capture EXCEPT !.parser = there]
  <2>1. out' \in Outs /\ Numbered' /\ Ordered' /\ Flight' = Flight
    BY <1>2, <1>5, EmitsNothing DEF parentVars
  <2> DEFINE E == {}  e == 0  d == 0
  <2>2. capture.liveEmitted \in Nat /\ capture.liveDropped \in Nat /\ capture \in Captures
    BY CaptureFields DEF SessionInv, Types
  <2>3. /\ capture' \in Captures /\ capture'.held = capture.held /\ capture'.parser = there
        /\ capture'.queue = capture.queue /\ capture'.callbacks = capture.callbacks
        /\ capture'.closed = capture.closed /\ capture'.captureDropped = capture.captureDropped
        /\ capture'.retentionDropped = capture.retentionDropped
        /\ capture'.emitted = capture.emitted /\ capture'.dropped = capture.dropped
        /\ capture'.liveEmitted = capture.liveEmitted
        /\ capture'.liveDropped = capture.liveDropped
    BY <1>5, <2>2 DEF Captures
  <2>5. /\ capture'.liveEmitted = capture.liveEmitted + e
        /\ capture'.liveDropped = capture.liveDropped + d
    BY <2>2, <2>3
  <2>4. /\ E \in SUBSET Gap /\ e \in {0, 1} /\ d \in {0, 1}
        /\ E = {} /\ e = d /\ Flight' = Flight \cup E
    BY <2>1
  <2> HIDE DEF E, e, d
  <2> QED BY <1>1, <1>2, <1>3, <2>1, <2>3, <2>4, <2>5, GapSent
<1>6. ASSUME NEW admitted \in Admissions, EmitLive(f, admitted),
             capture' = [LiveCounted(capture, admitted) EXCEPT !.parser = there]
      PROVE  SessionInv'
  <2>1. PICK e \in {0, 1}, d \in {0, 1}, E \in SUBSET {f}, z \in Captures :
            /\ out' \in Outs /\ Numbered' /\ Ordered' /\ Flight' = Flight \cup E
            /\ \/ E = {} /\ e = d
               \/ /\ Live /\ e = 1 /\ d = 0 /\ E = {f} /\ f \notin Flight
                  /\ \A g \in Flight : g.sequence < f.sequence
            /\ z = LiveCounted(capture, admitted)
            /\ z.liveEmitted = capture.liveEmitted + e
            /\ z.liveDropped = capture.liveDropped + d
            /\ z.queue = capture.queue /\ z.held = capture.held
            /\ z.callbacks = capture.callbacks /\ z.parser = capture.parser
            /\ z.closed = capture.closed /\ z.captureDropped = capture.captureDropped
            /\ z.retentionDropped = capture.retentionDropped
            /\ z.emitted = capture.emitted /\ z.dropped = capture.dropped
    <3>1. f \in Callback \cup Gap
      BY <1>4
    <3>2. UNCHANGED <<worker, pipe, commands, parentVars>>
      BY <1>2
    <3> QED BY <1>3, <1>4, <1>6, <3>1, <3>2, LiveEmits
  <2>2. capture' = [z EXCEPT !.parser = there]
    BY Zenon, <1>6, <2>1
  <2>3. /\ capture' \in Captures /\ capture'.held = z.held /\ capture'.parser = there
        /\ capture'.queue = z.queue /\ capture'.callbacks = z.callbacks
        /\ capture'.closed = z.closed /\ capture'.captureDropped = z.captureDropped
        /\ capture'.retentionDropped = z.retentionDropped
        /\ capture'.emitted = z.emitted /\ capture'.dropped = z.dropped
        /\ capture'.liveEmitted = z.liveEmitted /\ capture'.liveDropped = z.liveDropped
    BY <2>2 DEF Captures
  <2>4. \/ E = {} /\ e = d
        \/ /\ Live /\ e = 1 /\ d = 0
           /\ \E g \in E : /\ E = {g} /\ g \notin Flight /\ g.run = worker.run
                           /\ g.stage = stage
                           /\ g.lost = IF stage = "capture" THEN capture.captureDropped
                                       ELSE capture.retentionDropped
                           /\ \A h \in Flight : h.sequence < g.sequence
    <3>1. lost = IF stage = "capture" THEN capture.captureDropped ELSE capture.retentionDropped
      BY <1>1
    <3> QED BY Zenon, <1>4, <2>1, <3>1
  <2>5. E \in SUBSET Gap
    BY <1>4
  <2>6. IF stage = "capture"
        THEN /\ capture.parser = "running" /\ capture'.parser = "retention"
             /\ capture.closed /\ capture.queue = <<>>
        ELSE capture.parser = "retention" /\ capture'.parser = "done"
    BY <1>1, <1>2, <2>3
  <2>7. /\ capture'.held = 0 /\ capture'.queue = capture.queue
        /\ capture'.callbacks = capture.callbacks /\ capture'.closed = capture.closed
        /\ capture'.captureDropped = capture.captureDropped
        /\ capture'.retentionDropped = capture.retentionDropped
        /\ capture'.emitted = capture.emitted /\ capture'.dropped = capture.dropped
        /\ capture'.liveEmitted = capture.liveEmitted + e
        /\ capture'.liveDropped = capture.liveDropped + d
    BY <1>2, <2>1, <2>3
  <2>8. /\ UNCHANGED <<worker, pipe, commands, parentVars>> /\ capture.held = 0
        /\ capture' \in Captures /\ out' \in Outs /\ Numbered' /\ Ordered'
        /\ Flight' = Flight \cup E
    BY <1>2, <2>1, <2>3
  <2> QED BY <1>3, <2>4, <2>5, <2>6, <2>7, <2>8, GapSent
<1> QED BY <1>2, <1>5, <1>6

-----------------------------------------------------------------------------
(* The child's main thread                                                 *)

LEMMA NumberSame ==
    ASSUME NEW S, NEW T, S = T
    PROVE  /\ Number(S, "event") = Number(T, "event")
           /\ Number(S, "live_event") = Number(T, "live_event")
           /\ Number(S, "result") = Number(T, "result")
  BY Zenon

LEMMA FlightSame ==
    ASSUME SessionInv, Flight' = Flight, responses' = responses, worker'.role = worker.role
    PROVE  /\ FinalPhase' = FinalPhase /\ FinalRuns' = FinalRuns
           /\ FinalFailed' <=> FinalFailed
           /\ Gaps' = Gaps /\ EventsAhead' /\ LivesAhead' /\ ResultAhead'
           /\ Sent("ready")' <=> Sent("ready")
           /\ Sent("result")' <=> Sent("result")
           /\ Sent("error")' <=> Sent("error")
           /\ Sent("terminal")' <=> Sent("terminal")
<1>1. /\ Sent("ready")' <=> Sent("ready")
      /\ Sent("result")' <=> Sent("result")
      /\ Sent("error")' <=> Sent("error")
      /\ Sent("terminal")' <=> Sent("terminal")
  BY DEF Sent
<1>2. FinalPhase' = FinalPhase /\ FinalRuns' = FinalRuns /\ (FinalFailed' <=> FinalFailed)
  BY <1>1 DEF FinalPhase, FinalRuns, FinalFailed
<1>3. Gaps' = Gaps
  BY DEF Gaps
<1>4. EventsAhead'
  BY DEF SessionInv, EventsAhead
<1>5. LivesAhead'
  BY DEF SessionInv, LivesAhead
<1>6. ResultAhead'
  <2>1. Number(Flight', "live_event") = Number(Flight, "live_event")
    BY NumberSame
  <2> QED BY <1>3, <2>1 DEF SessionInv, ResultAhead
<1> QED BY <1>1, <1>2, <1>3, <1>4, <1>5, <1>6

\* Between a command and the next result the parent asks nothing.
LEMMA Unasked ==
    ASSUME SessionInv, worker.at \notin {"command", "exited"}
    PROVE  /\ commands = <<>> /\ responses.phase # "continuation"
           /\ main.at = "loop" /\ reader = "reading" /\ main.outcome = "none"
           /\ worker.at = "setup" => Fresh
           /\ responses.runs = main.count + Number(Received, "result")
           /\ \A f \in Received :
                  /\ f.type = "result" => responses.phase \notin {"startup", "running"}
                  /\ f.type = "error" =>
                         responses.phase \in {"ending", "terminal"} /\ responses.failed
                  /\ f.type = "terminal" => responses.phase = "terminal"
                  /\ f.type = "result" => worker.role # "server"
           /\ \A f \in Flight : f.type = "result" => worker.role # "server"
           /\ worker.cut => worker.at = "unsettled"
<1>1. /\ commands = <<>> /\ responses.phase # "continuation"
      /\ main.at \notin {"decide", "tell", "tellEnd"}
  BY DEF SessionInv, Rounds, Told
<1>2. worker.cut => worker.at = "unsettled"
  BY DEF SessionInv, Places
<1>3. /\ main.at \in {"loop", "decide", "tell", "tellEnd", "ended"}
      /\ reader \in {"reading", "eof", "refused", "truncated"}
  BY DEF SessionInv, Types, Loops
<1>4. main.at = "loop" /\ reader = "reading" /\ main.outcome = "none"
  BY <1>1, <1>3 DEF SessionInv, Endings
<1>5. /\ worker.at = "setup" => Fresh
      /\ responses.runs = main.count + Number(Received, "result")
      /\ \A f \in Received :
             /\ f.type = "result" => responses.phase \notin {"startup", "running"}
             /\ f.type = "error" => responses.phase \in {"ending", "terminal"} /\ responses.failed
             /\ f.type = "terminal" => responses.phase = "terminal"
             /\ f.type = "result" => worker.role # "server"
  BY <1>1 DEF SessionInv, Rounds
<1>6. \A f \in Flight : f.type = "result" => worker.role # "server"
  BY DEF SessionInv, Ahead, Types, Workers
<1> QED BY <1>1, <1>2, <1>4, <1>5, <1>6

\* A step of the main thread that touches neither its frames nor its commands.
LEMMA Quiet ==
    ASSUME SessionInv, worker.at \notin {"command", "exited"}, worker'.at \notin {"setup", "command", "exited"},
           UNCHANGED <<out, pipe, commands, parentVars>>,
           worker'.role = worker.role, worker'.run = worker.run,
           responses.run = worker.run
    PROVE  /\ Numbered' /\ Ordered' /\ Ahead' /\ EventsAhead' /\ LivesAhead' /\ ResultAhead'
           /\ Rounds' /\ Endings' /\ Flight' = Flight /\ Received' = Received
           /\ out' \in Outs /\ responses' = responses /\ Gaps' = Gaps
           /\ FinalPhase' = FinalPhase /\ FinalRuns' = FinalRuns
           /\ FinalFailed' <=> FinalFailed
<1>1. /\ pipe' = pipe /\ commands' = commands /\ responses' = responses
      /\ reader' = reader /\ inbox' = inbox /\ main' = main /\ tally' = tally /\ out' = out
  BY DEF parentVars
<1>2. Flight' = Flight /\ Received' = Received
  BY <1>1 DEF Flight, Received
<1>3. Numbered'
  BY <1>1, <1>2 DEF SessionInv, Numbered
<1>4. Ordered'
  BY <1>2 DEF SessionInv, Ordered
<1>5. /\ FinalPhase' = FinalPhase /\ FinalRuns' = FinalRuns /\ (FinalFailed' <=> FinalFailed)
      /\ EventsAhead' /\ LivesAhead' /\ ResultAhead' /\ Gaps' = Gaps
      /\ Sent("ready")' <=> Sent("ready")
      /\ Sent("result")' <=> Sent("result")
      /\ Sent("error")' <=> Sent("error")
  BY <1>1, <1>2, FlightSame
<1>6. \A f \in Flight : f.type = "result" => worker.role # "server"
  BY Unasked
<1>7. Ahead'
  BY <1>1, <1>2, <1>5, <1>6 DEF SessionInv, Ahead
<1>8. Rounds'
  <2>1. Number(Received', "result") = Number(Received, "result")
    BY <1>2, NumberSame
  <2> QED BY <1>1, <1>2, <2>1, RoundsBusy, Unasked
<1>9. Endings'
  BY <1>1, Unasked DEF SessionInv, Endings
<1> QED BY <1>1, <1>2, <1>3, <1>4, <1>5, <1>7, <1>8, <1>9 DEF SessionInv, Types

LEMMA NativeCallbackStep ==
    ASSUME SessionInv, NativeCallback
    PROVE  SessionInv'
<1> DEFINE n == capture.callbacks + 1  q == capture.queue
<1>1. /\ worker.at = "native" /\ UNCHANGED <<worker, out, pipe, commands, parentVars>>
      /\ \/ capture' = [capture EXCEPT !.callbacks = n, !.copied = @ + 1,
                                       !.queue = Append(q, n)]
         \/ capture' = [capture EXCEPT !.callbacks = n, !.captureDropped = @ + 1]
  BY DEF NativeCallback
<1>2. Capturing /\ capture.parser = "running" /\ ~capture.closed
  BY <1>1 DEF Capturing, SessionInv, Captured
<1>3. /\ worker' = worker /\ pipe' = pipe /\ commands' = commands /\ responses' = responses
      /\ reader' = reader /\ inbox' = inbox /\ main' = main /\ tally' = tally /\ out' = out
  BY <1>1 DEF parentVars
<1>4. /\ capture \in Captures /\ q \in Seq(Nat) /\ capture.callbacks \in Nat /\ n \in Nat
      /\ capture.copied \in Nat /\ capture.captureDropped \in Nat /\ capture.held \in Nat
  BY CaptureFields DEF SessionInv, Types, Captures
<1>5. /\ capture' \in Captures /\ capture'.callbacks = n
      /\ capture'.queue = q \/ capture'.queue = Append(q, n)
      /\ capture'.held = capture.held /\ capture'.parser = capture.parser
      /\ capture'.closed = capture.closed /\ capture'.emitted = capture.emitted
      /\ capture'.dropped = capture.dropped /\ capture'.liveEmitted = capture.liveEmitted
      /\ capture'.liveDropped = capture.liveDropped
  <2> DEFINE x == capture.copied + 1  y == capture.captureDropped + 1  z == Append(q, n)
  <2>1. x \in Nat /\ y \in Nat /\ z \in Seq(Nat)
    BY <1>4
  <2>2. \/ capture' = [capture EXCEPT !.callbacks = n, !.copied = x, !.queue = z]
        \/ capture' = [capture EXCEPT !.callbacks = n, !.captureDropped = y]
    BY <1>1
  <2> HIDE DEF x, y, z, n
  <2>3. capture \in Captures /\ n \in Nat
    BY <1>4
  <2> QED BY <2>1, <2>2, <2>3 DEF Captures, z
<1> HIDE DEF n, q
<1>6. capture.callbacks < n /\ capture.callbacks + 1 = n
  BY <1>4 DEF n
<1>7. /\ Numbered' /\ Ordered' /\ Flight' = Flight /\ Received' = Received
  BY <1>3, EmitsNothing
<1>8. Ahead' /\ ResultAhead' /\ Places' /\ Rounds' /\ Endings'
  <2> DEFINE E == {}
  <2>1. /\ E \in SUBSET Frame /\ Flight' = Flight \cup E
        /\ \A f \in E : f.type \in EventTypes /\ f.run = worker.run
    BY <1>7
  <2> HIDE DEF E
  <2> QED BY <1>1, <1>2, <2>1, ParserStep
<1>9. EventsAhead' /\ LivesAhead' /\ Gaps' = Gaps
  BY <1>3, <1>7, FlightSame
<1>10. Types'
  BY <1>3, <1>5 DEF SessionInv, Types
<1>11. /\ \A i \in 1..Len(q) :
              /\ q[i] \in Nat /\ capture.held < q[i] /\ q[i] <= capture.callbacks
              /\ \A j \in 1..Len(q) : i < j => q[i] < q[j]
       /\ capture.held <= capture.callbacks
  BY <1>4 DEF SessionInv, Captured, q
<1>12. \A i \in 1..Len(q) : q[i] < n
  BY <1>4, <1>6, <1>11
<1>13. /\ \A i \in 1..Len(capture'.queue) :
              /\ capture'.queue[i] \in Nat /\ capture.held < capture'.queue[i]
              /\ capture'.queue[i] <= n
              /\ \A j \in 1..Len(capture'.queue) : i < j => capture'.queue[i] < capture'.queue[j]
       /\ \A m \in Nat : m <= capture.callbacks /\ (\A i \in 1..Len(q) : m < q[i]) =>
              \A i \in 1..Len(capture'.queue) : m < capture'.queue[i]
  <2>1. CASE capture'.queue = q
    BY <1>4, <1>6, <1>11, <1>12, <2>1
  <2>2. CASE capture'.queue = Append(q, n)
    <3> DEFINE z == Append(q, n)
    <3>1. /\ Len(q) \in Nat /\ Len(z) = Len(q) + 1 /\ z[Len(q) + 1] = n
          /\ \A i \in 1..Len(q) : z[i] = q[i]
      BY <1>4
    <3>2. capture'.queue = z
      BY <2>2
    <3> HIDE DEF z
    <3>3. \A i \in 1..Len(z) : i \in 1..Len(q) \/ i = Len(q) + 1
      BY <3>1
    <3>4. \A i \in 1..Len(z) : z[i] \in Nat /\ capture.held < z[i] /\ z[i] <= n
      <4>1. capture.held < n /\ n \in Nat /\ n <= n
        BY <1>4, <1>6, <1>11
      <4>2. ASSUME NEW i \in 1..Len(q)
            PROVE  z[i] \in Nat /\ capture.held < z[i] /\ z[i] <= n
        <5>1. q[i] \in Nat /\ capture.held < q[i] /\ q[i] < n
          BY <1>11, <1>12
        <5>2. q[i] <= n
          BY <4>1, <5>1
        <5> QED BY <3>1, <5>1, <5>2
      <4> QED BY <3>1, <3>3, <4>1, <4>2
    <3>5. ASSUME NEW i \in 1..Len(z), NEW j \in 1..Len(z), i < j PROVE z[i] < z[j]
      <4>1. i \in 1..Len(q)
        BY <3>1, <3>5
      <4> QED BY <1>11, <1>12, <3>1, <3>3, <3>5, <4>1
    <3>6. ASSUME NEW m \in Nat, m <= capture.callbacks, \A i \in 1..Len(q) : m < q[i]
          PROVE  \A i \in 1..Len(z) : m < z[i]
      BY <1>4, <1>6, <3>1, <3>3, <3>6
    <3> QED BY <3>2, <3>4, <3>5, <3>6
  <2> QED BY <1>5, <2>1, <2>2
<1>14. Captured'
  <2>1. capture.held <= n
    BY <1>4, <1>6, <1>11
  <2> QED BY <1>1, <1>2, <1>3, <1>5, <1>13, <2>1 DEF Captured, Capturing
<1>15. ASSUME NEW m \in Nat, Later(m) PROVE Later(m)'
  <2>1. /\ m <= capture.callbacks /\ (capture.held # 0 => m < capture.held)
        /\ \A i \in 1..Len(q) : m < q[i]
    BY <1>15 DEF Later, q
  <2>2. m <= n /\ \A i \in 1..Len(capture'.queue) : m < capture'.queue[i]
    BY <1>4, <1>6, <1>13, <2>1
  <2> QED BY <1>5, <2>1, <2>2 DEF Later
<1>16. Number(Flight', "event") = Number(Flight, "event")
       /\ Number(Flight', "live_event") = Number(Flight, "live_event")
  BY <1>7, NumberSame
<1>17. Gaps = {}
  BY <1>2 DEF SessionInv, Counted
<1>18. Counted'
  <2>1. Later(responses.captureSequence)'
    BY <1>2, <1>3, <1>15, Fields DEF SessionInv, Counted
  <2>2. ASSUME NEW f \in Flight, f.type = "live_event", f.n # 0 PROVE Later(f.n)'
    <3>1. f.n \in Nat
      BY <2>2, FlightFacts, FrameFields DEF SessionInv, EventTypes
    <3> QED BY <1>2, <1>15, <2>2, <3>1 DEF SessionInv, Counted
  <2> QED BY <1>2, <1>3, <1>5, <1>7, <1>9, <1>16, <1>17, <2>1, <2>2 DEF SessionInv, Counted
<1>19. Accounts'
  <2> DEFINE E == {}
  <2>1. Flight' = Flight \cup E /\ \A f \in E : f.type # "result"
    BY <1>7
  <2>2. Legacy => capture'.emitted = EventsReceived + Number(Flight', "event") + capture'.dropped
    BY <1>2, <1>5, <1>16 DEF SessionInv, Accounts
  <2>3. FinalPhase \in {"startup", "running"}
    BY <1>2, CapturingFacts
  <2> HIDE DEF E
  <2> QED BY <1>3, <2>1, <2>2, <2>3, AccountsBusy
<1> QED BY <1>7, <1>8, <1>9, <1>10, <1>14, <1>18, <1>19 DEF SessionInv

LEMMA NativeReturnsStep ==
    ASSUME SessionInv, NativeReturns
    PROVE  SessionInv'
<1>1. /\ worker.at = "native" /\ worker' = [worker EXCEPT !.at = "joining"]
      /\ capture' = [capture EXCEPT !.closed = TRUE]
      /\ UNCHANGED <<out, pipe, commands, parentVars>>
  BY DEF NativeReturns
<1>2. Capturing
  BY <1>1 DEF Capturing
<1>3. /\ commands' = commands /\ responses' = responses /\ pipe' = pipe
      /\ reader' = reader /\ inbox' = inbox /\ main' = main /\ tally' = tally
  BY <1>1 DEF parentVars
<1>4. /\ worker' \in Workers /\ worker'.at = "joining" /\ worker'.role = worker.role
      /\ worker'.run = worker.run /\ worker'.count = worker.count
      /\ (worker'.failed = worker.failed) /\ (worker'.cut = worker.cut)
  BY <1>1 DEF SessionInv, Types, Workers
<1>5. /\ capture' \in Captures /\ capture'.closed
      /\ capture'.queue = capture.queue /\ capture'.callbacks = capture.callbacks
      /\ capture'.held = capture.held /\ capture'.parser = capture.parser
      /\ capture'.emitted = capture.emitted /\ capture'.captureDropped = capture.captureDropped
      /\ capture'.retentionDropped = capture.retentionDropped
      /\ capture'.dropped = capture.dropped /\ capture'.liveEmitted = capture.liveEmitted
      /\ capture'.liveDropped = capture.liveDropped
  BY <1>1 DEF SessionInv, Types, Captures
<1>6. /\ Numbered' /\ Ordered' /\ Ahead' /\ EventsAhead' /\ LivesAhead' /\ ResultAhead'
      /\ Rounds' /\ Endings' /\ Flight' = Flight /\ Received' = Received
      /\ out' \in Outs /\ Gaps' = Gaps
      /\ FinalPhase' = FinalPhase /\ FinalRuns' = FinalRuns
      /\ FinalFailed' <=> FinalFailed
  BY <1>1, <1>2, <1>4, CapturingFacts, Quiet
<1>7. Types'
  BY <1>3, <1>4, <1>5, <1>6 DEF SessionInv, Types
<1>8. Places'
  BY <1>1, <1>3, <1>4, <1>6 DEF SessionInv, Places
<1>9. Captured'
  BY <1>1, <1>4, <1>5 DEF SessionInv, Captured, Capturing
<1>10. /\ Number(Flight', "event") = Number(Flight, "event")
       /\ Number(Flight', "live_event") = Number(Flight, "live_event")
  BY <1>6, NumberSame
<1>11. \A m \in Nat : Later(m) => Later(m)'
  BY <1>5 DEF Later
<1>12. Counted'
  <2>1. Later(responses.captureSequence)'
    BY <1>2, <1>3, <1>11, Fields DEF SessionInv, Counted
  <2>2. ASSUME NEW f \in Flight, f.type = "live_event", f.n # 0 PROVE Later(f.n)'
    <3>1. f.n \in Nat
      BY <2>2, FlightFacts, FrameFields DEF SessionInv, EventTypes
    <3> QED BY <1>2, <1>11, <2>2, <3>1 DEF SessionInv, Counted
  <2> QED BY <1>2, <1>3, <1>5, <1>6, <1>10, <2>1, <2>2 DEF SessionInv, Counted
<1>13. Accounts'
  <2> DEFINE E == {}
  <2>1. Flight' = Flight \cup E /\ \A f \in E : f.type # "result"
    BY <1>6
  <2>2. Legacy => capture'.emitted = EventsReceived + Number(Flight', "event") + capture'.dropped
    BY <1>2, <1>5, <1>10 DEF SessionInv, Accounts
  <2>3. FinalPhase \in {"startup", "running"}
    BY <1>2, CapturingFacts
  <2> HIDE DEF E
  <2> QED BY <1>3, <2>1, <2>2, <2>3, AccountsBusy
<1> QED BY <1>6, <1>7, <1>8, <1>9, <1>12, <1>13 DEF SessionInv

\* An exception in the child's main thread.
LEMMA FailStep ==
    ASSUME SessionInv, worker.at \in {"setup", "joining"}, worker' = Failing,
           UNCHANGED <<out, pipe, commands, parentVars>>,
           capture' \in Captures, capture'.held = 0, capture'.queue = <<>>,
           capture'.parser = "done" \/ (capture'.parser = "running" /\ ~capture'.closed)
    PROVE  SessionInv'
<1>1. /\ commands' = commands /\ responses' = responses /\ pipe' = pipe
      /\ reader' = reader /\ inbox' = inbox /\ main' = main /\ tally' = tally
  BY DEF parentVars
<1>2. /\ worker' \in Workers /\ worker'.at = "error" /\ worker'.role = worker.role
      /\ worker'.run = worker.run /\ worker'.count = worker.count
      /\ worker'.failed /\ (worker'.cut = worker.cut)
  <2>1. worker \in Workers
    BY DEF SessionInv, Types
  <2> QED BY <2>1 DEF Workers, Failing
<1>3. responses.run = worker.run /\ ~worker.failed /\ ~worker.cut
      /\ FinalPhase \in {"startup", "running"}
  BY DEF SessionInv, Places
<1>4. /\ Numbered' /\ Ordered' /\ Ahead' /\ EventsAhead' /\ LivesAhead' /\ ResultAhead'
      /\ Rounds' /\ Endings' /\ Flight' = Flight /\ Received' = Received
      /\ out' \in Outs /\ Gaps' = Gaps
      /\ FinalPhase' = FinalPhase /\ FinalRuns' = FinalRuns
      /\ FinalFailed' <=> FinalFailed
  BY <1>2, <1>3, Quiet
<1>5. Types'
  BY <1>1, <1>2, <1>4 DEF SessionInv, Types
<1>6. Places'
  <2>1. ~FinalFailed /\ worker.count = FinalRuns
    BY <1>3 DEF SessionInv, Places
  <2> QED BY <1>1, <1>2, <1>3, <1>4, <2>1 DEF Places
<1>7. Captured'
  <2>1. capture'.callbacks \in Nat
    BY DEF Captures
  <2> QED BY <1>2, <2>1 DEF Captured
<1>8. Counted' /\ ~Capturing'
  BY <1>2 DEF Counted, Capturing
<1>9. Accounts'
  <2> DEFINE E == {}
  <2>1. Flight' = Flight \cup E /\ \A f \in E : f.type # "result"
    BY <1>4
  <2> HIDE DEF E
  <2> QED BY <1>1, <1>3, <1>8, <2>1, AccountsBusy
<1> QED BY <1>4, <1>5, <1>6, <1>7, <1>8, <1>9 DEF SessionInv

LEMMA ParserFailsStep ==
    ASSUME SessionInv, ParserFails
    PROVE  SessionInv'
<1>1. /\ worker.at = "joining" /\ worker' = Failing /\ UNCHANGED <<out, pipe, commands, parentVars>>
      /\ capture' = [capture EXCEPT !.parser = "done", !.queue = <<>>, !.held = 0]
  BY DEF ParserFails
<1>2. capture' \in Captures /\ capture'.held = 0 /\ capture'.queue = <<>> /\ capture'.parser = "done"
  <2>1. capture \in Captures /\ <<>> \in Seq(Nat)
    BY DEF SessionInv, Types
  <2> QED BY <1>1, <2>1 DEF Captures
<1> QED BY <1>1, <1>2, FailStep

LEMMA RunFailsStep ==
    ASSUME SessionInv, RunFails
    PROVE  SessionInv'
<1>1. /\ worker.at = "joining" /\ capture.parser = "done" /\ worker' = Failing
      /\ capture' = capture /\ UNCHANGED <<out, pipe, commands, parentVars>>
  BY DEF RunFails, Joined
<1>2. capture \in Captures /\ capture.held = 0 /\ capture.queue = <<>>
  BY <1>1 DEF SessionInv, Types, Captured
<1> QED BY <1>1, <1>2, FailStep

\* The parser is given up: what it still emits is not refused.
LEMMA ParserUnsettledStep ==
    ASSUME SessionInv, ParserUnsettled
    PROVE  SessionInv'
<1>1. /\ worker.at = "joining" /\ capture' = capture
      /\ worker' = [worker EXCEPT !.at = "unsettled", !.failed = TRUE, !.cut = TRUE]
      /\ UNCHANGED <<out, pipe, commands, parentVars>>
  BY DEF ParserUnsettled
<1>2. Capturing
  BY <1>1 DEF Capturing
<1>3. /\ commands' = commands /\ responses' = responses /\ pipe' = pipe
      /\ reader' = reader /\ inbox' = inbox /\ main' = main /\ tally' = tally
  BY <1>1 DEF parentVars
<1>4. /\ worker' \in Workers /\ worker'.at = "unsettled" /\ worker'.role = worker.role
      /\ worker'.run = worker.run /\ worker'.count = worker.count
      /\ worker'.failed /\ worker'.cut
  BY <1>1 DEF SessionInv, Types, Workers
<1>5. /\ Numbered' /\ Ordered' /\ Ahead' /\ EventsAhead' /\ LivesAhead' /\ ResultAhead'
      /\ Rounds' /\ Endings' /\ Flight' = Flight /\ Received' = Received
      /\ out' \in Outs /\ Gaps' = Gaps /\ FinalPhase' = FinalPhase
  BY <1>1, <1>2, <1>4, CapturingFacts, Quiet
<1>6. Types'
  BY <1>1, <1>3, <1>4, <1>5 DEF SessionInv, Types
<1>7. Places'
  BY <1>1, <1>3, <1>4, <1>5 DEF SessionInv, Places
<1>8. Captured'
  BY <1>1, <1>4 DEF SessionInv, Captured, Capturing
<1>9. /\ Number(Flight', "event") = Number(Flight, "event")
      /\ Number(Flight', "live_event") = Number(Flight, "live_event")
  BY <1>5, NumberSame
<1>10. Counted'
  <2>1. \A m \in Nat : Later(m) => Later(m)'
    BY <1>1 DEF Later
  <2>2. Later(responses.captureSequence)'
    BY <1>2, <1>3, <2>1, Fields DEF SessionInv, Counted
  <2>3. ASSUME NEW f \in Flight, f.type = "live_event", f.n # 0 PROVE Later(f.n)'
    <3>1. f.n \in Nat
      BY <2>3, FlightFacts, FrameFields DEF SessionInv, EventTypes
    <3> QED BY <1>2, <2>1, <2>3, <3>1 DEF SessionInv, Counted
  <2> QED BY <1>1, <1>2, <1>3, <1>5, <1>9, <2>2, <2>3 DEF SessionInv, Counted
<1>11. Accounts'
  <2> DEFINE E == {}
  <2>1. Flight' = Flight \cup E /\ \A f \in E : f.type # "result"
    BY <1>5
  <2>2. Legacy => capture'.emitted = EventsReceived + Number(Flight', "event") + capture'.dropped
    BY <1>1, <1>2, <1>9 DEF SessionInv, Accounts
  <2>3. FinalPhase \in {"startup", "running"}
    BY <1>2, CapturingFacts
  <2> HIDE DEF E
  <2> QED BY <1>3, <2>1, <2>2, <2>3, AccountsBusy
<1> QED BY <1>5, <1>6, <1>7, <1>8, <1>10, <1>11 DEF SessionInv

-----------------------------------------------------------------------------
(* Control frames fit in the queues                                        *)

LEMMA ControlsFew ==
    ASSUME NEW s \in Seq(Frame), NEW t \in ControlTypes,
           \A i \in 1..Len(s) : s[i].type # t,
           \A i, j \in 1..Len(s) : i < j => s[i].type # s[j].type \/ s[i].type \in EventTypes
    PROVE  ControlsIn(s) < MaxPendingControls
<1> DEFINE n == Len(s)  D == 1..n  A == {i \in DOMAIN s : s[i].type \in EventTypes}
           B == D \ A  T == ControlTypes \ {t}
<1>1. n \in Nat /\ DOMAIN s = D
  OBVIOUS
<1>2. IsFiniteSet(D) /\ Cardinality(D) = n
  BY <1>1, FS_Interval
<1>3. A \subseteq D /\ \A i \in B : s[i] \in Frame /\ s[i].type \notin EventTypes
  BY <1>1
<1>4. \A i \in B : s[i].type \in T
  BY <1>3, FrameFields DEF AllTypes
<1>5. IsFiniteSet(T) /\ Cardinality(T) = 3
  <2> DEFINE S1 == {"ready"}  S2 == S1 \cup {"result"}  S3 == S2 \cup {"error"}
             S4 == S3 \cup {"terminal"}
  <2>1. IsFiniteSet(S1) /\ Cardinality(S1) = 1
    BY FS_Singleton
  <2>2. "result" \notin S1 /\ "error" \notin S2 /\ "terminal" \notin S3 /\ ControlTypes = S4
    BY DEF ControlTypes
  <2> HIDE DEF S1
  <2>3. IsFiniteSet(S2) /\ Cardinality(S2) = 2
    BY <2>1, <2>2, FS_AddElement
  <2> HIDE DEF S2
  <2>4. IsFiniteSet(S3) /\ Cardinality(S3) = 3
    BY <2>2, <2>3, FS_AddElement
  <2> HIDE DEF S3
  <2>5. IsFiniteSet(S4) /\ Cardinality(S4) = 4
    BY <2>2, <2>4, FS_AddElement
  <2> HIDE DEF S4
  <2>6. IsFiniteSet(ControlTypes) /\ Cardinality(ControlTypes) = 4
    BY <2>2, <2>5
  <2> QED BY <2>6, FS_RemoveElement
<1>6. IsFiniteSet(A) /\ IsFiniteSet(B) /\ Cardinality(B) = n - Cardinality(A)
  <2>1. D \cap A = A
    BY <1>3
  <2>2. IsFiniteSet(B) /\ Cardinality(B) = Cardinality(D) - Cardinality(D \cap A)
    BY <1>2, FS_Difference
  <2>3. IsFiniteSet(A)
    BY <1>2, <1>3, FS_Subset
  <2> HIDE DEF A, B, D, n
  <2>4. Cardinality(D \cap A) = Cardinality(A)
    BY Zenon, <2>1
  <2> QED BY <1>2, <2>2, <2>3, <2>4
<1>7. Cardinality(B) \in Nat /\ Cardinality(A) \in Nat
  BY <1>6, FS_CardinalityType
<1>8. ControlsIn(s) = Cardinality(B)
  BY <1>6 DEF ControlsIn, EventsIn, Count
<1>9. ~(Cardinality(T) < Cardinality(B))
  <2> SUFFICES ASSUME Cardinality(T) < Cardinality(B) PROVE FALSE
    OBVIOUS
  <2> DEFINE m == [i \in B |-> s[i].type]
  <2>1. m \in [B -> T]
    BY <1>4
  <2>2. \A i \in B : m[i] = s[i].type
    OBVIOUS
  <2>3. \A i, j \in B : i # j => s[i].type # s[j].type
    <3>1. \A i, j \in B : i # j => i < j \/ j < i
      BY <1>1
    <3> QED BY <1>1, <1>3, <3>1
  <2> HIDE DEF m, B, T
  <2>4. \E i, j \in B : i # j /\ m[i] = m[j]
    BY <1>5, <1>6, <2>1, FS_PigeonHole
  <2> QED BY <2>2, <2>3, <2>4
<1>10. Cardinality(B) < 4
  BY <1>5, <1>7, <1>9
<1> QED BY <1>8, <1>10 DEF MaxPendingControls

LEMMA ControlOnce ==
    ASSUME SessionInv, NEW f \in Received \cup Flight, NEW g \in Received \cup Flight,
           f # g, f.type \notin EventTypes
    PROVE  f.type # g.type
<1>1. f.sequence \in Nat /\ g.sequence \in Nat /\ f.sequence # g.sequence
  BY FlightFacts DEF SessionInv
<1>2. f.type \in AllTypes
  BY FlightFacts DEF SessionInv
<1>3. CASE f.sequence < g.sequence
  BY <1>2, <1>3 DEF SessionInv, Ordered, Precedes, AllTypes, ControlTypes
<1>4. CASE g.sequence < f.sequence
  BY <1>2, <1>4 DEF SessionInv, Ordered, Precedes, AllTypes, ControlTypes
<1> QED BY <1>1, <1>3, <1>4

\* A control frame that may follow everything is never refused by the child's queue.
LEMMA ControlFitsOut ==
    ASSUME SessionInv, worker.at # "exited", NEW t \in ControlTypes, ~Sent(t)
    PROVE  ControlFits
<1> DEFINE s == out.frames
<1>1. s \in Seq(Frame) /\ ~out.closed /\ responses.incoming \in Nat /\ Len(pipe) \in Nat
  BY Fields DEF SessionInv, Numbered
<1>2. \A i \in 1..Len(s) : s[i] \in Flight
  BY DEF Flight, Members
<1>3. \A i \in 1..Len(s) : s[i].type # t
  BY <1>2 DEF Sent
<1>4. \A i \in 1..Len(s) : s[i].sequence = responses.incoming + Len(pipe) + i
  BY DEF SessionInv, Numbered
<1>5. \A i, j \in 1..Len(s) : i < j => s[i].type # s[j].type \/ s[i].type \in EventTypes
  <2> SUFFICES ASSUME NEW i \in 1..Len(s), NEW j \in 1..Len(s), i < j, s[i].type \notin EventTypes
               PROVE s[i].type # s[j].type
    OBVIOUS
  <2>1. s[i] # s[j]
    <3>1. s[i].sequence # s[j].sequence
      BY <1>1, <1>4
    <3> QED BY <3>1
  <2> QED BY <1>2, <2>1, ControlOnce
<1> HIDE DEF s
<1>6. ControlsIn(s) < MaxPendingControls
  BY <1>1, <1>3, <1>5, ControlsFew
<1> QED BY <1>1, <1>6 DEF ControlFits, s

LEMMA ControlFitsInbox ==
    ASSUME SessionInv, NEW f \in Flight
    PROVE  InboxTakes(f)
<1> DEFINE s == inbox.frames
<1>1. s \in Seq(Frame) /\ f \in Frame
  BY Fields, FlightFacts DEF SessionInv
<1>2. \A i \in 1..Len(s) : s[i] \in Received
  BY DEF Received, Members
<1>3. CASE f.type \in EventTypes
  BY <1>3 DEF InboxTakes
<1>4. CASE f.type \notin EventTypes
  <2>1. \A i \in 1..Len(s) : s[i].type # f.type
    <3>1. \A g \in Received : g # f
      BY FlightFacts DEF SessionInv
    <3>2. \A g \in Received : f.type # g.type
      BY <1>4, <3>1, ControlOnce
    <3> QED BY <1>2, <3>2
  <2>2. \A i, j \in 1..Len(s) : i < j => s[i].type # s[j].type \/ s[i].type \in EventTypes
    <3> SUFFICES ASSUME NEW i \in 1..Len(s), NEW j \in 1..Len(s), i < j,
                        s[i].type \notin EventTypes
                 PROVE s[i].type # s[j].type
      OBVIOUS
    <3>1. s[i] # s[j]
      <4>1. s[i].sequence < s[j].sequence /\ s[i].sequence \in Nat
        BY <1>2, FlightFacts DEF SessionInv, Numbered
      <4> QED BY <4>1
    <3> QED BY <1>2, <3>1, ControlOnce
  <2>3. f.type \in ControlTypes
    BY <1>1, <1>4, FrameFields DEF AllTypes
  <2> HIDE DEF s
  <2>4. ControlsIn(s) < MaxPendingControls
    BY <1>1, <2>1, <2>2, <2>3, ControlsFew
  <2> QED BY <2>4 DEF InboxTakes, s
<1> QED BY <1>3, <1>4

-----------------------------------------------------------------------------
(* Control frames of the child                                             *)

LEMMA SentOne ==
    ASSUME NEW f, Flight' = Flight \cup {f}
    PROVE  /\ Sent("ready")' <=> (Sent("ready") \/ f.type = "ready")
           /\ Sent("result")' <=> (Sent("result") \/ f.type = "result")
           /\ Sent("error")' <=> (Sent("error") \/ f.type = "error")
           /\ Sent("terminal")' <=> (Sent("terminal") \/ f.type = "terminal")
  BY DEF Sent

\* What every control frame of the child leaves alone.
LEMMA ControlEmitted ==
    ASSUME SessionInv, worker.at \notin {"command", "exited"},
           worker'.at \notin {"setup", "exited"}, worker'.role = worker.role,
           worker'.run = worker.run, worker'.cut = worker.cut,
           UNCHANGED <<pipe, commands, parentVars>>,
           NEW f \in Frame, f.sequence = NextSequence, f.type \in ControlTypes,
           \A g \in Received \cup Flight : Precedes(g, f), out' = Queued(f)
    PROVE  /\ out' \in Outs /\ Numbered' /\ Ordered' /\ Flight' = Flight \cup {f}
           /\ Received' = Received /\ f \notin Flight /\ responses' = responses
           /\ EventsAhead' /\ LivesAhead' /\ Endings' /\ Gaps' = Gaps
           /\ Number(Flight', "event") = Number(Flight, "event")
           /\ Number(Flight', "live_event") = Number(Flight, "live_event")
           /\ EventsReceived' = EventsReceived /\ LivesReceived' = LivesReceived
<1>1. /\ pipe' = pipe /\ commands' = commands /\ responses' = responses
      /\ reader' = reader /\ inbox' = inbox /\ main' = main /\ tally' = tally
  BY DEF parentVars
<1>2. /\ out' \in Outs /\ Numbered' /\ Ordered' /\ Flight' = Flight \cup {f}
      /\ Received' = Received /\ f \notin Flight
  BY <1>1, Emits DEF SessionInv
<1>3. f.type \notin EventTypes
  BY DEF ControlTypes, EventTypes
<1>4. EventsAhead'
  BY <1>1, <1>2, <1>3 DEF SessionInv, EventsAhead, EventTypes
<1>5. LivesAhead'
  BY <1>1, <1>2, <1>3 DEF SessionInv, LivesAhead, EventTypes
<1>6. Gaps' = Gaps
  <2>1. f.type # "live_event"
    BY <1>3 DEF EventTypes
  <2> QED BY <1>1, <1>2, <2>1 DEF Gaps
<1>7. Endings'
  BY <1>1, Unasked DEF SessionInv, Endings
<1>8. /\ Number(Flight \cup {f}, "event") = Number(Flight, "event")
      /\ Number(Flight \cup {f}, "live_event") = Number(Flight, "live_event")
  BY <1>2, <1>3, NumberMore, FlightFacts DEF SessionInv, EventTypes
<1>9. /\ Number(Flight', "event") = Number(Flight, "event")
      /\ Number(Flight', "live_event") = Number(Flight, "live_event")
  BY Zenon, <1>2, <1>8
<1> QED BY <1>1, <1>2, <1>4, <1>5, <1>6, <1>7, <1>9, ReceivedSame

\* The first run is announced, or a later one begins.
LEMMA RunStarts ==
    ASSUME SessionInv, worker.at = "setup", worker' = [worker EXCEPT !.at = "native"],
           capture' = NewCapture, UNCHANGED <<pipe, commands, parentVars>>,
           out' \in Outs, Numbered', Ordered',
           \/ worker.run # 1 /\ Flight' = {}
           \/ \E f \in Envelope : /\ worker.run = 1 /\ Flight' = {f} /\ f.type = "ready"
                                  /\ f.run = worker.run
    PROVE  SessionInv'
<1>1. /\ pipe' = pipe /\ commands' = commands /\ responses' = responses
      /\ reader' = reader /\ inbox' = inbox /\ main' = main /\ tally' = tally
  BY DEF parentVars
<1>2. Fresh /\ Received = {}
  BY Unasked DEF Fresh, Received, Members
<1>3. /\ worker' \in Workers /\ worker'.at = "native" /\ worker'.role = worker.role
      /\ worker'.run = worker.run /\ worker'.count = worker.count
      /\ (worker'.failed = worker.failed) /\ (worker'.cut = worker.cut)
  BY DEF SessionInv, Types, Workers
<1>4. /\ ~worker.failed /\ ~worker.cut /\ ~FinalFailed /\ worker.count = FinalRuns
      /\ FinalPhase = IF worker.run = 1 THEN "startup" ELSE "running"
      /\ responses.run = worker.run /\ worker.count + 1 = worker.run /\ main.count = worker.count
  BY DEF SessionInv, Places
<1>5. ~Sent("ready") /\ ~Sent("result") /\ ~Sent("error") /\ ~Sent("terminal")
  BY <1>2 DEF Fresh, Sent
<1>6. FinalPhase = responses.phase /\ FinalRuns = responses.runs /\ ~responses.failed
  BY <1>4, <1>5 DEF FinalPhase, FinalRuns, FinalFailed
<1>7. \A f \in Flight' : f.type = "ready" /\ f.run = worker.run /\ worker.run = 1
  OBVIOUS
<1>8. /\ Sent("ready")' <=> worker.run = 1
      /\ ~Sent("result")' /\ ~Sent("error")' /\ ~Sent("terminal")'
  BY <1>7 DEF Sent
<1>9. FinalPhase' = "running" /\ FinalRuns' = responses.runs /\ ~FinalFailed'
  <2>1. FinalPhase' = "running"
    BY <1>1, <1>4, <1>6, <1>8 DEF FinalPhase
  <2>2. FinalRuns' = responses.runs /\ ~FinalFailed'
    BY <1>1, <1>6, <1>8 DEF FinalRuns, FinalFailed
  <2> QED BY <2>1, <2>2
<1>10. capture' \in Captures
  <2>1. <<>> \in Seq(Nat)
    OBVIOUS
  <2> QED BY <2>1 DEF NewCapture, Captures
<1>11. Types'
  BY <1>1, <1>3, <1>10 DEF SessionInv, Types
<1>12. Ahead'
  BY <1>1, <1>3, <1>4, <1>6, <1>7 DEF Ahead, EventTypes
<1>13. EventsAhead' /\ LivesAhead' /\ ResultAhead'
  BY <1>7 DEF EventsAhead, LivesAhead, ResultAhead
<1>14. Places'
  BY <1>1, <1>3, <1>4, <1>6, <1>9 DEF Places
<1>15. /\ capture'.held = 0 /\ capture'.queue = <<>> /\ capture'.parser = "running"
       /\ ~capture'.closed /\ capture'.callbacks = 0 /\ capture'.emitted = 0
       /\ capture'.dropped = 0 /\ capture'.liveEmitted = 0 /\ capture'.liveDropped = 0
  BY DEF NewCapture
<1>16. Captured'
  BY <1>3, <1>15 DEF Captured
<1>17. Number(Flight', "event") = 0 /\ Number(Flight', "live_event") = 0
  BY <1>7, NumberNone
<1>18. Gaps' = {}
  BY <1>1, <1>2, <1>7 DEF Gaps, Fresh
<1>19. Counted'
  <2>1. Later(responses.captureSequence)'
    BY <1>1, <1>2, <1>15 DEF Fresh, Later
  <2> QED BY <1>1, <1>2, <1>7, <1>15, <1>17, <1>18, <2>1 DEF Fresh, Counted
<1>20. Accounts'
  <2>1. Number(Received, "event") = 0 /\ Number(Received, "live_event") = 0
    BY <1>2, NumberNone
  <2>2. EventsReceived = 0 /\ LivesReceived = 0
    BY <1>2, <2>1 DEF Fresh, EventsReceived, LivesReceived
  <2>3. EventsReceived' = 0 /\ LivesReceived' = 0 /\ Received' = {}
    BY <1>1, <1>2, <2>2, ReceivedSame
  <2> QED BY <1>1, <1>2, <1>7, <1>15, <1>17, <2>3 DEF Accounts, Fresh
<1>21. Rounds'
  <2>1. Received' = Received
    BY <1>1 DEF Received
  <2>2. Number(Received', "result") = Number(Received, "result")
    BY <2>1, NumberSame
  <2> QED BY <1>1, <1>2, <1>3, <1>4, <2>1, <2>2, RoundsBusy, Unasked
<1>22. Endings'
  BY <1>1, <1>3, Unasked DEF SessionInv, Endings
<1> QED BY <1>11, <1>12, <1>13, <1>14, <1>16, <1>19, <1>20, <1>21, <1>22 DEF SessionInv

LEMMA SetupStep ==
    ASSUME SessionInv, Setup
    PROVE  SessionInv'
<1> DEFINE f == [type |-> "ready", sequence |-> NextSequence, run |-> 1]
           running == [worker EXCEPT !.at = "native"]
<1>1. /\ worker.at = "setup" /\ UNCHANGED <<pipe, commands, parentVars>>
      /\ \/ capture' = NewCapture /\ worker.run = 1 /\ EmitControl(f, running, Failing)
         \/ capture' = NewCapture /\ worker.run # 1 /\ worker' = running /\ UNCHANGED out
         \/ worker' = Failing /\ UNCHANGED <<capture, out>>
  BY DEF Setup
<1>2. /\ f \in Envelope /\ f.sequence = NextSequence /\ f.type = "ready" /\ f.run = 1
  <2>1. out.sequence \in Nat
    BY Fields DEF SessionInv
  <2> QED BY <2>1 DEF Envelope, NextSequence
<1>3. Fresh /\ Received = {} /\ Flight = {}
  BY <1>1, Unasked DEF Fresh, Received, Members
<1>4. /\ running.at = "native" /\ running \in Workers
  BY DEF SessionInv, Types, Workers
<1>5. UNCHANGED <<pipe, responses, inbox>>
  BY <1>1 DEF parentVars
<1> HIDE DEF f, running
<1>6. CASE capture' = NewCapture /\ worker.run = 1 /\ EmitControl(f, running, Failing)
  <2>1. CASE ControlFits
    <3>1. out' = Queued(f) /\ worker' = running
      BY <1>6, <2>1 DEF EmitControl
    <3>2. f \in Frame
      BY <1>2 DEF Frame
    <3>3. out' \in Outs /\ Numbered' /\ Ordered' /\ Flight' = Flight \cup {f}
      BY <1>1, <1>2, <1>3, <1>4, <1>5, <3>1, <3>2, Emits DEF SessionInv
    <3>4. Flight' = {f} /\ worker' = [worker EXCEPT !.at = "native"]
      BY <1>3, <3>1, <3>3 DEF running
    <3> QED BY <1>1, <1>2, <1>6, <3>3, <3>4, RunStarts
  <2>2. CASE ~ControlFits
    <3>1. UNCHANGED out /\ worker' = Failing
      BY <1>6, <2>2 DEF EmitControl
    <3>2. /\ capture' \in Captures /\ capture'.held = 0 /\ capture'.queue = <<>>
          /\ capture'.parser = "running" /\ ~capture'.closed
      <4>1. <<>> \in Seq(Nat)
        OBVIOUS
      <4> QED BY <1>6, <4>1 DEF NewCapture, Captures
    <3> QED BY <1>1, <3>1, <3>2, FailStep
  <2> QED BY <2>1, <2>2
<1>7. CASE capture' = NewCapture /\ worker.run # 1 /\ worker' = running /\ UNCHANGED out
  <2>1. out' \in Outs /\ Numbered' /\ Ordered' /\ Flight' = Flight
    <3>1. Flight' = Flight /\ Received' = Received
      BY <1>5, <1>7 DEF Flight, Received
    <3>2. Numbered'
      BY <1>1, <1>4, <1>5, <1>7, <3>1 DEF SessionInv, Numbered
    <3>3. Ordered'
      BY <3>1 DEF SessionInv, Ordered
    <3> QED BY <1>7, <3>1, <3>2, <3>3 DEF SessionInv, Types
  <2> QED BY <1>1, <1>3, <1>7, <2>1, RunStarts DEF running
<1>8. CASE worker' = Failing /\ UNCHANGED <<capture, out>>
  <2>1. /\ capture' \in Captures /\ capture'.held = 0 /\ capture'.queue = <<>>
        /\ capture'.parser = "done" \/ (capture'.parser = "running" /\ ~capture'.closed)
    BY <1>1, <1>8 DEF SessionInv, Types, Captured, Capturing
  <2> QED BY <1>1, <1>8, <2>1, FailStep
<1> QED BY <1>1, <1>6, <1>7, <1>8

LEMMA PublishStep ==
    ASSUME SessionInv, Publish
    PROVE  SessionInv'
<1> DEFINE f == ResultFrame
           at == IF worker.role = "client" THEN "terminal" ELSE "command"
<1>1. /\ worker.at = "joining" /\ capture.parser = "done"
      /\ UNCHANGED <<capture, pipe, commands, parentVars>>
      /\ EmitControl(f, [worker EXCEPT !.count = @ + 1, !.at = at], Failing)
  BY DEF Publish, Joined
<1>2. Capturing
  BY <1>1 DEF Capturing
<1>3. /\ pipe' = pipe /\ commands' = commands /\ responses' = responses /\ capture' = capture
      /\ reader' = reader /\ inbox' = inbox /\ main' = main /\ tally' = tally
  BY <1>1 DEF parentVars
<1>4. capture.queue = <<>> /\ capture.held = 0
  BY <1>1 DEF SessionInv, Captured
<1>5. CASE ~ControlFits
  <2>1. UNCHANGED out /\ worker' = Failing
    BY <1>1, <1>5 DEF EmitControl
  <2>2. /\ capture' \in Captures /\ capture'.held = 0 /\ capture'.queue = <<>>
        /\ capture'.parser = "done"
    BY <1>1, <1>3, <1>4 DEF SessionInv, Types
  <2> QED BY <1>1, <2>1, <2>2, FailStep
<1>6. CASE ControlFits
  <2>1. out' = Queued(f) /\ worker' = [worker EXCEPT !.count = worker.count + 1, !.at = at]
    BY <1>1, <1>6 DEF EmitControl
  <2>2. /\ worker.run \in Nat /\ worker.count \in Nat /\ worker.count + 1 \in Nat
        /\ worker \in Workers /\ worker.role \in {"client", "server"}
    <3>1. worker \in Workers
      BY DEF SessionInv, Types
    <3>2. worker.run \in Nat /\ worker.count \in Nat /\ worker.role \in {"client", "server"}
      BY <3>1 DEF Workers
    <3> QED BY <3>1, <3>2
  <2>3. /\ worker' \in Workers /\ worker'.at = at /\ worker'.role = worker.role
        /\ worker'.run = worker.run /\ worker'.count = worker.count + 1
        /\ (worker'.failed = worker.failed) /\ (worker'.cut = worker.cut)
        /\ at \in {"terminal", "command"}
    BY <2>1, <2>2 DEF Workers
  <2>4. /\ f \in Result /\ f.type = "result" /\ f.sequence = NextSequence /\ f.run = worker.run
        /\ f.emitted = capture.emitted /\ f.dropped = capture.dropped
        /\ f.liveEmitted = capture.liveEmitted /\ f.liveDropped = capture.liveDropped
        /\ f.callbacks = capture.callbacks /\ f.capture = capture.captureDropped
        /\ f.retention = capture.retentionDropped
    <3>1. out.sequence \in Nat
      BY Fields DEF SessionInv
    <3> QED BY <2>2, <3>1, CaptureFields DEF SessionInv, Result, ResultFrame, NextSequence
  <2>5. at = "terminal" <=> worker.role = "client"
    BY <2>2
  <2> HIDE DEF f, at
  <2>6. /\ worker.at \notin {"setup", "command", "error", "terminal", "close", "exited"}
        /\ FinalPhase = "running" /\ responses.run = worker.run /\ ~worker.cut
        /\ main.count = worker.count /\ worker.count + 1 = worker.run
        /\ main.at = "loop" /\ commands = <<>>
    BY <1>1, <1>2, CapturingFacts DEF SessionInv, Places
  <2>7. /\ responses.phase \in {"startup", "running"}
        /\ \A g \in Received \cup Flight : g.type \in EventTypes \cup {"ready"}
        /\ responses.phase = "running" \/ Sent("ready")
    BY <2>6, Calm
  <2>8. /\ ~worker.failed /\ ~FinalFailed /\ worker.count = FinalRuns
    BY <1>1, <2>6 DEF SessionInv, Places
  <2>9. /\ out' \in Outs /\ Numbered' /\ Ordered' /\ Flight' = Flight \cup {f}
        /\ Received' = Received /\ f \notin Flight
        /\ EventsAhead' /\ LivesAhead' /\ Endings' /\ Gaps' = Gaps
        /\ Number(Flight', "event") = Number(Flight, "event")
        /\ Number(Flight', "live_event") = Number(Flight, "live_event")
        /\ EventsReceived' = EventsReceived /\ LivesReceived' = LivesReceived
    <3>1. \A g \in Received \cup Flight : Precedes(g, f)
      BY <2>4, <2>7 DEF Precedes, EventTypes
    <3>2. f \in Frame /\ f.type \in ControlTypes
      BY <2>4 DEF Frame, ControlTypes
    <3> QED BY <1>1, <2>1, <2>3, <2>4, <2>6, <3>1, <3>2, ControlEmitted
  <2>10. /\ ~Sent("result") /\ ~Sent("error") /\ ~Sent("terminal")
    BY <2>7 DEF Sent, EventTypes
  <2>11. /\ Sent("ready")' <=> Sent("ready")
         /\ Sent("result")' /\ ~Sent("error")' /\ ~Sent("terminal")'
    BY <2>4, <2>9, <2>10, SentOne
  <2>12. /\ FinalPhase' = IF worker.role = "client" THEN "ending" ELSE "continuation"
         /\ FinalRuns' = responses.runs + 1 /\ FinalRuns = responses.runs /\ ~FinalFailed'
    <3>1. FinalPhase' = IF worker.role = "client" THEN "ending" ELSE "continuation"
      BY <2>3, <2>11 DEF FinalPhase
    <3>2. FinalRuns' = responses.runs + 1 /\ FinalRuns = responses.runs
      BY <1>3, <2>10, <2>11 DEF FinalRuns
    <3>3. ~FinalFailed'
      BY <1>3, <2>8, <2>11 DEF FinalFailed
    <3> QED BY <3>1, <3>2, <3>3
  <2>13. Types'
    BY <1>3, <2>3, <2>9 DEF SessionInv, Types
  <2>14. Ahead'
    <3>1. \A g \in Flight :
             /\ g.run = worker.run
             /\ g.type = "ready" => responses.phase = "startup"
             /\ g.type \notin {"result", "error", "terminal"}
      BY <2>7 DEF SessionInv, Ahead, EventTypes
    <3>2. \A g \in Flight' :
             /\ g.run = worker.run
             /\ g.type = "ready" => responses.phase = "startup"
             /\ g.type \notin {"error", "terminal"}
      BY <2>4, <2>9, <3>1
    <3>3. worker.role = "server" => worker'.at = "command" /\ worker'.count = worker'.run
      BY <2>3, <2>5, <2>6
    <3> QED BY <1>3, <2>3, <2>6, <2>7, <2>11, <3>2, <3>3 DEF Ahead
  <2>15. /\ f.dropped <= f.emitted /\ f.emitted >= responses.eventSequence
         /\ f.liveEmitted = responses.liveReceived + Number(Flight', "live_event") + f.liveDropped
         /\ responses.captureSequence <= f.callbacks
         /\ \A g \in Flight' : g.type = "event" => g.n <= f.emitted
         /\ \A g \in Flight' : g.type = "live_event" => g.n <= f.callbacks
         /\ \A gap \in Gaps' : gap.lost = IF gap.stage = "capture" THEN f.capture ELSE f.retention
    <3>1. /\ capture.dropped <= capture.emitted /\ responses.eventSequence <= capture.emitted
          /\ \A g \in Flight : g.type = "event" => g.n <= capture.emitted
          /\ capture.liveEmitted = responses.liveReceived + Number(Flight, "live_event")
                                   + capture.liveDropped
          /\ responses.captureSequence <= capture.callbacks
          /\ \A g \in Flight : g.type = "live_event" /\ g.n # 0 => g.n <= capture.callbacks
          /\ \A gap \in Gaps : gap.lost = IF gap.stage = "capture" THEN capture.captureDropped
                                          ELSE capture.retentionDropped
      BY <1>2 DEF SessionInv, Counted, Later
    <3>2. /\ capture.emitted \in Nat /\ capture.callbacks \in Nat /\ responses.eventSequence \in Nat
      BY Fields, CaptureFields DEF SessionInv
    <3>3. \A g \in Flight' : g.type \in EventTypes => g \in Flight
      BY <2>4, <2>9 DEF EventTypes
    <3>4. \A g \in Flight : g.type = "live_event" => g.n <= capture.callbacks
      BY <3>1, <3>2
    <3> QED BY <2>4, <2>9, <3>1, <3>2, <3>3, <3>4 DEF EventTypes
  <2>16. \A g \in Flight' : g.type = "result" => g = f
    BY <2>7, <2>9 DEF EventTypes
  <2>17. ResultAhead'
    BY <1>3, <2>15, <2>16 DEF ResultAhead
  <2>18. Places'
    <3>1. ~worker'.failed /\ ~worker'.cut /\ worker'.count = worker.run
      BY <2>3, <2>6, <2>8
    <3>2. worker'.at \notin {"setup", "native", "joining", "error", "close", "exited"}
      BY <2>3
    <3>3. worker'.count = FinalRuns'
      BY <2>3, <2>8, <2>12
    <3>4. /\ worker'.at = "command" => worker'.role = "server"
          /\ worker'.at = "terminal" => FinalPhase' = "ending"
      BY <2>2, <2>3, <2>5, <2>12
    <3> QED BY <1>3, <2>3, <2>6, <2>12, <3>1, <3>2, <3>3, <3>4 DEF Places
  <2>19. Captured'
    BY <1>1, <1>3, <1>4, <2>3 DEF SessionInv, Captured
  <2>20. ~Capturing' /\ Counted'
    BY <2>3 DEF Counted, Capturing
  <2>21. Accounts'
    <3>1. Legacy => f.emitted = EventsReceived' + Number(Flight', "event") + f.dropped
      BY <1>2, <2>4, <2>9 DEF SessionInv, Accounts
    <3>2. responses.phase \in {"startup", "running"} => responses.liveReceived = LivesReceived
      BY DEF SessionInv, Accounts
    <3>3. \A g \in Received' : g.type # "result"
      BY <2>7, <2>9 DEF EventTypes
    <3> QED BY <1>3, <2>9, <2>16, <2>20, <3>1, <3>2, <3>3 DEF Accounts
  <2>22. Rounds'
    <3>1. Number(Received', "result") = Number(Received, "result")
      BY <2>9, NumberSame
    <3>2. responses.runs = main.count + Number(Received, "result")
      BY DEF SessionInv, Rounds
    <3>3. \A g \in Received' : g.type \notin {"result", "error", "terminal"}
      BY <2>7, <2>9 DEF EventTypes
    <3> QED BY <1>3, <2>3, <2>6, <2>7, <2>11, <3>1, <3>2, <3>3 DEF Rounds
  <2> QED BY <2>9, <2>13, <2>14, <2>17, <2>18, <2>19, <2>20, <2>21, <2>22 DEF SessionInv
<1> QED BY <1>5, <1>6

LEMMA SendErrorStep ==
    ASSUME SessionInv, SendError
    PROVE  SessionInv'
<1> DEFINE f == [type |-> "error", sequence |-> NextSequence, run |-> worker.run]
<1>1. /\ worker.at = "error" /\ UNCHANGED <<capture, pipe, commands, parentVars>>
      /\ EmitControl(f, [worker EXCEPT !.at = "terminal"], [worker EXCEPT !.at = "close"])
  BY DEF SendError
<1>2. /\ FinalPhase # "terminal" /\ worker.failed /\ ~FinalFailed /\ responses.run = worker.run
      /\ ~worker.cut /\ worker.count = FinalRuns
  BY <1>1 DEF SessionInv, Places
<1>3. ~Sent("error") /\ ~responses.failed /\ ~Sent("terminal")
  BY <1>2 DEF FinalFailed, FinalPhase
<1>4. responses.phase # "terminal"
  <2>1. CASE Flight = {}
    BY <1>2, <2>1 DEF FinalPhase, Sent
  <2>2. CASE Flight # {}
    BY <2>2 DEF SessionInv, Ahead
  <2> QED BY <2>1, <2>2
<1>5. out' = Queued(f) /\ worker' = [worker EXCEPT !.at = "terminal"]
  <2>1. ControlFits
    BY <1>1, <1>3, ControlFitsOut DEF ControlTypes
  <2> QED BY <1>1, <2>1 DEF EmitControl
<1>6. /\ f \in Frame /\ f.sequence = NextSequence /\ f.type = "error" /\ f.run = worker.run
  <2>1. out.sequence \in Nat /\ worker.run \in Nat
    BY Fields DEF SessionInv
  <2> QED BY <2>1 DEF Frame, Envelope, NextSequence
<1> HIDE DEF f
<1>7. /\ worker' \in Workers /\ worker'.at = "terminal" /\ worker'.role = worker.role
      /\ worker'.run = worker.run /\ worker'.count = worker.count
      /\ worker'.failed /\ ~worker'.cut /\ worker'.cut = worker.cut
  <2>1. worker \in Workers
    BY DEF SessionInv, Types
  <2> QED BY <1>2, <1>5, <2>1 DEF Workers
<1>8. /\ pipe' = pipe /\ commands' = commands /\ responses' = responses /\ capture' = capture
      /\ reader' = reader /\ inbox' = inbox /\ main' = main /\ tally' = tally
  BY <1>1 DEF parentVars
<1>9. /\ out' \in Outs /\ Numbered' /\ Ordered' /\ Flight' = Flight \cup {f}
      /\ Received' = Received /\ f \notin Flight
      /\ EventsAhead' /\ LivesAhead' /\ Endings' /\ Gaps' = Gaps
      /\ Number(Flight', "event") = Number(Flight, "event")
      /\ Number(Flight', "live_event") = Number(Flight, "live_event")
      /\ EventsReceived' = EventsReceived /\ LivesReceived' = LivesReceived
  <2>1. \A g \in Received \cup Flight : Precedes(g, f)
    <3>1. \A g \in Flight : g.type \notin {"error", "terminal"}
      BY <1>3 DEF Sent
    <3>2. \A g \in Received : g.type \notin {"error", "terminal"}
      BY <1>1, <1>3, <1>4, Unasked
    <3> QED BY <1>6, <3>1, <3>2 DEF Precedes
  <2>2. f.type \in ControlTypes
    BY <1>6 DEF ControlTypes
  <2> QED BY <1>1, <1>5, <1>6, <1>7, <2>1, <2>2, ControlEmitted
<1>10. /\ Sent("ready")' <=> Sent("ready")
       /\ Sent("result")' <=> Sent("result")
       /\ Sent("error")' /\ ~Sent("terminal")'
  BY <1>3, <1>6, <1>9, SentOne
<1>11. FinalPhase' = "ending" /\ FinalRuns' = FinalRuns /\ FinalFailed'
  <2>1. FinalPhase' = "ending"
    BY <1>10 DEF FinalPhase
  <2>2. FinalRuns' = FinalRuns
    BY <1>8, <1>10 DEF FinalRuns
  <2>3. FinalFailed'
    BY <1>10 DEF FinalFailed
  <2> QED BY <2>1, <2>2, <2>3
<1>12. Types'
  BY <1>7, <1>8, <1>9 DEF SessionInv, Types
<1>13. Ahead'
  <2>1. \A g \in Flight : g.type = "result" => worker.role # "server"
    BY <1>1, Unasked
  <2>2. \A g \in Flight' : g.type # "terminal"
    BY <1>3, <1>6, <1>9 DEF Sent
  <2>3. \A g \in Flight' :
           /\ g.run = worker.run
           /\ g.type = "ready" => responses.phase = "startup"
           /\ g.type \in EventTypes \cup {"result"} =>
                  responses.phase = "running" \/ (responses.phase = "startup" /\ Sent("ready"))
           /\ g.type = "error" => ~responses.failed
           /\ g.type = "result" => worker.role # "server"
    BY <1>3, <1>6, <1>9, <2>1 DEF SessionInv, Ahead, EventTypes
  <2> QED BY <1>2, <1>4, <1>7, <1>8, <1>10, <2>2, <2>3 DEF Ahead
<1>14. \A g \in Flight' : g.type \in EventTypes \cup {"result"} => g \in Flight
  BY <1>6, <1>9 DEF EventTypes
<1>15. ResultAhead'
  <2>1. \A g \in Flight' : g.type \in {"event", "live_event", "result"} => g \in Flight
    BY <1>14 DEF EventTypes
  <2> QED BY <1>8, <1>9, <2>1 DEF SessionInv, ResultAhead
<1>16. Places'
  BY <1>2, <1>7, <1>8, <1>11 DEF Places
<1>17. Captured'
  BY <1>1, <1>7, <1>8 DEF SessionInv, Captured, Capturing
<1>18. ~Capturing' /\ Counted'
  BY <1>7 DEF Counted, Capturing
<1>19. Accounts'
  <2>1. \A g \in Flight' : g.type = "result" => g \in Flight
    BY <1>14
  <2> QED BY <1>8, <1>9, <1>18, <2>1 DEF SessionInv, Accounts
<1>20. Rounds'
  <2>1. Number(Received', "result") = Number(Received, "result")
    BY <1>9, NumberSame
  <2> QED BY <1>1, <1>2, <1>7, <1>8, <1>9, <2>1, RoundsBusy, Unasked
<1> QED BY <1>9, <1>12, <1>13, <1>15, <1>16, <1>17, <1>18, <1>19, <1>20 DEF SessionInv

LEMMA SendTerminalStep ==
    ASSUME SessionInv, SendTerminal
    PROVE  SessionInv'
<1> DEFINE f == [type |-> "terminal", sequence |-> NextSequence, run |-> worker.run,
                 runs |-> worker.count, failed |-> worker.failed]
<1>1. /\ worker.at = "terminal" /\ UNCHANGED <<capture, pipe, commands, parentVars>>
      /\ EmitControl(f, [worker EXCEPT !.at = "close"], [worker EXCEPT !.at = "close"])
  BY DEF SendTerminal
<1>2. /\ FinalPhase = "ending" /\ responses.run = worker.run /\ ~worker.cut
      /\ worker.count = FinalRuns /\ (worker.failed <=> FinalFailed)
  BY <1>1 DEF SessionInv, Places
<1>3. ~Sent("terminal")
  BY <1>2 DEF FinalPhase
<1>4. responses.phase # "terminal"
  <2>1. CASE Flight = {}
    BY <1>2, <2>1 DEF FinalPhase, Sent
  <2>2. CASE Flight # {}
    BY <2>2 DEF SessionInv, Ahead
  <2> QED BY <2>1, <2>2
<1>5. out' = Queued(f) /\ worker' = [worker EXCEPT !.at = "close"]
  <2>1. ControlFits
    BY <1>1, <1>3, ControlFitsOut DEF ControlTypes
  <2> QED BY <1>1, <2>1 DEF EmitControl
<1>6. /\ f \in Terminal /\ f.sequence = NextSequence /\ f.type = "terminal" /\ f.run = worker.run
      /\ f.runs = worker.count /\ f.failed = worker.failed
  <2>1. out.sequence \in Nat /\ worker.run \in Nat /\ worker.count \in Nat
        /\ worker.failed \in BOOLEAN
    BY Fields DEF SessionInv, Types, Workers
  <2> QED BY <2>1 DEF Terminal, NextSequence
<1> HIDE DEF f
<1>7. /\ worker' \in Workers /\ worker'.at = "close" /\ worker'.role = worker.role
      /\ worker'.run = worker.run /\ worker'.count = worker.count
      /\ worker'.failed = worker.failed /\ ~worker'.cut /\ worker'.cut = worker.cut
  <2>1. worker \in Workers
    BY DEF SessionInv, Types
  <2> QED BY <1>2, <1>5, <2>1 DEF Workers
<1>8. /\ pipe' = pipe /\ commands' = commands /\ responses' = responses /\ capture' = capture
      /\ reader' = reader /\ inbox' = inbox /\ main' = main /\ tally' = tally
  BY <1>1 DEF parentVars
<1>9. /\ out' \in Outs /\ Numbered' /\ Ordered' /\ Flight' = Flight \cup {f}
      /\ Received' = Received /\ f \notin Flight
      /\ EventsAhead' /\ LivesAhead' /\ Endings' /\ Gaps' = Gaps
      /\ Number(Flight', "event") = Number(Flight, "event")
      /\ Number(Flight', "live_event") = Number(Flight, "live_event")
      /\ EventsReceived' = EventsReceived /\ LivesReceived' = LivesReceived
  <2>1. \A g \in Received \cup Flight : Precedes(g, f)
    <3>1. \A g \in Flight : g.type # "terminal"
      BY <1>3 DEF Sent
    <3>2. \A g \in Received : g.type # "terminal"
      BY <1>1, <1>4, Unasked
    <3> QED BY <1>6, <3>1, <3>2 DEF Precedes
  <2>2. f.type \in ControlTypes /\ f \in Frame
    BY <1>6 DEF ControlTypes, Frame
  <2> QED BY <1>1, <1>5, <1>6, <1>7, <2>1, <2>2, ControlEmitted
<1>10. /\ Sent("ready")' <=> Sent("ready")
       /\ Sent("result")' <=> Sent("result")
       /\ Sent("error")' <=> Sent("error")
       /\ Sent("terminal")'
  BY <1>6, <1>9, SentOne
<1>11. FinalPhase' = "terminal" /\ FinalRuns' = FinalRuns /\ (FinalFailed' <=> FinalFailed)
  <2>1. FinalPhase' = "terminal"
    BY <1>10 DEF FinalPhase
  <2>2. FinalRuns' = FinalRuns
    BY <1>8, <1>10 DEF FinalRuns
  <2>3. FinalFailed' <=> FinalFailed
    BY <1>8, <1>10 DEF FinalFailed
  <2> QED BY <2>1, <2>2, <2>3
<1>12. Types'
  BY <1>7, <1>8, <1>9 DEF SessionInv, Types
<1>13. Ahead'
  <2>1. \A g \in Flight : g.type = "result" => worker.role # "server"
    BY <1>1, Unasked
  <2>2. \A g \in Flight' : g.type = "terminal" =>
            /\ g = f /\ g.runs = FinalRuns /\ (g.failed <=> FinalFailed)
    BY <1>2, <1>3, <1>6, <1>9 DEF Sent
  <2>3. \/ responses.phase = "ending" \/ Sent("error")
        \/ Sent("result") /\ worker.role = "client"
    BY <1>2, <1>3 DEF FinalPhase
  <2>4. \A g \in Flight' :
           /\ g.run = worker.run
           /\ g.type = "ready" => responses.phase = "startup"
           /\ g.type \in EventTypes \cup {"result"} =>
                  responses.phase = "running" \/ (responses.phase = "startup" /\ Sent("ready"))
           /\ g.type = "error" => ~responses.failed
           /\ g.type = "result" => worker.role # "server"
    BY <1>6, <1>9, <2>1 DEF SessionInv, Ahead, EventTypes
  <2> QED BY <1>2, <1>4, <1>7, <1>8, <1>10, <1>11, <2>2, <2>3, <2>4 DEF Ahead
<1>14. \A g \in Flight' : g.type \in EventTypes \cup {"result"} => g \in Flight
  BY <1>6, <1>9 DEF EventTypes
<1>15. ResultAhead'
  <2>1. \A g \in Flight' : g.type \in {"event", "live_event", "result"} => g \in Flight
    BY <1>14 DEF EventTypes
  <2> QED BY <1>8, <1>9, <2>1 DEF SessionInv, ResultAhead
<1>16. Places'
  <2>1. worker'.failed <=> FinalFailed'
    BY Zenon, <1>2, <1>7, <1>11
  <2> QED BY <1>2, <1>7, <1>8, <1>11, <2>1 DEF Places
<1>17. Captured'
  BY <1>1, <1>7, <1>8 DEF SessionInv, Captured, Capturing
<1>18. ~Capturing' /\ Counted'
  BY <1>7 DEF Counted, Capturing
<1>19. Accounts'
  <2>1. \A g \in Flight' : g.type = "result" => g \in Flight
    BY <1>14
  <2> QED BY <1>8, <1>9, <1>18, <2>1 DEF SessionInv, Accounts
<1>20. Rounds'
  <2>1. Number(Received', "result") = Number(Received, "result")
    BY <1>9, NumberSame
  <2> QED BY <1>1, <1>2, <1>7, <1>8, <1>9, <2>1, RoundsBusy, Unasked
<1> QED BY <1>9, <1>12, <1>13, <1>15, <1>16, <1>17, <1>18, <1>19, <1>20 DEF SessionInv

LEMMA ExitStep ==
    ASSUME SessionInv, Exit
    PROVE  SessionInv'
<1>1. /\ worker.at \in {"close", "unsettled"} /\ out.frames = <<>>
      /\ worker' = [worker EXCEPT !.at = "exited"]
      /\ out' = [out EXCEPT !.closed = TRUE] /\ UNCHANGED <<capture, pipe, commands, parentVars>>
  BY DEF Exit, Closing
<1>2. /\ pipe' = pipe /\ commands' = commands /\ responses' = responses /\ capture' = capture
      /\ reader' = reader /\ inbox' = inbox /\ main' = main /\ tally' = tally
  BY <1>1 DEF parentVars
<1>3. /\ worker' \in Workers /\ worker'.at = "exited" /\ worker'.role = worker.role
      /\ worker'.run = worker.run /\ worker'.count = worker.count
      /\ worker'.failed = worker.failed /\ worker'.cut = worker.cut
  <2>1. worker \in Workers
    BY DEF SessionInv, Types
  <2> QED BY <1>1, <2>1 DEF Workers
<1>4. out' \in Outs /\ out'.frames = out.frames
  <2>1. out \in Outs
    BY DEF SessionInv, Types
  <2> QED BY <1>1, <2>1 DEF Outs
<1>5. /\ Flight' = Flight /\ Received' = Received
  BY <1>2, <1>4 DEF Flight, Received
<1>6. Types'
  BY <1>2, <1>3, <1>4 DEF SessionInv, Types
<1>7. Numbered'
  BY <1>1, <1>2, <1>3, <1>4, <1>5 DEF SessionInv, Numbered
<1>8. Ordered'
  BY <1>5 DEF SessionInv, Ordered
<1>9. /\ FinalPhase' = FinalPhase /\ FinalRuns' = FinalRuns /\ (FinalFailed' <=> FinalFailed)
      /\ EventsAhead' /\ LivesAhead' /\ ResultAhead' /\ Gaps' = Gaps
      /\ Sent("ready")' <=> Sent("ready")
      /\ Sent("result")' <=> Sent("result")
      /\ Sent("error")' <=> Sent("error")
  BY <1>2, <1>3, <1>5, FlightSame
<1>10. Ahead'
  <2>1. \A g \in Flight : g.type = "result" => worker.role # "server"
    BY <1>1, Unasked
  <2> QED BY <1>2, <1>3, <1>5, <1>9, <2>1 DEF SessionInv, Ahead
<1>11. Places'
  <2>1. CASE ~worker.cut
    <3>1. /\ FinalPhase = "terminal" /\ worker.count = FinalRuns
          /\ (worker.failed <=> FinalFailed)
      BY <1>1, <2>1 DEF SessionInv, Places
    <3>2. worker'.failed <=> FinalFailed'
      BY Zenon, <1>3, <1>9, <3>1
    <3>3. ~worker'.cut
      BY <1>3, <2>1
    <3> QED BY <1>2, <1>3, <1>9, <3>1, <3>2, <3>3 DEF Places
  <2>2. CASE worker.cut
    <3>1. worker'.failed /\ worker'.cut
      BY <1>3, <2>2 DEF SessionInv, Places
    <3> QED BY <1>3, <3>1 DEF Places
  <2> QED BY <2>1, <2>2
<1>12. Captured'
  BY <1>1, <1>2, <1>3 DEF SessionInv, Captured
<1>13. ~Capturing' /\ Counted'
  BY <1>3 DEF Counted, Capturing
<1>14. Accounts'
  <2>1. Number(Flight', "event") = Number(Flight, "event")
    BY <1>5, NumberSame
  <2> QED BY <1>2, <1>5, <1>13, <2>1, ReceivedSame DEF SessionInv, Accounts
<1>15. Rounds'
  <2>1. Number(Received', "result") = Number(Received, "result")
    BY <1>5, NumberSame
  <2>2. responses.run = worker.run \/ responses.run = worker.run + 1
    BY DEF SessionInv, Rounds
  <2>3. /\ commands = <<>> /\ responses.phase # "continuation" /\ main.at = "loop"
        /\ responses.runs = main.count + Number(Received, "result")
        /\ \A f \in Received :
               /\ f.type = "result" => responses.phase \notin {"startup", "running"}
               /\ f.type = "error" => responses.phase \in {"ending", "terminal"} /\ responses.failed
               /\ f.type = "terminal" => responses.phase = "terminal"
               /\ f.type = "result" => worker.role # "server"
    BY <1>1, Unasked
  <2> QED BY <1>2, <1>3, <1>5, <2>1, <2>2, <2>3 DEF Rounds
<1>16. Endings'
  <2>1. reader = "reading" /\ main.at = "loop" /\ main.outcome = "none"
    BY <1>1, Unasked
  <2> QED BY <1>2, <1>3, <2>1 DEF Endings
<1> QED BY <1>6, <1>7, <1>8, <1>9, <1>10, <1>11, <1>12, <1>13, <1>14, <1>15, <1>16
        DEF SessionInv

\* The server's command names its run, and does not exceed the maximum.
LEMMA CommandStep ==
    ASSUME SessionInv, Command
    PROVE  SessionInv'
<1>1. /\ worker.at = "command" /\ commands # <<>> /\ commands' = Tail(commands)
      /\ UNCHANGED <<capture, out, pipe, parentVars>>
  BY DEF Command
<1>2. /\ pipe' = pipe /\ out' = out /\ responses' = responses /\ capture' = capture
      /\ reader' = reader /\ inbox' = inbox /\ main' = main /\ tally' = tally
  BY <1>1 DEF parentVars
<1>3. /\ main.at = "loop" /\ Len(commands) = 1 /\ commands[1].run = worker.run
      /\ IF commands[1].continue THEN Told(TRUE) ELSE Told(FALSE)
  BY <1>1 DEF SessionInv, Rounds
<1>4. commands \in Seq(Commands) /\ Head(commands) = commands[1] /\ Tail(commands) = <<>>
  <2>1. commands \in Seq(Commands)
    BY DEF SessionInv, Types
  <2> DEFINE t == Tail(commands)
  <2>2. Head(commands) = commands[1] /\ t \in Seq(Commands) /\ Len(t) = 0
    BY <1>1, <1>3, <2>1
  <2> HIDE DEF t
  <2>3. t = <<>>
    BY <2>2
  <2> QED BY <2>1, <2>2, <2>3 DEF t
<1>5. /\ worker.role = "server" /\ Flight = {} /\ inbox.frames = <<>> /\ main.count = worker.count
      /\ worker.count = worker.run /\ ~worker.failed /\ ~worker.cut
  <2>1. /\ worker.role = "server" /\ Flight = {} /\ inbox.frames = <<>>
        /\ main.count = worker.count /\ worker.count = worker.run
    BY <1>1, <1>3 DEF Told
  <2>2. ~worker.failed /\ ~worker.cut
    BY <1>1 DEF SessionInv, Places
  <2> QED BY <2>1, <2>2
<1>6. worker \in Workers /\ worker.run \in Nat /\ worker.count \in Nat
  BY Fields DEF SessionInv, Types
<1>7. /\ commands[1].continue => worker' = [worker EXCEPT !.at = "setup", !.run = worker.run + 1]
      /\ ~commands[1].continue => worker' = [worker EXCEPT !.at = "terminal"]
  <2>1. ASSUME commands[1].continue PROVE worker.count < MaxRuns
    <3>1. main.count < MaxRuns
      BY <1>3, <2>1 DEF Told
    <3> QED BY <1>5, <3>1
  <2>2. ASSUME commands[1].continue PROVE ~(worker.count >= MaxRuns)
    BY <1>6, <2>1, <2>2, ProtocolAssumption
  <2> QED BY <1>3, <1>4, <2>2 DEF Command
<1>8. Received = {} /\ Flight' = {} /\ Received' = {}
  <2>1. Received = {}
    BY <1>5 DEF Received, Members
  <2>2. Flight' = Flight /\ Received' = Received
    BY <1>2 DEF Flight, Received
  <2> QED BY <1>5, <2>1, <2>2
<1>9. /\ worker' \in Workers /\ worker'.role = "server" /\ worker'.count = worker.count
      /\ worker'.failed = worker.failed /\ worker'.cut = worker.cut
      /\ commands[1].continue => worker'.at = "setup" /\ worker'.run = worker.run + 1
      /\ ~commands[1].continue => worker'.at = "terminal" /\ worker'.run = worker.run
  <2> DEFINE n == worker.run + 1
  <2>1. n \in Nat \ {0}
    BY <1>6
  <2>2. /\ commands[1].continue => worker' = [worker EXCEPT !.at = "setup", !.run = n]
        /\ ~commands[1].continue => worker' = [worker EXCEPT !.at = "terminal"]
    BY <1>7
  <2> HIDE DEF n
  <2>3. CASE commands[1].continue
    BY <1>5, <1>6, <2>1, <2>2, <2>3 DEF Workers, n
  <2>4. CASE ~commands[1].continue
    BY <1>5, <1>6, <2>2, <2>4 DEF Workers
  <2> QED BY <2>3, <2>4
<1>10. /\ commands[1].continue => responses.phase = "running" /\ responses.run = worker.run + 1 /\ Fresh
       /\ ~commands[1].continue => responses.phase = "ending" /\ responses.run = worker.run
  BY <1>3 DEF Told
<1>11. /\ FinalPhase = responses.phase /\ FinalRuns = responses.runs
       /\ FinalFailed <=> responses.failed
       /\ FinalPhase' = responses.phase /\ FinalRuns' = responses.runs
       /\ FinalFailed' <=> responses.failed
  BY <1>2, <1>5, <1>8 DEF FinalPhase, FinalRuns, FinalFailed, Sent
<1>12. worker.count = FinalRuns /\ (worker.failed <=> FinalFailed)
  BY <1>1, <1>5 DEF SessionInv, Places
<1>13. commands' = <<>> /\ commands' \in Seq(Commands)
  BY <1>1, <1>4
<1>14. Types'
  BY <1>2, <1>9, <1>13 DEF SessionInv, Types
<1>15. Numbered'
  BY <1>1, <1>2, <1>8, <1>9 DEF SessionInv, Numbered
<1>16. Ordered' /\ Ahead' /\ EventsAhead' /\ ResultAhead'
  BY <1>8 DEF Ordered, Ahead, EventsAhead, ResultAhead
<1>17. LivesAhead'
  BY <1>8 DEF LivesAhead
<1>18. Places'
  <2>1. ~worker'.failed /\ ~worker'.cut /\ ~FinalFailed' /\ worker'.count = FinalRuns'
    BY <1>5, <1>9, <1>11, <1>12
  <2>2. CASE commands[1].continue
    <3>1. /\ worker'.at = "setup" /\ worker'.run # 1 /\ FinalPhase' = "running"
          /\ responses'.run = worker'.run /\ worker'.count + 1 = worker'.run
          /\ main'.count = worker'.count
      <4>1. worker.run \in Nat \ {0}
        BY <1>6 DEF Workers
      <4> QED BY <1>2, <1>5, <1>6, <1>9, <1>10, <1>11, <2>2, <4>1
    <3> QED BY <2>1, <3>1 DEF Places
  <2>3. CASE ~commands[1].continue
    <3>1. /\ worker'.at = "terminal" /\ FinalPhase' = "ending"
          /\ responses'.run = worker'.run
      BY <1>2, <1>9, <1>10, <1>11, <2>3
    <3> QED BY <2>1, <3>1 DEF Places
  <2> QED BY <2>2, <2>3
<1>19. Captured'
  BY <1>1, <1>2, <1>9 DEF SessionInv, Captured, Capturing
<1>20. ~Capturing' /\ Counted'
  BY <1>9 DEF Counted, Capturing
<1>21. Accounts'
  BY <1>2, <1>8, <1>20, ReceivedSame DEF SessionInv, Accounts
<1>22. Rounds'
  <2>1. responses.runs = main.count + Number(Received, "result")
    BY DEF SessionInv, Rounds
  <2>2. Number(Received', "result") = Number(Received, "result")
    BY <1>8, NumberSame
  <2>3. CASE commands[1].continue
    <3>1. Fresh'
      BY <1>2, <1>8, <1>10, <2>3 DEF Fresh
    <3> QED BY <1>2, <1>3, <1>8, <1>9, <1>10, <1>13, <2>1, <2>2, <2>3, <3>1 DEF Rounds
  <2>4. CASE ~commands[1].continue
    BY <1>2, <1>3, <1>8, <1>9, <1>10, <1>13, <2>1, <2>2, <2>4, RoundsBusy
  <2> QED BY <2>3, <2>4
<1>23. Endings'
  <2>1. main.at = "loop" /\ reader = "reading" /\ main.outcome = "none"
    <3>1. reader \in {"reading", "eof", "refused", "truncated"}
      BY DEF SessionInv, Types
    <3> QED BY <1>1, <1>3, <1>5, <3>1 DEF SessionInv, Endings
  <2> QED BY <1>2, <2>1 DEF Endings
<1> QED BY <1>14, <1>15, <1>16, <1>17, <1>18, <1>19, <1>20, <1>21, <1>22, <1>23 DEF SessionInv

-----------------------------------------------------------------------------
(* A session that is cut short, and the writer                             *)

\* What is written is written in order.
LEMMA WrittenInOrder ==
    ASSUME SessionInv, NEW f \in Members(pipe), NEW g \in Flight, g.sequence < f.sequence
    PROVE  g \in Members(pipe)
<1> DEFINE Q == out.frames  k == responses.incoming
<1>1. k \in Nat /\ Len(pipe) \in Nat /\ Len(Q) \in Nat
  <2>1. k \in Nat /\ pipe \in Seq(Frame) /\ Q \in Seq(Frame)
    BY Fields DEF SessionInv
  <2> QED BY <2>1
<1>2. /\ \A i \in 1..Len(pipe) : pipe[i].sequence = k + i
      /\ \A i \in 1..Len(Q) : Q[i].sequence = k + Len(pipe) + i
  BY DEF SessionInv, Numbered
<1> HIDE DEF Q, k
<1>3. f.sequence <= k + Len(pipe) /\ f.sequence \in Nat
  BY <1>1, <1>2 DEF Members
<1>4. g \notin Members(Q)
  <2>1. \A h \in Members(Q) : h.sequence \in Nat /\ k + Len(pipe) < h.sequence
    BY <1>1, <1>2 DEF Members
  <2> QED BY <1>1, <1>3, <2>1
<1> QED BY <1>4 DEF Flight, Q

LEMMA CutShortStep ==
    ASSUME SessionInv, worker.at # "exited", CutShort
    PROVE  SessionInv'
<1>1. /\ worker.at # "exited" /\ UNCHANGED <<pipe, commands, parentVars>>
      /\ worker' = [worker EXCEPT !.at = "exited", !.failed = TRUE, !.cut = TRUE]
      /\ out' = [out EXCEPT !.frames = <<>>, !.closed = TRUE] /\ capture' = NewCapture
  BY DEF CutShort
<1>2. /\ pipe' = pipe /\ commands' = commands /\ responses' = responses
      /\ reader' = reader /\ inbox' = inbox /\ main' = main /\ tally' = tally
  BY <1>1 DEF parentVars
<1>3. /\ worker' \in Workers /\ worker'.at = "exited" /\ worker'.role = worker.role
      /\ worker'.run = worker.run /\ worker'.count = worker.count
      /\ worker'.failed /\ worker'.cut
  <2>1. worker \in Workers
    BY DEF SessionInv, Types
  <2> QED BY <1>1, <2>1 DEF Workers
<1>4. out' \in Outs /\ out'.frames = <<>>
  <2>1. out \in Outs /\ <<>> \in Seq(Frame)
    BY DEF SessionInv, Types
  <2> QED BY <1>1, <2>1 DEF Outs
<1>5. Flight' = Members(pipe) /\ Flight' \subseteq Flight /\ Received' = Received
  <2>1. Members(out'.frames) = {}
    BY <1>4 DEF Members
  <2>2. Flight' = Members(pipe)
    BY <1>2, <2>1 DEF Flight, Members
  <2>3. Received' = Received
    BY <1>2 DEF Received
  <2> QED BY <2>2, <2>3 DEF Flight
<1>6. \A f \in Flight', g \in Flight : g.sequence < f.sequence => g \in Flight'
  BY <1>5, WrittenInOrder
<1>7. \A f, g \in Flight : /\ f.sequence \in Nat /\ g.sequence \in Nat
                           /\ f # g => f.sequence # g.sequence
  BY FlightFacts DEF SessionInv
<1>8. \A f \in Flight', g \in Flight : Precedes(f, g) \/ g \in Flight'
  <2> SUFFICES ASSUME NEW f \in Flight', NEW g \in Flight, g \notin Flight' PROVE Precedes(f, g)
    OBVIOUS
  <2>1. f.sequence < g.sequence
    BY <1>5, <1>6, <1>7
  <2> QED BY <1>5, <2>1 DEF SessionInv, Ordered
<1>9. Types'
  <2>1. <<>> \in Seq(Nat)
    OBVIOUS
  <2>2. capture' \in Captures
    BY <1>1, <2>1 DEF NewCapture, Captures
  <2> QED BY <1>2, <1>3, <1>4, <2>2 DEF SessionInv, Types
<1>10. Numbered'
  <2>1. \A i \in 1..Len(pipe) : pipe[i].sequence = responses.incoming + i
    BY DEF SessionInv, Numbered
  <2>2. \A i \in 1..Len(out'.frames) : FALSE
    BY <1>4
  <2>3. /\ \A f \in Received : f.sequence <= responses.incoming
        /\ \A i, j \in 1..Len(inbox.frames) :
              i < j => inbox.frames[i].sequence < inbox.frames[j].sequence
    BY DEF SessionInv, Numbered
  <2> QED BY <1>2, <1>3, <1>4, <1>5, <2>1, <2>2, <2>3 DEF Numbered
<1>11. Ordered'
  BY <1>5 DEF SessionInv, Ordered
<1>12. /\ Sent("error")' => Sent("error")
       /\ Sent("terminal")' => Sent("terminal")
  BY <1>5 DEF Sent
<1>13. \A f \in Flight' : f.type # "ready" /\ Sent("ready") => Sent("ready")'
  <2> SUFFICES ASSUME NEW f \in Flight', f.type # "ready", NEW g \in Flight, g.type = "ready"
               PROVE g \in Flight'
    BY DEF Sent
  <2> QED BY <1>8 DEF Precedes
<1>14. \A f \in Flight' : f.type = "terminal" =>
           /\ FinalRuns' = FinalRuns /\ (FinalFailed' <=> FinalFailed)
           /\ Sent("error")' <=> Sent("error")
           /\ Sent("result")' <=> Sent("result")
  <2> SUFFICES ASSUME NEW f \in Flight', f.type = "terminal"
               PROVE /\ FinalRuns' = FinalRuns /\ (FinalFailed' <=> FinalFailed)
                     /\ Sent("error")' <=> Sent("error")
                     /\ Sent("result")' <=> Sent("result")
    OBVIOUS
  <2>1. Flight' = Flight
    BY <1>5, <1>8 DEF Precedes
  <2> QED BY <1>2, <1>3, <2>1, FlightSame
<1>15. Ahead'
  <2>1. Flight' # {} => responses.run = worker.run /\ responses.phase # "terminal"
    BY <1>5 DEF SessionInv, Ahead
  <2>2. ASSUME NEW f \in Flight'
        PROVE  /\ f.run = worker.run
               /\ f.type = "ready" => responses.phase = "startup"
               /\ f.type \in EventTypes \cup {"result"} =>
                      responses.phase = "running" \/ (responses.phase = "startup" /\ Sent("ready")')
               /\ f.type = "error" => ~responses.failed
               /\ worker.role = "server" /\ f.type = "result" =>
                      /\ worker.count = worker.run /\ ~Sent("error")' /\ ~Sent("terminal")'
                      /\ main.at \in {"loop", "ended"} /\ commands = <<>>
    BY <1>5, <1>12, <1>13, <2>2 DEF SessionInv, Ahead, EventTypes
  <2>3. ASSUME NEW f \in Flight', f.type = "terminal"
        PROVE  /\ f.runs = FinalRuns' /\ (f.failed <=> FinalFailed')
               /\ \/ responses.phase = "ending" \/ Sent("error")'
                  \/ Sent("result")' /\ worker.role = "client"
    <3>1. /\ f.runs = FinalRuns /\ (f.failed <=> FinalFailed)
          /\ \/ responses.phase = "ending" \/ Sent("error")
             \/ Sent("result") /\ worker.role = "client"
      BY <1>5, <2>3 DEF SessionInv, Ahead
    <3> QED BY <1>14, <2>3, <3>1
  <2> QED BY <1>2, <1>3, <2>1, <2>2, <2>3 DEF Ahead
<1>16. EventsAhead'
  BY <1>2, <1>5 DEF SessionInv, EventsAhead
<1>17. LivesAhead'
  BY <1>2, <1>5 DEF SessionInv, LivesAhead
<1>18. ASSUME NEW r \in Flight', r.type = "result"
       PROVE  /\ Number(Flight', "live_event") = Number(Flight, "live_event")
              /\ Number(Flight', "event") = Number(Flight, "event")
  <2>1. \A g \in Flight : g.type \in {"event", "live_event"} => g \in Flight'
    BY <1>8, <1>18 DEF Precedes
  <2>2. {g \in Flight' : g.type = "live_event"} = {g \in Flight : g.type = "live_event"}
    BY <1>5, <2>1
  <2>3. {g \in Flight' : g.type = "event"} = {g \in Flight : g.type = "event"}
    BY <1>5, <2>1
  <2> QED BY Zenon, <2>2, <2>3 DEF Number
<1>19. ResultAhead'
  <2>1. Gaps' \subseteq Gaps
    BY <1>2, <1>5 DEF Gaps
  <2> QED BY <1>2, <1>5, <1>18, <2>1 DEF SessionInv, ResultAhead
<1>20. Places'
  BY <1>3 DEF Places
<1>21. Captured'
  BY <1>1, <1>3 DEF NewCapture, Captured
<1>22. ~Capturing' /\ Counted'
  BY <1>3 DEF Counted, Capturing
<1>23. Accounts'
  BY <1>2, <1>5, <1>18, <1>22, ReceivedSame DEF SessionInv, Accounts
<1>24. Rounds'
  <2>1. Number(Received', "result") = Number(Received, "result")
    BY <1>5, NumberSame
  <2>2. Flight = {} => Flight' = {}
    BY <1>5
  <2>3. Fresh => Fresh'
    BY <1>2, <2>2 DEF Fresh
  <2>4. /\ Told(TRUE) => Told(TRUE)'
        /\ Told(FALSE) => Told(FALSE)'
    BY <1>2, <1>3, <2>2, <2>3 DEF Told
  <2> QED BY <1>2, <1>3, <1>5, <2>1, <2>2, <2>4 DEF SessionInv, Rounds
<1>25. Endings'
  <2>1. main.at # "ended" /\ reader \notin {"eof", "refused"} /\ main.outcome = "none"
    BY <1>1 DEF SessionInv, Endings
  <2> QED BY <1>2, <1>3, <2>1 DEF Endings
<1> QED BY <1>9, <1>10, <1>11, <1>15, <1>16, <1>17, <1>19, <1>20, <1>21, <1>22, <1>23, <1>24, <1>25
        DEF SessionInv

LEMMA CrashStep ==
    ASSUME SessionInv, Crash \/ ExitUndrained
    PROVE  SessionInv'
<1>1. worker.at # "exited" /\ CutShort
  BY DEF Crash, ExitUndrained, Closing
<1> QED BY <1>1, CutShortStep

LEMMA WriteStep ==
    ASSUME SessionInv, Write
    PROVE  SessionInv'
<1> DEFINE s == out.frames  h == Head(s)  t == Tail(s)  z == Append(pipe, h)
           k == responses.incoming
<1>1. /\ worker.at # "exited" /\ s # <<>> /\ pipe' = z /\ out' = [out EXCEPT !.frames = t]
      /\ UNCHANGED <<worker, capture, commands, parentVars>>
  BY DEF Write, ChildRuns
<1>2. /\ worker' = worker /\ commands' = commands /\ responses' = responses /\ capture' = capture
      /\ reader' = reader /\ inbox' = inbox /\ main' = main /\ tally' = tally
  BY <1>1 DEF parentVars
<1>3. s \in Seq(Frame) /\ pipe \in Seq(Frame) /\ k \in Nat /\ Len(pipe) \in Nat /\ Len(s) \in Nat
  <2>1. s \in Seq(Frame) /\ pipe \in Seq(Frame) /\ k \in Nat
    BY Fields DEF SessionInv
  <2> QED BY <2>1
<1>4. /\ h \in Frame /\ h = s[1] /\ Len(s) \in Nat \ {0} /\ t \in Seq(Frame)
      /\ Len(t) = Len(s) - 1 /\ \A i \in 1..Len(t) : t[i] = s[i + 1]
      /\ Members(s) = {h} \cup Members(t)
  BY <1>1, <1>3, MembersTail
<1>5. /\ z \in Seq(Frame) /\ Len(z) = Len(pipe) + 1 /\ z[Len(pipe) + 1] = h
      /\ \A i \in 1..Len(pipe) : z[i] = pipe[i]
      /\ Members(z) = Members(pipe) \cup {h}
  BY <1>3, <1>4, MembersAppend
<1> HIDE DEF h, t, z
<1>6. /\ out' \in Outs /\ out'.frames = t /\ out'.sequence = out.sequence
      /\ out'.closed = out.closed
  <2>1. out \in Outs
    BY DEF SessionInv, Types
  <2> QED BY <1>1, <1>4, <2>1 DEF Outs
<1>7. Flight' = Flight /\ Received' = Received
  <2>1. Flight' = Members(z) \cup Members(t)
    BY <1>1, <1>6 DEF Flight
  <2>2. Flight = Members(pipe) \cup Members(s)
    BY DEF Flight
  <2> QED BY <1>2, <1>4, <1>5, <2>1, <2>2 DEF Received
<1>8. Types'
  BY <1>1, <1>2, <1>5, <1>6 DEF SessionInv, Types
<1>9. Numbered'
  <2>1. /\ \A i \in 1..Len(pipe) : pipe[i].sequence = k + i
        /\ \A i \in 1..Len(s) : s[i].sequence = k + Len(pipe) + i
        /\ out.sequence = k + Len(pipe) + Len(s) /\ ~out.closed
    BY <1>1 DEF SessionInv, Numbered
  <2> HIDE DEF s, k
  <2>2. \A i \in 1..Len(z) : z[i].sequence = k + i
    <3> SUFFICES ASSUME NEW i \in 1..Len(z) PROVE z[i].sequence = k + i
      OBVIOUS
    <3>1. CASE i \in 1..Len(pipe)
      BY <1>5, <2>1, <3>1
    <3>2. CASE i = Len(pipe) + 1
      <4>1. h.sequence = k + Len(pipe) + 1
        BY <1>4, <2>1
      <4> QED BY <1>3, <1>5, <3>2, <4>1
    <3> QED BY <1>3, <1>5, <3>1, <3>2
  <2>3. \A i \in 1..Len(t) : t[i].sequence = k + Len(z) + i
    <3> SUFFICES ASSUME NEW i \in 1..Len(t) PROVE t[i].sequence = k + Len(z) + i
      OBVIOUS
    <3>1. i + 1 \in 1..Len(s) /\ t[i] = s[i + 1]
      BY <1>3, <1>4
    <3>2. t[i].sequence = k + Len(pipe) + (i + 1)
      BY <2>1, <3>1
    <3> QED BY <1>3, <1>5, <3>2
  <2>4. out.sequence = k + Len(z) + Len(t)
    BY <1>3, <1>4, <1>5, <2>1
  <2>5. /\ \A f \in Received : f.sequence <= responses.incoming
        /\ \A i, j \in 1..Len(inbox.frames) :
              i < j => inbox.frames[i].sequence < inbox.frames[j].sequence
    BY DEF SessionInv, Numbered
  <2> QED BY <1>1, <1>2, <1>6, <1>7, <2>1, <2>2, <2>3, <2>4, <2>5 DEF Numbered, k
<1>10. Ordered'
  BY <1>7 DEF SessionInv, Ordered
<1>11. /\ FinalPhase' = FinalPhase /\ FinalRuns' = FinalRuns /\ (FinalFailed' <=> FinalFailed)
       /\ EventsAhead' /\ LivesAhead' /\ ResultAhead' /\ Gaps' = Gaps
       /\ Sent("ready")' <=> Sent("ready")
       /\ Sent("result")' <=> Sent("result")
       /\ Sent("error")' <=> Sent("error")
       /\ Sent("terminal")' <=> Sent("terminal")
  BY <1>2, <1>7, FlightSame
<1>12. Ahead'
  BY <1>2, <1>7, <1>11 DEF SessionInv, Ahead
<1>13. Places'
  BY <1>2, <1>11 DEF SessionInv, Places
<1>14. Captured'
  BY <1>2 DEF SessionInv, Captured, Capturing
<1>15. /\ Number(Flight', "event") = Number(Flight, "event")
       /\ Number(Flight', "live_event") = Number(Flight, "live_event")
       /\ Number(Received', "result") = Number(Received, "result")
  BY <1>7, NumberSame
<1>16. Counted'
  <2>1. \A n \in Nat : Later(n) => Later(n)'
    BY <1>2 DEF Later
  <2>2. CASE Capturing
    <3>1. Later(responses.captureSequence)'
      BY <1>2, <2>1, <2>2, Fields DEF SessionInv, Counted
    <3>2. ASSUME NEW f \in Flight, f.type = "live_event", f.n # 0 PROVE Later(f.n)'
      <4>1. f.n \in Nat
        BY <3>2, FlightFacts, FrameFields DEF SessionInv, EventTypes
      <4> QED BY <2>1, <2>2, <3>2, <4>1 DEF SessionInv, Counted
    <3> QED BY <1>2, <1>7, <1>11, <1>15, <2>2, <3>1, <3>2 DEF SessionInv, Counted
  <2>3. CASE ~Capturing
    BY <1>2, <2>3 DEF Counted, Capturing
  <2> QED BY <2>2, <2>3
<1>17. Accounts'
  <2>1. Capturing' <=> Capturing
    BY <1>2 DEF Capturing
  <2> QED BY <1>2, <1>7, <1>15, <2>1, ReceivedSame DEF SessionInv, Accounts
<1>18. Rounds'
  <2>1. Fresh => Fresh'
    BY <1>2, <1>7 DEF Fresh
  <2>2. /\ Told(TRUE) => Told(TRUE)'
        /\ Told(FALSE) => Told(FALSE)'
    BY <1>2, <1>7, <2>1 DEF Told
  <2> QED BY <1>2, <1>7, <1>11, <1>15, <2>1, <2>2 DEF SessionInv, Rounds
<1>19. Endings'
  <2>1. reader # "eof" /\ main.outcome # "success"
    BY <1>1 DEF SessionInv, Endings
  <2> QED BY <1>2, <2>1 DEF SessionInv, Endings
<1> QED BY <1>8, <1>9, <1>10, <1>11, <1>12, <1>13, <1>14, <1>16, <1>17, <1>18, <1>19 DEF SessionInv

-----------------------------------------------------------------------------
(* The reader thread                                                       *)

Oldest == Head(pipe)

\* The form in which the inbox keeps it.
Kept == IF Oldest.type = "result" THEN Receipt(Oldest) ELSE Oldest

\* The step of the reader that queues a frame.
Accepts ==
    /\ reader = "reading" /\ main.at # "ended" /\ pipe # <<>> /\ pipe' = Tail(pipe)
    /\ responses' = Accepted(Oldest) /\ reader' = reader
    /\ \E admitted \in InboxAdmissions : inbox' = InboxAfter(Oldest, admitted)
    /\ UNCHANGED <<childVars, commands, main, tally>>

LEMMA OldestFacts ==
    ASSUME SessionInv, pipe # <<>>
    PROVE  /\ Oldest \in Flight /\ Oldest \in Frame /\ Oldest.sequence = responses.incoming + 1
           /\ \A g \in Flight : g # Oldest => Oldest.sequence < g.sequence /\ Precedes(Oldest, g)
           /\ \A g \in Received : g.sequence < Oldest.sequence /\ Precedes(g, Oldest)
           /\ Oldest \notin Received /\ responses.run = worker.run /\ Oldest.run = worker.run
           /\ responses.phase \notin {"continuation", "terminal"}
<1>1. pipe \in Seq(Frame) /\ responses.incoming \in Nat
  BY Fields DEF SessionInv
<1>2. /\ Oldest \in Frame /\ Oldest = pipe[1] /\ Len(pipe) \in Nat \ {0}
      /\ Members(pipe) = {Oldest} \cup Members(Tail(pipe))
  BY <1>1, MembersTail DEF Oldest
<1>3. Oldest \in Flight
  BY <1>2 DEF Flight
<1>4. Oldest.sequence = responses.incoming + 1
  <2>1. 1 \in 1..Len(pipe)
    BY <1>2
  <2> QED BY <1>2, <2>1 DEF SessionInv, Numbered
<1>5. \A g \in Flight : g # Oldest => Oldest.sequence < g.sequence
  <2>1. \A g \in Flight : responses.incoming < g.sequence /\ g.sequence \in Nat
                          /\ (g.sequence = Oldest.sequence => g = Oldest)
    BY <1>3, FlightFacts DEF SessionInv
  <2> QED BY <1>1, <1>4, <2>1
<1>6. \A g \in Received : g.sequence < Oldest.sequence
  <2>1. \A g \in Received : g.sequence <= responses.incoming /\ g.sequence \in Nat
    BY FlightFacts DEF SessionInv
  <2> QED BY <1>1, <1>4, <2>1
<1>7. Oldest \notin Received
  BY <1>3, FlightFacts DEF SessionInv
<1>8. /\ \A g \in Flight : g # Oldest => Precedes(Oldest, g)
      /\ \A g \in Received : Precedes(g, Oldest)
  BY <1>3, <1>5, <1>6 DEF SessionInv, Ordered
<1>9. /\ responses.run = worker.run /\ Oldest.run = worker.run
      /\ responses.phase \notin {"continuation", "terminal"}
  BY <1>3 DEF SessionInv, Ahead, Rounds
<1> QED BY <1>2, <1>3, <1>4, <1>5, <1>6, <1>7, <1>8, <1>9

\* What is next on the pipe may follow what was accepted.
LEMMA OldestAccepted ==
    ASSUME SessionInv, pipe # <<>>
    PROVE  Acceptable(Oldest) /\ InboxTakes(Oldest)
<1> DEFINE f == Oldest
<1>1. /\ f \in Flight /\ f \in Frame /\ f.sequence = responses.incoming + 1
      /\ \A g \in Flight : g # f => Precedes(f, g)
      /\ responses.run = worker.run /\ f.run = worker.run /\ responses.phase # "terminal"
  BY OldestFacts
<1> HIDE DEF f
<1>2. InSequence(f)
  BY <1>1 DEF InSequence
<1>3. f.type # "ready" => ~Sent("ready")
  BY <1>1 DEF Sent, Precedes
<1>4. f.type \in EventTypes \cup {"result"} => responses.phase = "running"
  BY <1>1, <1>3 DEF SessionInv, Ahead, EventTypes
<1>5. f.type = "ready" => responses.phase = "startup"
  BY <1>1 DEF SessionInv, Ahead
<1>6. f.type = "event" => EventInOrder(f)
  BY <1>1, <1>4 DEF SessionInv, EventsAhead, EventInOrder, EventTypes
<1>7. f.type = "live_event" => LiveInOrder(f)
  BY <1>1, <1>4 DEF SessionInv, LivesAhead, LiveInOrder, EventTypes
<1>8. f.type = "result" => ResultAgrees(f)
  <2> SUFFICES ASSUME f.type = "result" PROVE ResultAgrees(f)
    OBVIOUS
  <2>1. \A g \in Flight : g.type # "live_event"
    BY <1>1 DEF Precedes
  <2>2. Number(Flight, "live_event") = 0
    BY <2>1, NumberNone
  <2>3. f \in Result /\ responses.liveReceived \in Nat
    BY <1>1, Fields, FrameFields DEF SessionInv
  <2>4. f.liveEmitted = responses.liveReceived + 0 + f.liveDropped
    BY <1>1, <2>2 DEF SessionInv, ResultAhead
  <2>5. f.liveEmitted = responses.liveReceived + f.liveDropped
    BY <2>3, <2>4
  <2>6. \A gap \in responses.gaps :
            gap.lost = IF gap.stage = "capture" THEN f.capture ELSE f.retention
    BY <1>1 DEF SessionInv, ResultAhead, Gaps
  <2>7. f.dropped <= f.emitted /\ f.emitted >= responses.eventSequence
        /\ responses.captureSequence <= f.callbacks
    BY <1>1 DEF SessionInv, ResultAhead
  <2> QED BY <1>4, <2>5, <2>6, <2>7 DEF ResultAgrees
<1>9. f.type = "error" => ~responses.failed
  BY <1>1 DEF SessionInv, Ahead
<1>10. f.type = "terminal" => TerminalAgrees(f)
  <2> SUFFICES ASSUME f.type = "terminal" PROVE TerminalAgrees(f)
    OBVIOUS
  <2>1. ~Sent("error") /\ ~Sent("result")
    BY <1>1 DEF Sent, Precedes
  <2>2. f.runs = responses.runs /\ (f.failed <=> responses.failed) /\ responses.phase = "ending"
    BY <1>1, <2>1 DEF SessionInv, Ahead, FinalRuns, FinalFailed
  <2>3. f.failed \in BOOLEAN /\ responses.failed \in BOOLEAN
    BY <1>1, FrameFields DEF SessionInv, Types, Parents, Terminal
  <2> QED BY <2>2, <2>3 DEF TerminalAgrees
<1>11. Acceptable(f)
  <2>1. f.type \in {"ready", "event", "live_event", "result", "error", "terminal"}
    BY <1>1, FrameFields DEF AllTypes, EventTypes, ControlTypes
  <2> QED BY <1>2, <1>5, <1>6, <1>7, <1>8, <1>9, <1>10, <2>1 DEF Acceptable
<1>12. InboxTakes(f)
  BY <1>1, ControlFitsInbox
<1> QED BY <1>11, <1>12 DEF f

LEMMA ReadFrameAccepts ==
    ASSUME SessionInv, ReadFrame
    PROVE  Accepts
<1>1. pipe # <<>>
  BY DEF ReadFrame
<1>2. Acceptable(Oldest) /\ InboxTakes(Oldest)
  BY <1>1, OldestAccepted
<1>3. /\ responses' = Accepted(Oldest) /\ UNCHANGED reader
      /\ \E admitted \in InboxAdmissions : inbox' = InboxAfter(Oldest, admitted)
  BY Zenon, <1>2 DEF ReadFrame, Oldest
<1>4. /\ reader = "reading" /\ main.at # "ended" /\ pipe' = Tail(pipe)
      /\ UNCHANGED <<childVars, commands, main, tally>>
  BY DEF ReadFrame
<1> QED BY <1>1, <1>3, <1>4 DEF Accepts

\* What the reader remembers of the frame it accepts.
LEMMA AcceptedFields ==
    ASSUME SessionInv, Accepts
    PROVE  /\ responses' \in Parents /\ responses'.incoming = responses.incoming + 1
           /\ responses'.run = responses.run
           /\ responses'.phase =
                  CASE Oldest.type = "ready" -> "running"
                    [] Oldest.type = "result" ->
                           (IF worker.role = "server" THEN "continuation" ELSE "ending")
                    [] Oldest.type = "error" -> "ending"
                    [] Oldest.type = "terminal" -> "terminal"
                    [] OTHER -> responses.phase
           /\ responses'.runs = IF Oldest.type = "result" THEN responses.runs + 1 ELSE responses.runs
           /\ responses'.failed <=> (responses.failed \/ Oldest.type = "error")
           /\ responses'.eventSequence = IF Oldest.type = "event" THEN Oldest.n
                                         ELSE responses.eventSequence
           /\ responses'.liveReceived = IF Oldest.type = "live_event" THEN responses.liveReceived + 1
                                        ELSE responses.liveReceived
           /\ responses'.captureSequence =
                  IF Oldest.type = "live_event" /\ Oldest.n # 0 THEN Oldest.n
                  ELSE responses.captureSequence
           /\ responses'.gaps =
                  IF Oldest.type = "live_event" /\ Oldest.n = 0
                  THEN responses.gaps \cup {[stage |-> Oldest.stage, lost |-> Oldest.lost]}
                  ELSE responses.gaps
<1> DEFINE f == Oldest  k == responses.incoming + 1  r == responses.runs + 1
           v == responses.liveReceived + 1
           G == responses.gaps \cup {[stage |-> f.stage, lost |-> f.lost]}
           e == IF worker.role = "server" THEN "continuation" ELSE "ending"
<1>1. responses' = Accepted(f)
  BY DEF Accepts
<1>2. f \in Frame
  BY OldestFacts DEF Accepts
<1>3. f.type \in {"ready", "event", "live_event", "result", "error", "terminal"}
  BY <1>2, FrameFields DEF AllTypes, EventTypes, ControlTypes
<1>4. /\ f.type \in EventTypes => f.n \in Nat
      /\ f.type = "live_event" /\ f.n = 0 => f.stage \in Stages /\ f.lost \in Nat
  BY <1>2, FrameFields
<1>5. responses \in Parents /\ k \in Nat /\ r \in Nat /\ v \in Nat
  <2>1. responses \in Parents
    BY DEF SessionInv, Types
  <2>2. responses.incoming \in Nat /\ responses.runs \in Nat /\ responses.liveReceived \in Nat
    BY Fields DEF SessionInv
  <2> QED BY <2>1, <2>2
<1>6. f.type = "live_event" /\ f.n = 0 => G \in SUBSET [stage : Stages, lost : Nat]
  <2>1. responses.gaps \subseteq [stage : Stages, lost : Nat]
    BY Fields DEF SessionInv
  <2> QED BY <1>4, <2>1
<1>7. /\ f.type = "ready" => responses' = [responses EXCEPT !.incoming = k, !.phase = "running"]
      /\ f.type = "event" => responses' = [responses EXCEPT !.incoming = k, !.eventSequence = f.n]
      /\ f.type = "live_event" /\ f.n # 0 =>
             responses' = [responses EXCEPT !.incoming = k, !.captureSequence = f.n,
                                            !.liveReceived = v]
      /\ f.type = "live_event" /\ f.n = 0 =>
             responses' = [responses EXCEPT !.incoming = k, !.gaps = G, !.liveReceived = v]
      /\ f.type = "result" => responses' = [responses EXCEPT !.incoming = k, !.runs = r, !.phase = e]
      /\ f.type = "error" => responses' = [responses EXCEPT !.incoming = k, !.failed = TRUE,
                                                            !.phase = "ending"]
      /\ f.type = "terminal" => responses' = [responses EXCEPT !.incoming = k, !.phase = "terminal"]
  BY <1>1, <1>5 DEF Accepted, Parents
<1>8. e \in Phases /\ "running" \in Phases /\ "ending" \in Phases /\ "terminal" \in Phases
  BY DEF Phases
<1>9. e = IF worker.role = "server" THEN "continuation" ELSE "ending"
  OBVIOUS
<1>10. G = responses.gaps \cup {[stage |-> f.stage, lost |-> f.lost]}
  OBVIOUS
<1> HIDE DEF k, r, v, G, e
<1>11. CASE f.type = "ready"
  <2>1. responses' = [responses EXCEPT !.incoming = k, !.phase = "running"]
    BY <1>7, <1>11
  <2>2. /\ responses' \in Parents /\ responses'.incoming = k /\ responses'.run = responses.run
        /\ responses'.phase = "running" /\ responses'.runs = responses.runs
        /\ responses'.eventSequence = responses.eventSequence
        /\ responses'.liveReceived = responses.liveReceived
        /\ responses'.captureSequence = responses.captureSequence
        /\ responses'.gaps = responses.gaps
    BY <1>5, <1>8, <2>1 DEF Parents
  <2>3. responses'.failed <=> responses.failed
    BY <1>5, <2>1 DEF Parents
  <2> QED BY <1>10, <1>9, <1>11, <2>2, <2>3 DEF k
<1>12. CASE f.type = "event"
  <2>1. responses' = [responses EXCEPT !.incoming = k, !.eventSequence = f.n]
    BY <1>7, <1>12
  <2>2. /\ responses' \in Parents /\ responses'.incoming = k /\ responses'.run = responses.run
        /\ responses'.phase = responses.phase /\ responses'.runs = responses.runs
        /\ responses'.eventSequence = f.n
        /\ responses'.liveReceived = responses.liveReceived
        /\ responses'.captureSequence = responses.captureSequence
        /\ responses'.gaps = responses.gaps
    BY <1>4, <1>5, <1>12, <2>1 DEF Parents, EventTypes
  <2>3. responses'.failed <=> responses.failed
    BY <1>5, <2>1 DEF Parents
  <2> QED BY <1>10, <1>9, <1>12, <2>2, <2>3 DEF k
<1>13. CASE f.type = "live_event" /\ f.n # 0
  <2>1. responses' = [responses EXCEPT !.incoming = k, !.captureSequence = f.n, !.liveReceived = v]
    BY <1>7, <1>13
  <2>2. /\ responses' \in Parents /\ responses'.incoming = k /\ responses'.run = responses.run
        /\ responses'.phase = responses.phase /\ responses'.runs = responses.runs
        /\ responses'.eventSequence = responses.eventSequence
        /\ responses'.liveReceived = v
        /\ responses'.captureSequence = f.n
        /\ responses'.gaps = responses.gaps
    BY <1>4, <1>5, <1>13, <2>1 DEF Parents, EventTypes
  <2>3. responses'.failed <=> responses.failed
    BY <1>5, <2>1 DEF Parents
  <2> QED BY <1>10, <1>9, <1>13, <2>2, <2>3 DEF k, v
<1>14. CASE f.type = "live_event" /\ f.n = 0
  <2>1. responses' = [responses EXCEPT !.incoming = k, !.gaps = G, !.liveReceived = v]
    BY <1>7, <1>14
  <2>2. /\ responses' \in Parents /\ responses'.incoming = k /\ responses'.run = responses.run
        /\ responses'.phase = responses.phase /\ responses'.runs = responses.runs
        /\ responses'.eventSequence = responses.eventSequence
        /\ responses'.liveReceived = v
        /\ responses'.captureSequence = responses.captureSequence
        /\ responses'.gaps = G
    BY <1>5, <1>6, <1>14, <2>1 DEF Parents
  <2>3. responses'.failed <=> responses.failed
    BY <1>5, <2>1 DEF Parents
  <2> QED BY <1>10, <1>9, <1>14, <2>2, <2>3 DEF k, v
<1>15. CASE f.type = "result"
  <2>1. responses' = [responses EXCEPT !.incoming = k, !.runs = r, !.phase = e]
    BY <1>7, <1>15
  <2>2. /\ responses' \in Parents /\ responses'.incoming = k /\ responses'.run = responses.run
        /\ responses'.phase = e /\ responses'.runs = r
        /\ responses'.eventSequence = responses.eventSequence
        /\ responses'.liveReceived = responses.liveReceived
        /\ responses'.captureSequence = responses.captureSequence
        /\ responses'.gaps = responses.gaps
    BY <1>5, <1>8, <2>1 DEF Parents
  <2>3. responses'.failed <=> responses.failed
    BY <1>5, <2>1 DEF Parents
  <2> QED BY <1>10, <1>9, <1>15, <2>2, <2>3 DEF k, r
<1>16. CASE f.type = "error"
  <2>1. responses' = [responses EXCEPT !.incoming = k, !.failed = TRUE, !.phase = "ending"]
    BY <1>7, <1>16
  <2>2. /\ responses' \in Parents /\ responses'.incoming = k /\ responses'.run = responses.run
        /\ responses'.phase = "ending" /\ responses'.runs = responses.runs /\ responses'.failed
        /\ responses'.eventSequence = responses.eventSequence
        /\ responses'.liveReceived = responses.liveReceived
        /\ responses'.captureSequence = responses.captureSequence
        /\ responses'.gaps = responses.gaps
    BY <1>5, <1>8, <2>1 DEF Parents
  <2> QED BY <1>16, <2>2 DEF k
<1>17. CASE f.type = "terminal"
  <2>1. responses' = [responses EXCEPT !.incoming = k, !.phase = "terminal"]
    BY <1>7, <1>17
  <2>2. /\ responses' \in Parents /\ responses'.incoming = k /\ responses'.run = responses.run
        /\ responses'.phase = "terminal" /\ responses'.runs = responses.runs
        /\ responses'.eventSequence = responses.eventSequence
        /\ responses'.liveReceived = responses.liveReceived
        /\ responses'.captureSequence = responses.captureSequence
        /\ responses'.gaps = responses.gaps
    BY <1>5, <1>8, <2>1 DEF Parents
  <2>3. responses'.failed <=> responses.failed
    BY <1>5, <2>1 DEF Parents
  <2> QED BY <1>17, <2>2, <2>3 DEF k
<1> QED BY <1>3, <1>11, <1>12, <1>13, <1>14, <1>15, <1>16, <1>17

\* What the inbox keeps of it, and counts.
LEMMA InboxFields ==
    ASSUME SessionInv, Accepts
    PROVE  /\ Kept \in Frame /\ Kept.type = Oldest.type /\ Kept.sequence = Oldest.sequence
           /\ Kept \notin Received /\ inbox' \in Inboxes
           /\ Oldest.type = "result" =>
                  /\ Kept.liveEmitted = Oldest.liveEmitted /\ Kept.liveDropped = Oldest.liveDropped
                  /\ Kept.emitted = Oldest.emitted /\ Kept.dropped = Oldest.dropped
                  /\ Kept.parentDropped = inbox.dropped
                  /\ Kept.parentLiveDropped = inbox.liveDropped
           /\ \/ /\ inbox'.frames = Append(inbox.frames, Kept)
                 /\ Received' = Received \cup {Kept}
                 /\ IF Oldest.type = "result" THEN inbox'.dropped = 0 /\ inbox'.liveDropped = 0
                    ELSE inbox'.dropped = inbox.dropped /\ inbox'.liveDropped = inbox.liveDropped
              \/ /\ Oldest.type = "event" /\ inbox'.frames = inbox.frames /\ Received' = Received
                 /\ inbox'.dropped = inbox.dropped + 1 /\ inbox'.liveDropped = inbox.liveDropped
              \/ /\ Oldest.type = "live_event" /\ inbox'.frames = inbox.frames
                 /\ Received' = Received
                 /\ inbox'.dropped = inbox.dropped /\ inbox'.liveDropped = inbox.liveDropped + 1
<1> DEFINE f == Oldest  z == Append(inbox.frames, Kept)
           d == inbox.dropped + 1  e == inbox.liveDropped + 1
<1>1. PICK admitted \in InboxAdmissions : inbox' = InboxAfter(f, admitted) /\ pipe # <<>>
  BY DEF Accepts
<1>2. f \in Frame /\ f.sequence = responses.incoming + 1 /\ \A g \in Received : g.sequence < f.sequence
  BY <1>1, OldestFacts
<1>3. /\ inbox \in Inboxes /\ inbox.frames \in Seq(Frame) /\ inbox.dropped \in Nat
      /\ inbox.liveDropped \in Nat /\ d \in Nat /\ e \in Nat
  <2>1. inbox \in Inboxes
    BY DEF SessionInv, Types
  <2>2. inbox.frames \in Seq(Frame) /\ inbox.dropped \in Nat /\ inbox.liveDropped \in Nat
    BY Fields DEF SessionInv
  <2> QED BY <2>1, <2>2
<1>4. f.type = "result" =>
          /\ Kept \in Result /\ Kept.type = f.type /\ Kept.sequence = f.sequence
          /\ Kept.liveEmitted = f.liveEmitted /\ Kept.liveDropped = f.liveDropped
          /\ Kept.emitted = f.emitted /\ Kept.dropped = f.dropped
          /\ Kept.parentDropped = inbox.dropped /\ Kept.parentLiveDropped = inbox.liveDropped
  <2> SUFFICES ASSUME f.type = "result"
               PROVE  /\ Kept \in Result /\ Kept.type = f.type /\ Kept.sequence = f.sequence
                      /\ Kept.liveEmitted = f.liveEmitted /\ Kept.liveDropped = f.liveDropped
                      /\ Kept.emitted = f.emitted /\ Kept.dropped = f.dropped
                      /\ Kept.parentDropped = inbox.dropped
                      /\ Kept.parentLiveDropped = inbox.liveDropped
    OBVIOUS
  <2>1. f \in Result
    BY <1>2, FrameFields
  <2>2. Kept = [f EXCEPT !.parentDropped = inbox.dropped, !.parentLiveDropped = inbox.liveDropped]
    BY DEF Kept, Receipt
  <2> HIDE DEF f
  <2> QED BY <1>3, <2>1, <2>2 DEF Result
<1>5. f.type # "result" => Kept = f
  BY DEF Kept
<1>6. Kept \in Frame /\ Kept.type = f.type /\ Kept.sequence = f.sequence
  BY <1>2, <1>4, <1>5 DEF Frame
<1>7. Kept \notin Received
  <2>1. f.sequence \in Nat
    BY <1>2, FrameFields
  <2> QED BY <1>2, <1>6, <2>1
<1>8. z \in Seq(Frame) /\ Members(z) = Received \cup {Kept}
  BY <1>3, <1>6, MembersAppend DEF Received
<1>9. \/ f.type = "event" /\ inbox' = [inbox EXCEPT !.dropped = d]
      \/ f.type = "live_event" /\ inbox' = [inbox EXCEPT !.liveDropped = e]
      \/ f.type = "result" /\ inbox' = [frames |-> z, dropped |-> 0, liveDropped |-> 0]
      \/ f.type # "result" /\ inbox' = [inbox EXCEPT !.frames = z]
  <2>1. CASE f.type \in EventTypes /\ ~admitted
    <3>1. inbox' = IF f.type = "event" THEN [inbox EXCEPT !.dropped = @ + 1]
                   ELSE [inbox EXCEPT !.liveDropped = @ + 1]
      BY <1>1, <2>1 DEF InboxAfter
    <3>2. f.type = "event" \/ f.type = "live_event"
      BY <2>1 DEF EventTypes
    <3> QED BY <1>3, <3>1, <3>2 DEF Inboxes
  <2>2. CASE ~(f.type \in EventTypes /\ ~admitted)
    <3>1. inbox' = IF f.type = "result" THEN StampResult(f)
                   ELSE [inbox EXCEPT !.frames = Append(@, f)]
      BY <1>1, <2>2 DEF InboxAfter
    <3>2. CASE f.type = "result"
      BY <3>1, <3>2 DEF StampResult, Kept
    <3>3. CASE f.type # "result"
      <4>1. z = Append(inbox.frames, f)
        BY <1>5, <3>3
      <4> QED BY <1>3, <3>1, <3>3, <4>1 DEF Inboxes
    <3> QED BY <3>2, <3>3
  <2> QED BY <2>1, <2>2
<1>10. z = Append(inbox.frames, Kept) /\ d = inbox.dropped + 1 /\ e = inbox.liveDropped + 1
  OBVIOUS
<1> HIDE DEF z, d, e
<1>11. \/ /\ inbox'.frames = z
          /\ IF f.type = "result" THEN inbox'.dropped = 0 /\ inbox'.liveDropped = 0
             ELSE inbox'.dropped = inbox.dropped /\ inbox'.liveDropped = inbox.liveDropped
       \/ /\ f.type = "event" /\ inbox'.frames = inbox.frames
          /\ inbox'.dropped = d /\ inbox'.liveDropped = inbox.liveDropped
       \/ /\ f.type = "live_event" /\ inbox'.frames = inbox.frames
          /\ inbox'.dropped = inbox.dropped /\ inbox'.liveDropped = e
  BY <1>3, <1>8, <1>9 DEF Inboxes
<1>12. inbox' \in Inboxes
  BY <1>3, <1>8, <1>9 DEF Inboxes
<1>13. /\ inbox'.frames = z => Received' = Received \cup {Kept}
       /\ inbox'.frames = inbox.frames => Received' = Received
  BY <1>8 DEF Received
<1> QED BY <1>4, <1>6, <1>7, <1>10, <1>11, <1>12, <1>13

\* What the parent has received is what was under way.
LEMMA FlightRead ==
    ASSUME SessionInv, Accepts
    PROVE  /\ Flight' = Flight \ {Oldest} /\ Numbered' /\ Ordered' /\ pipe' \in Seq(Frame)
           /\ worker' = worker /\ capture' = capture /\ out' = out /\ commands' = commands
           /\ main' = main /\ tally' = tally /\ reader' = reader
           /\ Number(Flight, "event") =
                  Number(Flight', "event") + (IF Oldest.type = "event" THEN 1 ELSE 0)
           /\ Number(Flight, "live_event") =
                  Number(Flight', "live_event") + (IF Oldest.type = "live_event" THEN 1 ELSE 0)
           /\ Number(Flight', "event") \in Nat /\ Number(Flight', "live_event") \in Nat
<1> DEFINE s == pipe  t == Tail(pipe)  Q == out.frames  k == responses.incoming
           R == inbox.frames  z == Append(R, Kept)
<1>1. /\ pipe # <<>> /\ pipe' = t /\ worker' = worker /\ capture' = capture /\ out' = out
      /\ commands' = commands /\ main' = main /\ tally' = tally /\ reader' = reader
  BY DEF Accepts, childVars
<1>2. pipe \in Seq(Frame) /\ out.frames \in Seq(Frame) /\ R \in Seq(Frame) /\ k \in Nat
  BY Fields DEF SessionInv
<1>3. /\ Oldest = s[1] /\ Len(s) \in Nat \ {0} /\ t \in Seq(Frame)
      /\ Len(t) = Len(s) - 1 /\ \A i \in 1..Len(t) : t[i] = s[i + 1]
      /\ Members(s) = {Oldest} \cup Members(t)
  BY <1>1, <1>2, MembersTail DEF Oldest
<1>4. /\ Oldest \in Flight /\ Oldest.sequence = k + 1
      /\ \A g \in Flight : g # Oldest => Oldest.sequence < g.sequence /\ Precedes(Oldest, g)
      /\ \A g \in Received : g.sequence < Oldest.sequence /\ Precedes(g, Oldest)
  BY <1>1, OldestFacts
<1>5. /\ \A i \in 1..Len(s) : s[i].sequence = k + i
      /\ \A i \in 1..Len(Q) : Q[i].sequence = k + Len(s) + i
      /\ worker.at # "exited" => out.sequence = k + Len(s) + Len(Q) /\ ~out.closed
      /\ worker.at = "exited" => Q = <<>>
      /\ \A f \in Received : f.sequence <= k
      /\ \A i, j \in 1..Len(R) : i < j => R[i].sequence < R[j].sequence
  BY DEF SessionInv, Numbered
<1>6. responses'.incoming = k + 1
  BY AcceptedFields
<1>7. /\ Kept \in Frame /\ Kept.type = Oldest.type /\ Kept.sequence = k + 1
      /\ \/ inbox'.frames = z /\ Received' = Received \cup {Kept}
         \/ inbox'.frames = R /\ Received' = Received
  BY <1>4, InboxFields
<1>8. Len(z) = Len(R) + 1 /\ (\A i \in 1..Len(R) : z[i] = R[i]) /\ z[Len(R) + 1] = Kept
  BY <1>2, <1>7, MembersAppend
<1> HIDE DEF t, z, s, Q, k, R
<1>9. \A i \in 1..Len(t) : t[i].sequence = (k + 1) + i
  <2> SUFFICES ASSUME NEW i \in 1..Len(t) PROVE t[i].sequence = (k + 1) + i
    OBVIOUS
  <2>1. i + 1 \in 1..Len(s) /\ t[i] = s[i + 1]
    BY <1>3
  <2>2. t[i].sequence = k + (i + 1)
    BY <1>5, <2>1
  <2> QED BY <1>2, <2>2
<1>10. \A i \in 1..Len(Q) : Q[i].sequence = (k + 1) + Len(t) + i
  BY <1>2, <1>3, <1>5
<1>11. Flight' = Members(t) \cup Members(Q)
  BY <1>1 DEF Flight, Q
<1>12. Oldest \notin Flight'
  <2>1. \A h \in Members(t) \cup Members(Q) : h.sequence \in Nat /\ k + 1 < h.sequence
    <3>1. \A h \in Members(t) : h.sequence \in Nat /\ k + 1 < h.sequence
      BY <1>2, <1>9 DEF Members
    <3>2. \A h \in Members(Q) : h.sequence \in Nat /\ k + 1 < h.sequence
      BY <1>2, <1>3, <1>10 DEF Members, Q
    <3> QED BY <3>1, <3>2
  <2> QED BY <1>2, <1>4, <1>11, <2>1
<1>13. Flight' = Flight \ {Oldest}
  <2>1. Flight = Members(s) \cup Members(Q)
    BY DEF Flight, s, Q
  <2> QED BY <1>3, <1>11, <1>12, <2>1
<1>14. Numbered'
  <2>1. worker.at # "exited" => out.sequence = (k + 1) + Len(t) + Len(Q) /\ ~out.closed
    <3>1. Len(Q) \in Nat
      BY <1>2 DEF Q
    <3> QED BY <1>2, <1>3, <1>5, <3>1
  <2>2. \A f \in Received' : f.sequence <= k + 1
    <3>1. \A f \in Received : f.sequence <= k + 1
      <4>1. \A f \in Received : f.sequence \in Nat
        BY FlightFacts DEF SessionInv
      <4> QED BY <1>2, <1>5, <4>1
    <3> QED BY <1>2, <1>7, <3>1
  <2>3. \A i, j \in 1..Len(z) : i < j => z[i].sequence < z[j].sequence
    <3> SUFFICES ASSUME NEW i \in 1..Len(z), NEW j \in 1..Len(z), i < j
                 PROVE z[i].sequence < z[j].sequence
      OBVIOUS
    <3>1. Len(R) \in Nat
      BY <1>2
    <3>2. i \in 1..Len(R)
      BY <1>8, <3>1
    <3>3. CASE j \in 1..Len(R)
      BY <1>5, <1>8, <3>2, <3>3
    <3>4. CASE j = Len(R) + 1
      <4>1. R[i] \in Received
        BY <3>2 DEF Received, Members, R
      <4>2. R[i].sequence < k + 1
        BY <1>4, <4>1
      <4> QED BY <1>7, <1>8, <3>2, <3>4, <4>2
    <3> QED BY <1>8, <3>1, <3>3, <3>4
  <2>4. \A i, j \in 1..Len(inbox'.frames) :
            i < j => inbox'.frames[i].sequence < inbox'.frames[j].sequence
    BY <1>5, <1>7, <2>3
  <2> QED BY <1>1, <1>5, <1>6, <1>9, <1>10, <2>1, <2>2, <2>4 DEF Numbered, Q, t
<1>15. Ordered'
  <2> DEFINE A == Received \cup Flight
  <2>1. \A f \in Received' \cup Flight' : f \in A \/ f = Kept
    BY <1>7, <1>13
  <2>2. /\ \A g \in Flight' : Precedes(Kept, g)
        /\ \A g \in Received : Precedes(g, Kept)
    BY <1>4, <1>7, <1>13 DEF Precedes
  <2>3. \A g \in Flight' : Kept.sequence < g.sequence /\ g.sequence \in Nat
    <3>1. \A g \in Flight : g.sequence \in Nat
      BY FlightFacts DEF SessionInv
    <3> QED BY <1>4, <1>7, <1>13, <3>1
  <2> SUFFICES ASSUME NEW f \in Received' \cup Flight', NEW g \in Received' \cup Flight',
                      f.sequence < g.sequence
               PROVE Precedes(f, g)
    BY DEF Ordered
  <2>4. CASE f # Kept /\ g # Kept
    BY <2>1, <2>4 DEF SessionInv, Ordered
  <2>5. CASE f = Kept /\ g \in Flight'
    BY <2>2, <2>5
  <2>6. CASE f = Kept /\ g \in Received
    <3>1. g.sequence < k + 1 /\ g.sequence \in Nat
      BY <1>4, <2>6, FlightFacts DEF SessionInv
    <3> QED BY <1>2, <1>7, <2>6, <3>1
  <2>7. CASE f = Kept /\ g = Kept
    BY <1>2, <1>7, <2>7
  <2>8. CASE g = Kept /\ f \in Received
    BY <2>2, <2>8
  <2>9. CASE g = Kept /\ f \in Flight'
    BY <1>2, <1>7, <2>3, <2>9
  <2> QED BY <1>7, <2>4, <2>5, <2>6, <2>7, <2>8, <2>9
<1>16. IsFiniteSet(Flight) /\ IsFiniteSet(Flight \ {Oldest})
  BY FlightFacts, FS_Subset DEF SessionInv
<1>17. /\ Number(Flight \ {Oldest}, "event") \in Nat
       /\ Number(Flight \ {Oldest}, "live_event") \in Nat
  BY <1>16, NumberTyped
<1>18. /\ Number(Flight', "event") = Number(Flight \ {Oldest}, "event")
       /\ Number(Flight', "live_event") = Number(Flight \ {Oldest}, "live_event")
  BY <1>13, NumberSame
<1>19. /\ Number(Flight, "event") =
              Number(Flight', "event") + (IF Oldest.type = "event" THEN 1 ELSE 0)
       /\ Number(Flight, "live_event") =
              Number(Flight', "live_event") + (IF Oldest.type = "live_event" THEN 1 ELSE 0)
  <2>1. \A type : /\ Oldest.type = type =>
                         Number(Flight, type) = Number(Flight \ {Oldest}, type) + 1
                  /\ Oldest.type # type => Number(Flight, type) = Number(Flight \ {Oldest}, type)
    BY <1>4, <1>16, NumberLess
  <2>2. /\ Oldest.type = "event" =>
               Number(Flight, "event") = Number(Flight \ {Oldest}, "event") + 1
        /\ Oldest.type # "event" => Number(Flight, "event") = Number(Flight \ {Oldest}, "event")
        /\ Oldest.type = "live_event" =>
               Number(Flight, "live_event") = Number(Flight \ {Oldest}, "live_event") + 1
        /\ Oldest.type # "live_event" =>
               Number(Flight, "live_event") = Number(Flight \ {Oldest}, "live_event")
    BY <2>1
  <2> QED BY <1>17, <1>18, <2>2
<1>20. pipe' \in Seq(Frame)
  BY <1>1, <1>3
<1>21. Number(Flight', "event") \in Nat /\ Number(Flight', "live_event") \in Nat
  BY <1>17, <1>18
<1> QED BY <1>1, <1>13, <1>14, <1>15, <1>19, <1>20, <1>21

\* An event that is read is received, or counted as dropped.
LEMMA ReceivedRead ==
    ASSUME SessionInv, Accepts
    PROVE  /\ Received' \subseteq Received \cup {Kept}
           /\ Oldest.type \notin EventTypes => Received' = Received \cup {Kept}
           /\ Number(Received', "result") =
                  Number(Received, "result") + (IF Oldest.type = "result" THEN 1 ELSE 0)
           /\ Oldest.type # "result" =>
                  /\ EventsReceived' = EventsReceived + (IF Oldest.type = "event" THEN 1 ELSE 0)
                  /\ LivesReceived' = LivesReceived + (IF Oldest.type = "live_event" THEN 1 ELSE 0)
           /\ Oldest.type \in {"ready", "error", "terminal"} =>
                  inbox'.dropped = inbox.dropped /\ inbox'.liveDropped = inbox.liveDropped
           /\ Oldest.type = "result" =>
                  /\ inbox'.dropped = 0 /\ inbox'.liveDropped = 0
                  /\ EventsReceived = EventsReceived' + inbox.dropped
                  /\ LivesReceived = LivesReceived' + inbox.liveDropped
<1> DEFINE f == Oldest
           a == Number(Received, "event")   b == Number(Received, "live_event")
           c == Number(Received, "result")
           x == Number(Received', "event")  y == Number(Received', "live_event")
           w == Number(Received', "result")
<1>1. tally' = tally
  BY FlightRead
<1>2. /\ Kept.type = f.type /\ Kept \notin Received
      /\ \/ /\ Received' = Received \cup {Kept}
            /\ IF f.type = "result" THEN inbox'.dropped = 0 /\ inbox'.liveDropped = 0
               ELSE inbox'.dropped = inbox.dropped /\ inbox'.liveDropped = inbox.liveDropped
         \/ /\ f.type = "event" /\ Received' = Received
            /\ inbox'.dropped = inbox.dropped + 1 /\ inbox'.liveDropped = inbox.liveDropped
         \/ /\ f.type = "live_event" /\ Received' = Received
            /\ inbox'.dropped = inbox.dropped /\ inbox'.liveDropped = inbox.liveDropped + 1
  BY InboxFields
<1>3. IsFiniteSet(Received)
  BY FlightFacts DEF SessionInv
<1>4. a \in Nat /\ b \in Nat /\ c \in Nat
  BY <1>3, NumberTyped
<1>5. /\ inbox.dropped \in Nat /\ inbox.liveDropped \in Nat
      /\ tally.events \in Nat /\ tally.lives \in Nat /\ tally.lost \in Nat
  BY Fields DEF SessionInv
<1>6. Received' = Received \cup {Kept} =>
          /\ x = a + (IF f.type = "event" THEN 1 ELSE 0)
          /\ y = b + (IF f.type = "live_event" THEN 1 ELSE 0)
          /\ w = c + (IF f.type = "result" THEN 1 ELSE 0)
  <2> SUFFICES ASSUME Received' = Received \cup {Kept}
               PROVE  /\ x = a + (IF f.type = "event" THEN 1 ELSE 0)
                      /\ y = b + (IF f.type = "live_event" THEN 1 ELSE 0)
                      /\ w = c + (IF f.type = "result" THEN 1 ELSE 0)
    OBVIOUS
  <2>1. \A type : /\ Kept.type = type =>
                         Number(Received \cup {Kept}, type) = Number(Received, type) + 1
                  /\ Kept.type # type =>
                         Number(Received \cup {Kept}, type) = Number(Received, type)
    BY <1>2, <1>3, NumberMore
  <2>2. /\ x = Number(Received \cup {Kept}, "event")
        /\ y = Number(Received \cup {Kept}, "live_event")
        /\ w = Number(Received \cup {Kept}, "result")
    BY NumberSame
  <2>3. /\ Kept.type = "event" => x = a + 1
        /\ Kept.type # "event" => x = a
        /\ Kept.type = "live_event" => y = b + 1
        /\ Kept.type # "live_event" => y = b
        /\ Kept.type = "result" => w = c + 1
        /\ Kept.type # "result" => w = c
    BY <2>1, <2>2
  <2> HIDE DEF a, b, c, x, y, w
  <2> QED BY <1>2, <1>4, <2>3
<1>7. Received' = Received => x = a /\ y = b /\ w = c
  BY NumberSame
<1>8. /\ EventsReceived = tally.events + a + inbox.dropped
      /\ LivesReceived = tally.lives + tally.lost + b + inbox.liveDropped
      /\ EventsReceived' = tally.events + x + inbox'.dropped
      /\ LivesReceived' = tally.lives + tally.lost + y + inbox'.liveDropped
  BY <1>1 DEF EventsReceived, LivesReceived
<1> HIDE DEF a, b, c, x, y, w
<1>9. w = c + (IF f.type = "result" THEN 1 ELSE 0)
  BY <1>2, <1>4, <1>6, <1>7
<1>10. f.type = "result" =>
           /\ inbox'.dropped = 0 /\ inbox'.liveDropped = 0
           /\ EventsReceived = EventsReceived' + inbox.dropped
           /\ LivesReceived = LivesReceived' + inbox.liveDropped
  BY <1>2, <1>4, <1>5, <1>6, <1>8
<1>11. f.type # "result" =>
           /\ EventsReceived' = EventsReceived + (IF f.type = "event" THEN 1 ELSE 0)
           /\ LivesReceived' = LivesReceived + (IF f.type = "live_event" THEN 1 ELSE 0)
  <2> SUFFICES ASSUME f.type # "result"
               PROVE /\ EventsReceived' = EventsReceived + (IF f.type = "event" THEN 1 ELSE 0)
                     /\ LivesReceived' = LivesReceived + (IF f.type = "live_event" THEN 1 ELSE 0)
    OBVIOUS
  <2>1. \/ /\ x = a + (IF f.type = "event" THEN 1 ELSE 0)
           /\ y = b + (IF f.type = "live_event" THEN 1 ELSE 0)
           /\ inbox'.dropped = inbox.dropped /\ inbox'.liveDropped = inbox.liveDropped
        \/ /\ f.type = "event" /\ x = a /\ y = b
           /\ inbox'.dropped = inbox.dropped + 1 /\ inbox'.liveDropped = inbox.liveDropped
        \/ /\ f.type = "live_event" /\ x = a /\ y = b
           /\ inbox'.dropped = inbox.dropped /\ inbox'.liveDropped = inbox.liveDropped + 1
    BY <1>2, <1>6, <1>7
  <2> DEFINE p == IF f.type = "event" THEN 1 ELSE 0
             q == IF f.type = "live_event" THEN 1 ELSE 0
             d == inbox.dropped  e == inbox.liveDropped  m == inbox'.dropped
             n == inbox'.liveDropped  u == tally.events  v == tally.lives + tally.lost
  <2>2. /\ p \in Nat /\ q \in Nat /\ d \in Nat /\ e \in Nat /\ u \in Nat /\ v \in Nat
        /\ f.type = "event" => p = 1 /\ q = 0
        /\ f.type = "live_event" => p = 0 /\ q = 1
    BY <1>5
  <2>3. \/ x = a + p /\ y = b + q /\ m = d /\ n = e
        \/ p = 1 /\ q = 0 /\ x = a /\ y = b /\ m = d + 1 /\ n = e
        \/ p = 0 /\ q = 1 /\ x = a /\ y = b /\ m = d /\ n = e + 1
    BY <2>1, <2>2
  <2>4. /\ EventsReceived = u + a + d /\ LivesReceived = v + b + e
        /\ EventsReceived' = u + x + m /\ LivesReceived' = v + y + n
    BY <1>8
  <2> HIDE DEF p, q, d, e, m, n, u, v
  <2>5. EventsReceived' = EventsReceived + p
    BY <1>4, <2>2, <2>3, <2>4
  <2>6. LivesReceived' = LivesReceived + q
    BY <1>4, <2>2, <2>3, <2>4
  <2> QED BY <2>5, <2>6 DEF p, q
<1>12. /\ Received' \subseteq Received \cup {Kept}
       /\ f.type \notin EventTypes => Received' = Received \cup {Kept}
       /\ f.type \in {"ready", "error", "terminal"} =>
              inbox'.dropped = inbox.dropped /\ inbox'.liveDropped = inbox.liveDropped
  BY <1>2 DEF EventTypes
<1> QED BY <1>9, <1>10, <1>11, <1>12 DEF c, w

\* Reading moves the parent towards the phase it was going to be in.
LEMMA FinalRead ==
    ASSUME SessionInv, Accepts
    PROVE  /\ FinalPhase' = FinalPhase /\ FinalRuns' = FinalRuns /\ (FinalFailed' <=> FinalFailed)
           /\ Sent("ready") => Sent("ready")' \/ Oldest.type = "ready"
           /\ Sent("ready")' => Sent("ready")
           /\ Sent("result") => Sent("result")' \/ Oldest.type = "result"
           /\ Sent("result")' => Sent("result")
           /\ Sent("error") => Sent("error")' \/ Oldest.type = "error"
           /\ Sent("error")' => Sent("error")
           /\ Sent("terminal") => Sent("terminal")' \/ Oldest.type = "terminal"
           /\ Sent("terminal")' => Sent("terminal")
           /\ Oldest.type = "terminal" => Flight' = {}
           /\ Oldest.type = "result" /\ worker.role = "server" => Flight' = {}
<1> DEFINE f == Oldest
<1>1. pipe # <<>>
  BY DEF Accepts
<1>2. f \in Flight /\ (\A g \in Flight : g # f => Precedes(f, g))
      /\ f.type \in {"ready", "event", "live_event", "result", "error", "terminal"}
  <2>1. f \in Frame
    BY <1>1, OldestFacts
  <2>2. f.type \in {"ready", "event", "live_event", "result", "error", "terminal"}
    BY <2>1, FrameFields DEF AllTypes, EventTypes, ControlTypes
  <2> QED BY <1>1, <2>2, OldestFacts
<1>3. Flight' = Flight \ {f} /\ worker' = worker
  BY FlightRead
<1>4. /\ Sent("ready") <=> Sent("ready")' \/ f.type = "ready"
      /\ Sent("result") <=> Sent("result")' \/ f.type = "result"
      /\ Sent("error") <=> Sent("error")' \/ f.type = "error"
      /\ Sent("terminal") <=> Sent("terminal")' \/ f.type = "terminal"
  BY <1>2, <1>3 DEF Sent
<1>5. ~Sent("ready")'
  BY <1>2, <1>3 DEF Sent, Precedes
<1>6. /\ f.type = "result" => ~Sent("result")'
      /\ f.type = "error" => ~Sent("result")' /\ ~Sent("error")'
      /\ f.type = "terminal" => Flight' = {}
  BY <1>2, <1>3 DEF Sent, Precedes
<1>7. /\ responses'.phase =
             CASE f.type = "ready" -> "running"
               [] f.type = "result" ->
                      (IF worker.role = "server" THEN "continuation" ELSE "ending")
               [] f.type = "error" -> "ending"
               [] f.type = "terminal" -> "terminal"
               [] OTHER -> responses.phase
      /\ responses'.runs = IF f.type = "result" THEN responses.runs + 1 ELSE responses.runs
      /\ responses'.failed <=> (responses.failed \/ f.type = "error")
  BY AcceptedFields
<1>8. f.type = "result" /\ worker.role = "server" => Flight' = {}
  <2> SUFFICES ASSUME f.type = "result", worker.role = "server" PROVE Flight' = {}
    OBVIOUS
  <2>1. ~Sent("error") /\ ~Sent("terminal")
    BY <1>2 DEF SessionInv, Ahead
  <2> QED BY <1>2, <1>3, <2>1 DEF Sent, Precedes
<1>9. Flight' = {} => ~Sent("ready")' /\ ~Sent("result")' /\ ~Sent("error")' /\ ~Sent("terminal")'
  BY DEF Sent
<1>10. worker.role \in {"client", "server"}
  BY DEF SessionInv, Types, Workers
<1> HIDE DEF f
<1>11. FinalRuns' = FinalRuns
  <2>1. CASE f.type = "result"
    BY <1>4, <1>6, <1>7, <2>1 DEF FinalRuns
  <2>2. CASE f.type # "result"
    BY <1>4, <1>7, <2>2 DEF FinalRuns
  <2> QED BY <2>1, <2>2
<1>12. FinalFailed' <=> FinalFailed
  BY <1>4, <1>7 DEF FinalFailed
<1>13. FinalPhase' = FinalPhase
  <2>1. CASE f.type = "ready"
    BY <1>4, <1>5, <1>7, <1>3, <2>1 DEF FinalPhase
  <2>2. CASE f.type \in {"event", "live_event"}
    BY <1>4, <1>5, <1>7, <1>3, <2>2 DEF FinalPhase
  <2>3. CASE f.type = "result"
    BY <1>3, <1>4, <1>5, <1>6, <1>7, <1>8, <1>9, <1>10, <2>3 DEF FinalPhase
  <2>4. CASE f.type = "error"
    BY <1>3, <1>4, <1>5, <1>6, <1>7, <2>4 DEF FinalPhase
  <2>5. CASE f.type = "terminal"
    BY <1>3, <1>4, <1>5, <1>6, <1>7, <1>9, <2>5 DEF FinalPhase
  <2> QED BY <1>2, <2>1, <2>2, <2>3, <2>4, <2>5
<1> QED BY <1>4, <1>6, <1>8, <1>11, <1>12, <1>13 DEF f

\* What is still under way will be accepted too.
LEMMA AheadRead ==
    ASSUME SessionInv, Accepts
    PROVE  Ahead' /\ EventsAhead' /\ LivesAhead' /\ Gaps' \subseteq Gaps
<1> DEFINE f == Oldest
<1>1. /\ f \in Flight /\ f \in Frame /\ responses.run = worker.run
      /\ \A g \in Flight : g # f => f.sequence < g.sequence /\ Precedes(f, g)
      /\ f.type \in {"ready", "event", "live_event", "result", "error", "terminal"}
  <2>1. pipe # <<>>
    BY DEF Accepts
  <2>2. f \in Frame
    BY <2>1, OldestFacts
  <2>3. f.type \in {"ready", "event", "live_event", "result", "error", "terminal"}
    BY <2>2, FrameFields DEF AllTypes, EventTypes, ControlTypes
  <2> QED BY <2>1, <2>3, OldestFacts
<1>2. Flight' = Flight \ {f} /\ worker' = worker /\ commands' = commands /\ main' = main
  BY FlightRead
<1>3. \A g \in Flight' : g \in Flight /\ g # f /\ f.sequence < g.sequence /\ Precedes(f, g)
  BY <1>1, <1>2
<1>4. /\ responses'.run = responses.run
      /\ responses'.phase =
             CASE f.type = "ready" -> "running"
               [] f.type = "result" ->
                      (IF worker.role = "server" THEN "continuation" ELSE "ending")
               [] f.type = "error" -> "ending"
               [] f.type = "terminal" -> "terminal"
               [] OTHER -> responses.phase
      /\ responses'.failed <=> (responses.failed \/ f.type = "error")
  BY AcceptedFields
<1>5. /\ responses'.eventSequence = IF f.type = "event" THEN f.n ELSE responses.eventSequence
      /\ responses'.captureSequence = IF f.type = "live_event" /\ f.n # 0 THEN f.n
                                      ELSE responses.captureSequence
      /\ responses'.gaps = IF f.type = "live_event" /\ f.n = 0
                           THEN responses.gaps \cup {[stage |-> f.stage, lost |-> f.lost]}
                           ELSE responses.gaps
  BY AcceptedFields
<1>6. /\ FinalRuns' = FinalRuns /\ (FinalFailed' <=> FinalFailed)
      /\ Sent("ready") => Sent("ready")' \/ f.type = "ready"
      /\ Sent("result") => Sent("result")' \/ f.type = "result"
      /\ Sent("error") => Sent("error")' \/ f.type = "error"
      /\ Sent("error")' => Sent("error")
      /\ Sent("terminal")' => Sent("terminal")
      /\ f.type = "terminal" => Flight' = {}
      /\ f.type = "result" /\ worker.role = "server" => Flight' = {}
  BY FinalRead
<1>7. worker.role \in {"client", "server"}
  BY DEF SessionInv, Types, Workers
<1>8. f.type = "event" => responses.phase = "running"
  <2>1. Acceptable(f)
    BY OldestAccepted DEF Accepts
  <2>2. f.type = "event" => EventInOrder(f)
    BY <2>1 DEF Acceptable
  <2> QED BY <2>2 DEF EventInOrder
<1>9. f.type = "live_event" => responses.phase = "running"
  <2>1. Acceptable(f)
    BY OldestAccepted DEF Accepts
  <2>2. f.type = "live_event" => LiveInOrder(f)
    BY <2>1 DEF Acceptable
  <2> QED BY <2>2 DEF LiveInOrder
<1> HIDE DEF f
<1>10. Ahead'
  <2>1. Flight' # {} => responses'.run = worker.run /\ responses'.phase # "terminal"
    <3>1. responses.phase # "terminal"
      BY <1>1 DEF SessionInv, Ahead
    <3> QED BY <1>1, <1>4, <1>6, <3>1
  <2>2. ASSUME NEW g \in Flight'
        PROVE  /\ g.run = worker.run
               /\ g.type = "ready" => responses'.phase = "startup"
               /\ g.type \in EventTypes \cup {"result"} => responses'.phase = "running"
               /\ g.type = "error" => ~responses'.failed
    <3>1. /\ g.type # "ready" /\ g.run = worker.run /\ Precedes(f, g)
          /\ g.type = "error" => ~responses.failed
      BY <1>3, <2>2 DEF SessionInv, Ahead, Precedes
    <3>2. g.type \in EventTypes \cup {"result"} => f.type \in {"ready", "event", "live_event"}
      BY <1>1, <3>1 DEF Precedes, EventTypes
    <3>3. f.type \in {"ready", "event", "live_event"} =>
              responses'.phase = "running"
      BY <1>4, <1>8, <1>9
    <3>4. g.type = "error" => f.type # "error"
      BY <3>1 DEF Precedes
    <3> QED BY <1>4, <3>1, <3>2, <3>3, <3>4
  <2>3. ASSUME NEW g \in Flight', g.type = "terminal"
        PROVE  /\ g.runs = FinalRuns' /\ (g.failed <=> FinalFailed')
               /\ \/ responses'.phase = "ending" \/ Sent("error")'
                  \/ Sent("result")' /\ worker.role = "client"
    <3>1. /\ g.runs = FinalRuns /\ (g.failed <=> FinalFailed)
          /\ \/ responses.phase = "ending" \/ Sent("error")
             \/ Sent("result") /\ worker.role = "client"
      BY <1>3, <2>3 DEF SessionInv, Ahead
    <3>2. f.type # "terminal" /\ (f.type = "result" => worker.role = "client")
      BY <1>6, <1>7, <2>3
    <3>3. f.type = "ready" => responses.phase = "startup"
      BY <1>1 DEF SessionInv, Ahead
    <3>4. CASE f.type \in {"ready", "event", "live_event"}
      BY <1>6, <1>8, <1>9, <3>1, <3>3, <3>4
    <3>5. CASE f.type \in {"result", "error"}
      BY <1>4, <1>6, <3>1, <3>2, <3>5
    <3> QED BY <1>1, <3>2, <3>4, <3>5, <1>6, <3>1
  <2>4. ASSUME NEW g \in Flight', worker.role = "server", g.type = "result"
        PROVE  /\ worker.at \in {"command", "exited"} /\ (worker.at = "exited" => worker.cut)
               /\ worker.count = worker.run /\ ~Sent("error")' /\ ~Sent("terminal")'
               /\ main.at \in {"loop", "ended"} /\ commands = <<>>
    BY <1>3, <1>6, <2>4 DEF SessionInv, Ahead
  <2> QED BY <1>2, <2>1, <2>2, <2>3, <2>4 DEF Ahead
<1>11. EventsAhead'
  <2> SUFFICES ASSUME NEW g \in Flight', g.type = "event"
               PROVE  /\ Legacy /\ g.n > responses'.eventSequence
                      /\ \A h \in Flight' : h.type = "event" /\ g.sequence < h.sequence => g.n < h.n
    BY DEF EventsAhead
  <2>1. /\ Legacy /\ g.n > responses.eventSequence
        /\ \A h \in Flight : h.type = "event" /\ g.sequence < h.sequence => g.n < h.n
    BY <1>3 DEF SessionInv, EventsAhead
  <2>2. f.type = "event" => f.n < g.n
    BY <1>1, <1>3 DEF SessionInv, EventsAhead
  <2>3. f.n \in Nat \/ f.type # "event"
    BY <1>1, FrameFields DEF EventTypes
  <2>4. g.n \in Nat
    BY <1>3, FlightFacts, FrameFields DEF SessionInv, EventTypes
  <2>5. g.n > responses'.eventSequence
    BY <1>5, <2>1, <2>2, <2>3, <2>4
  <2> QED BY <1>3, <2>1, <2>5
<1>12. LivesAhead'
  <2> SUFFICES ASSUME NEW g \in Flight', g.type = "live_event"
               PROVE  /\ Live
                      /\ g.n # 0 => g.n > responses'.captureSequence /\ responses'.gaps = {}
                      /\ g.n = 0 => \A gap \in responses'.gaps : gap.stage # g.stage
                      /\ \A h \in Flight' : h.type = "live_event" /\ g.sequence < h.sequence =>
                             /\ g.n # 0 /\ h.n # 0 => g.n < h.n
                             /\ g.n = 0 => h.n = 0 /\ h.stage # g.stage
    BY DEF LivesAhead
  <2>1. /\ Live
        /\ g.n # 0 => g.n > responses.captureSequence /\ responses.gaps = {}
        /\ g.n = 0 => \A gap \in responses.gaps : gap.stage # g.stage
        /\ \A h \in Flight : h.type = "live_event" /\ g.sequence < h.sequence =>
               /\ g.n # 0 /\ h.n # 0 => g.n < h.n
               /\ g.n = 0 => h.n = 0 /\ h.stage # g.stage
    BY <1>3 DEF SessionInv, LivesAhead
  <2>2. f.type = "live_event" =>
            /\ f.n # 0 /\ g.n # 0 => f.n < g.n
            /\ f.n = 0 => g.n = 0 /\ g.stage # f.stage
    BY <1>1, <1>3 DEF SessionInv, LivesAhead
  <2>3. f.n \in Nat \/ f.type # "live_event"
    BY <1>1, FrameFields DEF EventTypes
  <2>4. g.n \in Nat
    BY <1>3, FlightFacts, FrameFields DEF SessionInv, EventTypes
  <2>5. g.n # 0 => g.n > responses'.captureSequence
    BY <1>5, <2>1, <2>2, <2>3, <2>4
  <2>6. g.n # 0 => responses'.gaps = {}
    BY <1>5, <2>1, <2>2
  <2>7. g.n = 0 => \A gap \in responses'.gaps : gap.stage # g.stage
    BY <1>5, <2>1, <2>2
  <2> QED BY <1>3, <2>1, <2>5, <2>6, <2>7
<1>13. Gaps' \subseteq Gaps
  BY <1>1, <1>2, <1>5 DEF Gaps
<1> QED BY <1>10, <1>11, <1>12, <1>13

\* The counters of the run still agree with what is under way.
LEMMA CountedRead ==
    ASSUME SessionInv, Accepts
    PROVE  ResultAhead' /\ Places' /\ Captured' /\ Counted'
<1> DEFINE f == Oldest  a == responses.liveReceived  b == Number(Flight, "live_event")
           c == Number(Flight', "live_event")  v == responses'.liveReceived
<1>1. /\ f \in Flight /\ f \in Frame
      /\ \A g \in Flight : g # f => Precedes(f, g)
      /\ f.type \in {"ready", "event", "live_event", "result", "error", "terminal"}
  <2>1. pipe # <<>>
    BY DEF Accepts
  <2>2. f \in Frame
    BY <2>1, OldestFacts
  <2>3. f.type \in {"ready", "event", "live_event", "result", "error", "terminal"}
    BY <2>2, FrameFields DEF AllTypes, EventTypes, ControlTypes
  <2> QED BY <2>1, <2>3, OldestFacts
<1>2. /\ Flight' = Flight \ {f} /\ worker' = worker /\ capture' = capture /\ main' = main
      /\ b = c + (IF f.type = "live_event" THEN 1 ELSE 0) /\ c \in Nat
  BY FlightRead
<1>3. \A g \in Flight' : g \in Flight /\ Precedes(f, g)
  BY <1>1, <1>2
<1>4. /\ responses'.run = responses.run
      /\ responses'.eventSequence = IF f.type = "event" THEN f.n ELSE responses.eventSequence
      /\ v = IF f.type = "live_event" THEN a + 1 ELSE a
      /\ responses'.captureSequence = IF f.type = "live_event" /\ f.n # 0 THEN f.n
                                      ELSE responses.captureSequence
  BY AcceptedFields
<1>5. a \in Nat /\ responses.captureSequence \in Nat /\ responses.eventSequence \in Nat
  BY Fields DEF SessionInv
<1>6. f.type \in EventTypes => f.n \in Nat
  BY <1>1, FrameFields
<1>7. Gaps' \subseteq Gaps
  BY AheadRead
<1>8. FinalPhase' = FinalPhase /\ FinalRuns' = FinalRuns /\ (FinalFailed' <=> FinalFailed)
  BY FinalRead
<1> HIDE DEF f, a, b, c, v
<1>9. v + c = a + b
  BY <1>2, <1>4, <1>5
<1>10. ResultAhead'
  <2> SUFFICES ASSUME NEW r \in Flight', r.type = "result"
               PROVE  /\ r.dropped <= r.emitted /\ r.emitted >= responses'.eventSequence
                      /\ r.liveEmitted = v + c + r.liveDropped
                      /\ responses'.captureSequence <= r.callbacks
                      /\ \A g \in Flight' : g.type = "event" => g.n <= r.emitted
                      /\ \A g \in Flight' : g.type = "live_event" => g.n <= r.callbacks
                      /\ \A gap \in Gaps' : gap.lost = IF gap.stage = "capture" THEN r.capture
                                                       ELSE r.retention
    BY DEF ResultAhead, c, v
  <2>1. /\ r.dropped <= r.emitted /\ r.emitted >= responses.eventSequence
        /\ r.liveEmitted = a + b + r.liveDropped
        /\ responses.captureSequence <= r.callbacks
        /\ \A g \in Flight : g.type = "event" => g.n <= r.emitted
        /\ \A g \in Flight : g.type = "live_event" => g.n <= r.callbacks
        /\ \A gap \in Gaps : gap.lost = IF gap.stage = "capture" THEN r.capture ELSE r.retention
    BY <1>3 DEF SessionInv, ResultAhead, a, b
  <2>2. r.emitted \in Nat /\ r.callbacks \in Nat
    <3>1. r \in Result
      BY <1>3, FlightFacts, FrameFields DEF SessionInv
    <3> QED BY <3>1 DEF Result
  <2>3. r.emitted >= responses'.eventSequence
    BY <1>1, <1>4, <1>5, <1>6, <2>1, <2>2 DEF EventTypes
  <2>4. responses'.captureSequence <= r.callbacks
    BY <1>1, <1>4, <2>1
  <2>5. r.liveEmitted = v + c + r.liveDropped
    BY <1>9, <2>1
  <2> QED BY <1>3, <1>7, <2>1, <2>3, <2>4, <2>5
<1>11. Places'
  BY <1>2, <1>4, <1>8 DEF SessionInv, Places
<1>12. Captured'
  BY <1>2 DEF SessionInv, Captured, Capturing
<1>13. Counted'
  <2> SUFFICES ASSUME Capturing'
               PROVE  /\ capture.dropped <= capture.emitted
                      /\ responses'.eventSequence <= capture.emitted
                      /\ \A g \in Flight' : g.type = "event" => g.n <= capture.emitted
                      /\ capture.liveEmitted = v + c + capture.liveDropped
                      /\ Later(responses'.captureSequence)
                      /\ \A g \in Flight' : g.type = "live_event" /\ g.n # 0 => Later(g.n)
                      /\ \A gap \in Gaps' :
                             IF gap.stage = "capture"
                             THEN capture.parser # "running" /\ gap.lost = capture.captureDropped
                             ELSE capture.parser = "done" /\ gap.lost = capture.retentionDropped
    BY <1>2 DEF Counted, Later, c, v
  <2>1. Capturing
    BY <1>2 DEF Capturing
  <2>2. /\ capture.dropped <= capture.emitted /\ responses.eventSequence <= capture.emitted
        /\ \A g \in Flight : g.type = "event" => g.n <= capture.emitted
        /\ capture.liveEmitted = a + b + capture.liveDropped
        /\ Later(responses.captureSequence)
        /\ \A g \in Flight : g.type = "live_event" /\ g.n # 0 => Later(g.n)
        /\ \A gap \in Gaps :
               IF gap.stage = "capture"
               THEN capture.parser # "running" /\ gap.lost = capture.captureDropped
               ELSE capture.parser = "done" /\ gap.lost = capture.retentionDropped
    BY <2>1 DEF SessionInv, Counted, a, b
  <2>3. responses'.eventSequence <= capture.emitted
    BY <1>1, <1>4, <2>2
  <2>4. Later(responses'.captureSequence)
    BY <1>1, <1>4, <2>2
  <2>5. capture.liveEmitted = v + c + capture.liveDropped
    BY <1>9, <2>2
  <2> QED BY <1>3, <1>7, <2>2, <2>3, <2>4, <2>5
<1> QED BY <1>10, <1>11, <1>12, <1>13

\* A frame that is read is accounted for on the parent's side.
LEMMA AccountsRead ==
    ASSUME SessionInv, Accepts
    PROVE  Accounts'
<1> DEFINE f == Oldest  a == responses.liveReceived  v == responses'.liveReceived
           b == Number(Flight, "event")  c == Number(Flight', "event")
           p == IF f.type = "event" THEN 1 ELSE 0  q == IF f.type = "live_event" THEN 1 ELSE 0
           m == EventsReceived   n == LivesReceived
           x == EventsReceived'  y == LivesReceived'
<1>1. /\ f \in Flight /\ f \in Frame
      /\ \A g \in Flight : g # f => Precedes(f, g)
      /\ \A g \in Received : Precedes(g, f)
      /\ f.type \in {"ready", "event", "live_event", "result", "error", "terminal"}
  <2>1. pipe # <<>>
    BY DEF Accepts
  <2>2. f \in Frame
    BY <2>1, OldestFacts
  <2>3. f.type \in {"ready", "event", "live_event", "result", "error", "terminal"}
    BY <2>2, FrameFields DEF AllTypes, EventTypes, ControlTypes
  <2> QED BY <2>1, <2>3, OldestFacts
<1>2. /\ Flight' = Flight \ {f} /\ worker' = worker /\ capture' = capture
      /\ b = c + p /\ c \in Nat
  BY FlightRead
<1>3. \A g \in Flight' : g \in Flight /\ Precedes(f, g)
  BY <1>1, <1>2
<1>4. /\ v = IF f.type = "live_event" THEN a + 1 ELSE a
      /\ responses'.phase =
             CASE f.type = "ready" -> "running"
               [] f.type = "result" ->
                      (IF worker.role = "server" THEN "continuation" ELSE "ending")
               [] f.type = "error" -> "ending"
               [] f.type = "terminal" -> "terminal"
               [] OTHER -> responses.phase
  BY AcceptedFields
<1>5. /\ Received' \subseteq Received \cup {Kept}
      /\ f.type # "result" => x = m + p /\ y = n + q
      /\ f.type \in {"ready", "error", "terminal"} =>
             inbox'.dropped = inbox.dropped /\ inbox'.liveDropped = inbox.liveDropped
      /\ f.type = "result" =>
             /\ inbox'.dropped = 0 /\ inbox'.liveDropped = 0
             /\ m = x + inbox.dropped /\ n = y + inbox.liveDropped
  BY ReceivedRead
<1>6. /\ Kept.type = f.type
      /\ f.type = "result" =>
             /\ Kept.liveEmitted = f.liveEmitted /\ Kept.liveDropped = f.liveDropped
             /\ Kept.emitted = f.emitted /\ Kept.dropped = f.dropped
             /\ Kept.parentDropped = inbox.dropped /\ Kept.parentLiveDropped = inbox.liveDropped
  BY InboxFields
<1>7. a \in Nat /\ m \in Nat /\ n \in Nat /\ inbox.dropped \in Nat /\ inbox.liveDropped \in Nat
  BY Fields, ReceivedTyped DEF SessionInv
<1>8. Acceptable(f)
  BY OldestAccepted DEF Accepts
<1>9. f.type = "ready" => responses.phase = "startup"
  BY <1>8 DEF Acceptable
<1>10. f.type = "result" => responses.phase = "running"
  <2>1. f.type = "result" => ResultAgrees(f)
    BY <1>8 DEF Acceptable
  <2> QED BY <2>1 DEF ResultAgrees
<1>11. responses.phase \in {"startup", "running"} => a = n
  BY DEF SessionInv, Accounts
<1>12. /\ f.type = "event" => p = 1
       /\ f.type # "event" => p = 0
       /\ f.type = "live_event" => q = 1
       /\ f.type # "live_event" => q = 0
       /\ v = a + q /\ p \in Nat /\ q \in Nat
  BY <1>4, <1>7
<1>13. f.type = "result" => b = 0 /\ n = a /\ f.liveEmitted = a + f.liveDropped
  <2> SUFFICES ASSUME f.type = "result"
               PROVE  b = 0 /\ n = a /\ f.liveEmitted = a + f.liveDropped
    OBVIOUS
  <2>1. \A g \in Flight : g.type # "event" /\ g.type # "live_event"
    BY <1>1 DEF Precedes
  <2>2. b = 0 /\ Number(Flight, "live_event") = 0
    BY <2>1, NumberNone
  <2>3. f.liveEmitted = a + 0 + f.liveDropped /\ f \in Result
    BY <1>1, <2>2, FrameFields DEF SessionInv, ResultAhead
  <2>4. f.liveDropped \in Nat
    BY <2>3 DEF Result
  <2> HIDE DEF f, a, b, n
  <2>5. f.liveEmitted = a + f.liveDropped
    BY <1>7, <2>3, <2>4
  <2> QED BY <1>10, <1>11, <2>2, <2>5
<1> HIDE DEF f, a, v, b, c, p, q, m, n, x, y
<1>14. responses'.phase \in {"startup", "running"} => v = y
  <2> SUFFICES ASSUME responses'.phase \in {"startup", "running"} PROVE v = y
    OBVIOUS
  <2>1. f.type \in {"ready", "event", "live_event"}
    BY <1>1, <1>4
  <2>2. responses.phase \in {"startup", "running"}
    BY <1>4, <1>9, <2>1
  <2> QED BY <1>5, <1>11, <1>12, <2>1, <2>2
<1>15. Capturing' /\ Legacy => capture'.emitted = x + c + capture'.dropped
  <2> SUFFICES ASSUME Capturing', Legacy PROVE capture.emitted = x + c + capture.dropped
    BY <1>2
  <2>1. Capturing
    BY <1>2 DEF Capturing
  <2>2. capture.emitted = m + b + capture.dropped
    BY <2>1 DEF SessionInv, Accounts, m, b
  <2>3. f.type # "result"
    <3>1. FinalPhase = "running"
      BY <2>1, CapturingFacts
    <3>2. \A g \in Received \cup Flight : g.type \in EventTypes \cup {"ready"}
      BY <3>1, Calm
    <3> QED BY <1>1, <3>2 DEF EventTypes
  <2>4. capture.dropped \in Nat
    BY CaptureFields DEF SessionInv
  <2> QED BY <1>2, <1>5, <1>7, <1>12, <2>2, <2>3, <2>4
<1>16. \A r \in Flight' : r.type = "result" /\ Legacy => r.emitted = x + c + r.dropped
  <2> SUFFICES ASSUME NEW r \in Flight', r.type = "result", Legacy
               PROVE r.emitted = x + c + r.dropped
    OBVIOUS
  <2>1. r.emitted = m + b + r.dropped
    BY <1>3 DEF SessionInv, Accounts, m, b
  <2>2. f.type # "result"
    BY <1>3 DEF Precedes
  <2>3. r.dropped \in Nat
    <3>1. r \in Result
      BY <1>3, FlightFacts, FrameFields DEF SessionInv
    <3> QED BY <3>1 DEF Result
  <2> QED BY <1>2, <1>5, <1>7, <1>12, <2>1, <2>2, <2>3
<1>17. ASSUME NEW r \in Received', r.type = "result"
       PROVE  /\ inbox'.dropped = 0 /\ inbox'.liveDropped = 0
              /\ r.liveEmitted = y + r.liveDropped + r.parentLiveDropped
              /\ Legacy => r.emitted = x + r.dropped + r.parentDropped
  <2>1. CASE r \in Received
    <3>1. f.type \in {"error", "terminal"}
      BY <1>1, <1>17, <2>1 DEF Precedes
    <3>2. /\ inbox.dropped = 0 /\ inbox.liveDropped = 0
          /\ r.liveEmitted = n + r.liveDropped + r.parentLiveDropped
          /\ Legacy => r.emitted = m + r.dropped + r.parentDropped
      BY <1>17, <2>1 DEF SessionInv, Accounts, m, n
    <3>3. x = m /\ y = n
      BY <1>5, <1>7, <1>12, <3>1
    <3> QED BY <1>5, <3>1, <3>2, <3>3
  <2>2. CASE r = Kept
    <3>1. f.type = "result"
      BY <1>6, <1>17, <2>2
    <3>2. f \in Result
      BY <1>1, <3>1, FrameFields
    <3>3. f.liveDropped \in Nat /\ f.dropped \in Nat
      BY <3>2 DEF Result
    <3>4. Legacy => f.emitted = m + b + f.dropped
      BY <1>1, <3>1 DEF SessionInv, Accounts, m, b
    <3>5. /\ r.liveEmitted = a + r.liveDropped /\ r.liveDropped \in Nat /\ r.dropped \in Nat
          /\ Legacy => r.emitted = m + 0 + r.dropped
          /\ a = y + r.parentLiveDropped /\ m = x + r.parentDropped
          /\ r.parentLiveDropped \in Nat /\ r.parentDropped \in Nat
      BY <1>5, <1>6, <1>7, <1>13, <2>2, <3>1, <3>3, <3>4
    <3>6. x \in Nat /\ y \in Nat
      <4>1. IsFiniteSet(Received') /\ tally'.events \in Nat /\ tally'.lives \in Nat
            /\ tally'.lost \in Nat
        <5>1. Received' = Received \cup {Kept}
          BY <3>1, ReceivedRead DEF EventTypes, f
        <5>2. IsFiniteSet(Received \cup {Kept})
          BY FlightFacts, FS_AddElement DEF SessionInv
        <5>3. tally' = tally
          BY FlightRead
        <5> QED BY <5>1, <5>2, <5>3, Fields DEF SessionInv
      <4>2. Number(Received', "event") \in Nat /\ Number(Received', "live_event") \in Nat
        BY <4>1, NumberTyped
      <4>3. inbox'.dropped = 0 /\ inbox'.liveDropped = 0
        BY <1>5, <3>1
      <4> QED BY <4>1, <4>2, <4>3 DEF x, y, EventsReceived, LivesReceived
    <3>7. r.liveEmitted = y + r.liveDropped + r.parentLiveDropped
      BY <3>5, <3>6
    <3>8. Legacy => r.emitted = x + r.dropped + r.parentDropped
      BY <3>5, <3>6
    <3> QED BY <1>5, <3>1, <3>7, <3>8
  <2> QED BY <1>5, <1>17, <2>1, <2>2
<1> QED BY <1>14, <1>15, <1>16, <1>17 DEF Accounts, v, c, x, y

\* With a frame under way the parent neither decides nor waits for a command.
LEMMA RoundsRead ==
    ASSUME SessionInv, Accepts
    PROVE  Rounds'
<1> DEFINE f == Oldest
<1>1. /\ f \in Flight /\ f \in Frame /\ responses.run = worker.run
      /\ \A g \in Flight : g # f => Precedes(f, g)
      /\ \A g \in Received : Precedes(g, f)
      /\ f.type \in {"ready", "event", "live_event", "result", "error", "terminal"}
      /\ responses.phase \notin {"continuation", "terminal"}
  <2>1. pipe # <<>>
    BY DEF Accepts
  <2>2. f \in Frame
    BY <2>1, OldestFacts
  <2>3. f.type \in {"ready", "event", "live_event", "result", "error", "terminal"}
    BY <2>2, FrameFields DEF AllTypes, EventTypes, ControlTypes
  <2> QED BY <2>1, <2>3, OldestFacts
<1>2. /\ Flight' = Flight \ {f} /\ worker' = worker /\ commands' = commands /\ main' = main
      /\ tally' = tally
  BY FlightRead
<1>3. /\ responses'.run = responses.run
      /\ responses'.phase =
             CASE f.type = "ready" -> "running"
               [] f.type = "result" ->
                      (IF worker.role = "server" THEN "continuation" ELSE "ending")
               [] f.type = "error" -> "ending"
               [] f.type = "terminal" -> "terminal"
               [] OTHER -> responses.phase
      /\ responses'.runs = IF f.type = "result" THEN responses.runs + 1 ELSE responses.runs
      /\ responses'.failed <=> (responses.failed \/ f.type = "error")
  BY AcceptedFields
<1>4. /\ Received' \subseteq Received \cup {Kept} /\ Kept.type = f.type
      /\ Number(Received', "result") =
             Number(Received, "result") + (IF f.type = "result" THEN 1 ELSE 0)
      /\ f.type = "result" => inbox'.dropped = 0 /\ inbox'.liveDropped = 0
  BY ReceivedRead, InboxFields
<1>5. /\ Sent("result") => Sent("result")' \/ f.type = "result"
      /\ f.type = "result" /\ worker.role = "server" => Flight' = {}
  BY FinalRead
<1>6. worker.at # "setup" /\ main.at \notin {"decide", "tell", "tellEnd"} /\ main.at # "ended"
      /\ (commands = <<>> \/ worker.at = "exited")
  <2>1. main.at # "ended"
    BY DEF Accepts
  <2> QED BY <1>1, <2>1 DEF SessionInv, Rounds, Told, Fresh
<1>7. worker.role \in {"client", "server"} /\ main.at = "loop"
  <2>1. worker.role \in {"client", "server"}
    BY DEF SessionInv, Types, Workers
  <2>2. main.at \in {"loop", "decide", "tell", "tellEnd", "ended"}
    BY DEF SessionInv, Types, Loops
  <2> QED BY <1>6, <2>1, <2>2
<1>8. responses'.runs = main.count + Number(Received', "result")
  <2>1. responses.runs = main.count + Number(Received, "result")
    BY DEF SessionInv, Rounds
  <2>2. IsFiniteSet(Received)
    BY FlightFacts DEF SessionInv
  <2>3. Number(Received, "result") \in Nat
    BY <2>2, NumberTyped
  <2>4. main.count \in Nat
    BY Fields DEF SessionInv
  <2> HIDE DEF f
  <2> QED BY <1>3, <1>4, <2>1, <2>3, <2>4
<1> HIDE DEF f
<1>9. ASSUME NEW g \in Received'
      PROVE  /\ g.type = "result" => responses'.phase \notin {"startup", "running"}
             /\ g.type = "error" => responses'.phase \in {"ending", "terminal"} /\ responses'.failed
             /\ g.type = "terminal" => responses'.phase = "terminal"
             /\ g.type = "result" /\ worker.role = "server" => responses'.phase = "continuation"
  <2>1. CASE g \in Received
    <3>1. /\ g.type \in {"result", "error"} => f.type \in {"error", "terminal"}
          /\ g.type = "error" => f.type = "terminal"
          /\ g.type # "terminal"
      BY <1>1, <2>1 DEF Precedes
    <3>2. /\ g.type = "error" => responses.phase \in {"ending", "terminal"} /\ responses.failed
          /\ g.type = "result" => worker.role # "server"
      BY <1>1, <2>1 DEF SessionInv, Rounds
    <3> QED BY <1>3, <3>1, <3>2
  <2>2. CASE g = Kept
    BY <1>3, <1>4, <1>7, <2>2
  <2> QED BY <1>4, <2>1, <2>2
<1>10. responses'.phase = "continuation" =>
           /\ worker.role = "server" /\ worker.at \in {"command", "exited"}
           /\ worker.at = "exited" => worker.cut
           /\ Flight' = {} /\ responses'.run = worker.run /\ commands = <<>>
           /\ inbox'.dropped = 0 /\ inbox'.liveDropped = 0 /\ worker.count = worker.run
  <2> SUFFICES ASSUME responses'.phase = "continuation"
               PROVE  /\ worker.role = "server" /\ worker.at \in {"command", "exited"}
                      /\ worker.at = "exited" => worker.cut
                      /\ Flight' = {} /\ responses'.run = worker.run /\ commands = <<>>
                      /\ inbox'.dropped = 0 /\ inbox'.liveDropped = 0
                      /\ worker.count = worker.run
    OBVIOUS
  <2>1. f.type = "result" /\ worker.role = "server"
    BY <1>1, <1>3, <1>7
  <2> QED BY <1>1, <1>3, <1>4, <1>5, <2>1 DEF SessionInv, Ahead
<1>11. worker.at = "command" /\ commands = <<>> =>
           Sent("result")' \/ responses'.phase = "continuation"
  <2> SUFFICES ASSUME worker.at = "command", commands = <<>>, ~Sent("result")'
               PROVE  responses'.phase = "continuation"
    OBVIOUS
  <2>1. worker.role = "server"
    BY DEF SessionInv, Places
  <2>2. Sent("result")
    BY <1>1, <1>7 DEF SessionInv, Rounds
  <2> QED BY <1>3, <1>5, <2>1, <2>2
<1> QED BY <1>1, <1>2, <1>3, <1>6, <1>7, <1>8, <1>9, <1>10, <1>11 DEF Rounds

LEMMA ReadFrameStep ==
    ASSUME SessionInv, ReadFrame
    PROVE  SessionInv'
<1>1. Accepts
  BY ReadFrameAccepts
<1>2. /\ Numbered' /\ Ordered' /\ pipe' \in Seq(Frame)
      /\ worker' = worker /\ capture' = capture /\ out' = out /\ commands' = commands
      /\ main' = main /\ tally' = tally /\ reader' = reader
  BY <1>1, FlightRead
<1>3. responses' \in Parents /\ inbox' \in Inboxes
  BY <1>1, AcceptedFields, InboxFields
<1>4. Types'
  BY <1>2, <1>3 DEF SessionInv, Types
<1>5. Endings'
  <2>1. reader = "reading" /\ main.at # "ended"
    BY <1>1 DEF Accepts
  <2>2. main.outcome = "none"
    BY <2>1 DEF SessionInv, Endings
  <2> QED BY <1>2, <2>1, <2>2 DEF SessionInv, Endings
<1> QED BY <1>1, <1>2, <1>4, <1>5, AheadRead, CountedRead, AccountsRead, RoundsRead DEF SessionInv

\* The stream of a child that did not crash ends after its terminal receipt.
LEMMA ReadEndStep ==
    ASSUME SessionInv, ReadEnd
    PROVE  SessionInv'
<1>1. /\ reader = "reading" /\ pipe = <<>> /\ worker.at = "exited" /\ reader' = EndOfStream
      /\ UNCHANGED <<childVars, pipe, commands, responses, inbox, main, tally>>
  BY DEF ReadEnd
<1>2. /\ worker' = worker /\ capture' = capture /\ out' = out /\ pipe' = pipe
      /\ commands' = commands /\ responses' = responses /\ inbox' = inbox /\ main' = main
      /\ tally' = tally
  BY <1>1 DEF childVars
<1>3. Flight' = Flight /\ Received' = Received
  BY <1>2 DEF Flight, Received
<1>4. Flight = {}
  <2>1. out.frames = <<>>
    BY <1>1 DEF SessionInv, Numbered
  <2> QED BY <1>1, <2>1 DEF Flight, Members
<1>5. /\ reader' \in {"eof", "truncated"}
      /\ reader' = "eof" => responses.phase = "terminal"
      /\ reader' = "truncated" => responses.phase # "terminal"
  BY <1>1 DEF EndOfStream
<1>6. reader' = "truncated" => worker.cut
  <2> SUFFICES ASSUME ~worker.cut PROVE responses.phase = "terminal"
    BY <1>5
  <2>1. FinalPhase = "terminal"
    BY <1>1 DEF SessionInv, Places
  <2> QED BY <1>4, <2>1 DEF FinalPhase, Sent
<1>7. Types' /\ Numbered' /\ Ordered'
  <2>1. Types'
    BY <1>2, <1>5 DEF SessionInv, Types
  <2>2. Numbered'
    BY <1>2, <1>3 DEF SessionInv, Numbered
  <2>3. Ordered'
    BY <1>3 DEF SessionInv, Ordered
  <2> QED BY <2>1, <2>2, <2>3
<1>8. Ahead' /\ EventsAhead' /\ LivesAhead' /\ ResultAhead'
  <2>1. Flight' = {}
    BY <1>3, <1>4
  <2> QED BY <2>1 DEF Ahead, EventsAhead, LivesAhead, ResultAhead
<1>9. Gaps' = Gaps /\ FinalPhase' = FinalPhase /\ FinalRuns' = FinalRuns
      /\ (FinalFailed' <=> FinalFailed)
  BY <1>2, <1>3, FlightSame
<1>10. Places' /\ Captured'
  BY <1>2, <1>9 DEF SessionInv, Places, Captured, Capturing
<1>11. ~Capturing' /\ Counted'
  BY <1>1, <1>2 DEF Counted, Capturing
<1>12. Accounts'
  BY <1>2, <1>3, <1>4, <1>11, ReceivedSame DEF SessionInv, Accounts
<1>13. Rounds'
  <2>1. Number(Received', "result") = Number(Received, "result")
    BY <1>3, NumberSame
  <2>2. Fresh => Fresh'
    BY <1>2, <1>3 DEF Fresh
  <2>3. /\ Told(TRUE) => Told(TRUE)'
        /\ Told(FALSE) => Told(FALSE)'
    BY <1>2, <1>3, <2>2 DEF Told
  <2> QED BY <1>1, <1>2, <1>3, <2>1, <2>2, <2>3 DEF SessionInv, Rounds
<1>14. Endings'
  <2>1. main.outcome # "success"
    BY <1>1 DEF SessionInv, Endings
  <2> QED BY <1>1, <1>2, <1>5, <1>6, <2>1 DEF SessionInv, Endings
<1> QED BY <1>7, <1>8, <1>10, <1>11, <1>12, <1>13, <1>14 DEF SessionInv

-----------------------------------------------------------------------------
(* The message loop                                                        *)

\* What a step of the message loop that leaves the reader alone preserves.
LEMMA LoopKeeps ==
    ASSUME SessionInv, UNCHANGED <<childVars, pipe, responses, reader>>
    PROVE  /\ worker' = worker /\ capture' = capture /\ out' = out /\ pipe' = pipe
           /\ responses' = responses /\ reader' = reader /\ Flight' = Flight
           /\ EventsAhead' /\ LivesAhead' /\ ResultAhead' /\ Captured' /\ Counted'
           /\ FinalPhase' = FinalPhase /\ FinalRuns' = FinalRuns /\ (FinalFailed' <=> FinalFailed)
           /\ Sent("ready")' <=> Sent("ready")
           /\ Sent("result")' <=> Sent("result")
           /\ Sent("error")' <=> Sent("error")
           /\ Sent("terminal")' <=> Sent("terminal")
           /\ Capturing' <=> Capturing
           /\ Number(Flight', "event") = Number(Flight, "event")
<1>1. /\ worker' = worker /\ capture' = capture /\ out' = out /\ pipe' = pipe
      /\ responses' = responses /\ reader' = reader
  BY DEF childVars
<1>2. Flight' = Flight
  BY <1>1 DEF Flight
<1>3. /\ EventsAhead' /\ LivesAhead' /\ ResultAhead' /\ Gaps' = Gaps
      /\ FinalPhase' = FinalPhase /\ FinalRuns' = FinalRuns /\ (FinalFailed' <=> FinalFailed)
      /\ Sent("ready")' <=> Sent("ready")
      /\ Sent("result")' <=> Sent("result")
      /\ Sent("error")' <=> Sent("error")
      /\ Sent("terminal")' <=> Sent("terminal")
  BY <1>1, <1>2, FlightSame
<1>4. Captured'
  BY <1>1 DEF SessionInv, Captured, Capturing
<1>5. Capturing' <=> Capturing
  BY <1>1 DEF Capturing
<1>6. /\ Number(Flight', "event") = Number(Flight, "event")
      /\ Number(Flight', "live_event") = Number(Flight, "live_event")
  BY <1>2, NumberSame
<1>7. Counted'
  <2>1. \A n : Later(n) <=> Later(n)'
    BY <1>1 DEF Later
  <2>2. \A n : Later(n) <=> /\ n <= capture.callbacks
                            /\ capture.held # 0 => n < capture.held
                            /\ \A i \in 1..Len(capture.queue) : n < capture.queue[i]
    BY DEF Later
  <2> QED BY <1>1, <1>2, <1>3, <1>5, <1>6 DEF SessionInv, Counted, Later
<1> QED BY <1>1, <1>2, <1>3, <1>4, <1>5, <1>6, <1>7

\* The loop ends when the child has exited.
LEMMA EndStep ==
    ASSUME SessionInv, worker.at = "exited",
           UNCHANGED <<childVars, pipe, commands, responses, reader, inbox, tally>>,
           NEW o \in {"success", "worker", "callback", "transport"}, End(o),
           o = "transport" => worker.cut,
           o = "success" => reader = "eof" /\ inbox.frames = <<>> /\ ~worker.failed /\ main.count > 0
    PROVE  SessionInv'
<1>1. /\ worker' = worker /\ capture' = capture /\ out' = out /\ pipe' = pipe
      /\ responses' = responses /\ reader' = reader /\ Flight' = Flight
      /\ EventsAhead' /\ LivesAhead' /\ ResultAhead' /\ Captured' /\ Counted'
      /\ FinalPhase' = FinalPhase /\ FinalRuns' = FinalRuns /\ (FinalFailed' <=> FinalFailed)
      /\ Sent("ready")' <=> Sent("ready")
      /\ Sent("result")' <=> Sent("result")
      /\ Sent("error")' <=> Sent("error")
      /\ Sent("terminal")' <=> Sent("terminal")
      /\ Number(Flight', "event") = Number(Flight, "event")
  BY LoopKeeps
<1>2. commands' = commands /\ inbox' = inbox /\ tally' = tally
  OBVIOUS
<1>3. /\ main' \in Loops /\ main'.at = "ended" /\ main'.outcome = o /\ main'.count = main.count
  <2>1. main \in Loops
    BY DEF SessionInv, Types
  <2> QED BY <2>1 DEF Loops, End
<1>4. Received' = Received
  BY <1>2 DEF Received
<1>5. Types' /\ Numbered' /\ Ordered'
  <2>1. Types'
    BY <1>1, <1>2, <1>3 DEF SessionInv, Types
  <2>2. Numbered'
    BY <1>1, <1>2, <1>4 DEF SessionInv, Numbered
  <2>3. Ordered'
    BY <1>1, <1>4 DEF SessionInv, Ordered
  <2> QED BY <2>1, <2>2, <2>3
<1>6. Ahead'
  BY <1>1, <1>2, <1>3 DEF SessionInv, Ahead
<1>7. Places'
  BY <1>1, <1>3 DEF SessionInv, Places
<1>8. Accounts'
  <2>1. ~Capturing'
    BY <1>1 DEF Capturing
  <2> QED BY <1>1, <1>2, <1>4, <2>1, ReceivedSame DEF SessionInv, Accounts
<1>9. Rounds'
  <2>1. Number(Received', "result") = Number(Received, "result")
    BY <1>4, NumberSame
  <2> QED BY <1>1, <1>2, <1>3, <1>4, <2>1 DEF SessionInv, Rounds
<1>10. Endings'
  BY <1>1, <1>2, <1>3 DEF SessionInv, Endings
<1> QED BY <1>1, <1>5, <1>6, <1>7, <1>8, <1>9, <1>10 DEF SessionInv

LEMMA LoopFailureStep ==
    ASSUME SessionInv, LoopFailure
    PROVE  SessionInv'
<1>1. /\ reader \in {"refused", "truncated"} /\ End("transport")
      /\ UNCHANGED <<childVars, pipe, commands, responses, reader, inbox, tally>>
  BY DEF LoopFailure, ReaderFailed
<1>2. worker.at = "exited" /\ worker.cut
  BY <1>1 DEF SessionInv, Endings
<1> QED BY <1>1, <1>2, EndStep

LEMMA FinishStep ==
    ASSUME SessionInv, Finish
    PROVE  SessionInv'
<1> DEFINE o == IF main.error \/ worker.failed THEN "worker"
                ELSE IF main.broken THEN "callback"
                ELSE IF main.count = 0 THEN "worker" ELSE "success"
<1>1. /\ reader = "eof" /\ inbox.frames = <<>> /\ End(o)
      /\ UNCHANGED <<childVars, pipe, commands, responses, reader, inbox, tally>>
  BY DEF Finish, Drained
<1>2. worker.at = "exited"
  BY <1>1 DEF SessionInv, Endings
<1>3. main.count \in Nat
  BY Fields DEF SessionInv
<1>4. /\ o \in {"success", "worker", "callback", "transport"} /\ o # "transport"
      /\ o = "success" => ~worker.failed /\ main.count > 0
  BY <1>3
<1> HIDE DEF o
<1> QED BY <1>1, <1>2, <1>4, EndStep

\* A step of the parent while nothing is under way and nothing waits to be read.
LEMMA AskedStep ==
    ASSUME SessionInv, Flight = {}, inbox.frames = <<>>, worker.role = "server",
           worker.at \in {"command", "exited"}, worker.at = "exited" => worker.cut,
           UNCHANGED <<childVars, pipe, reader, inbox, tally>>,
           commands' \in Seq(Commands), responses' \in Parents, main' \in Loops,
           responses'.incoming = responses.incoming, responses'.runs = responses.runs,
           responses'.failed <=> responses.failed,
           main'.count = main.count, main'.outcome = main.outcome,
           main.at # "ended", main'.at # "ended",
           responses'.phase \in {"startup", "running"} => responses'.liveReceived = LivesReceived,
           reader = "eof" => responses'.phase = "terminal", Rounds'
    PROVE  SessionInv'
<1>1. /\ worker' = worker /\ capture' = capture /\ out' = out /\ pipe' = pipe
      /\ reader' = reader /\ inbox' = inbox /\ tally' = tally
  BY DEF childVars
<1>2. Flight' = {} /\ Received' = {} /\ Received = {}
  <2>1. Flight' = Flight /\ Received' = Received
    BY <1>1 DEF Flight, Received
  <2>2. Received = {}
    BY DEF Received, Members
  <2> QED BY <2>1, <2>2
<1>3. Types'
  BY <1>1 DEF SessionInv, Types
<1>4. Numbered'
  BY <1>1, <1>2 DEF SessionInv, Numbered
<1>5. Ordered' /\ Ahead' /\ EventsAhead' /\ LivesAhead' /\ ResultAhead'
  BY <1>2 DEF Ordered, Ahead, EventsAhead, LivesAhead, ResultAhead
<1>6. ~Capturing' /\ Counted'
  BY <1>1 DEF Counted, Capturing
<1>7. Captured'
  BY <1>1 DEF SessionInv, Captured, Capturing
<1>8. Accounts'
  <2>1. LivesReceived' = LivesReceived
    BY <1>1, ReceivedSame
  <2> QED BY <1>2, <1>6, <2>1 DEF Accounts
<1>9. Endings'
  BY <1>1 DEF SessionInv, Endings
<1>10. Places'
  <2>1. FinalRuns' = FinalRuns /\ (FinalFailed' <=> FinalFailed)
    BY <1>2 DEF FinalRuns, FinalFailed, Sent
  <2> QED BY <1>1, <2>1 DEF SessionInv, Places
<1> QED BY <1>3, <1>4, <1>5, <1>6, <1>7, <1>8, <1>9, <1>10 DEF SessionInv

\* A command goes to a child that waits for it, and names its run.
LEMMA TellStep ==
    ASSUME SessionInv, Tell
    PROVE  SessionInv'
<1> DEFINE keep == main.at = "tell"
<1>1. /\ main.at \in {"tell", "tellEnd"}
      /\ UNCHANGED <<childVars, pipe, responses, reader, inbox, tally>>
      /\ \/ /\ commands' = Append(commands, [run |-> CompletedRun, continue |-> keep])
            /\ main' = [main EXCEPT !.at = "loop"]
         \/ ~ChildRuns /\ End("transport") /\ UNCHANGED commands
  BY DEF Tell
<1>2. /\ commands = <<>>
      /\ IF keep THEN Told(TRUE) ELSE Told(FALSE)
  BY <1>1 DEF SessionInv, Rounds
<1>3. /\ worker.role = "server" /\ worker.at \in {"command", "exited"}
      /\ worker.at = "exited" => worker.cut
      /\ Flight = {} /\ inbox.frames = <<>>
      /\ responses.phase \in {"running", "ending"}
      /\ IF keep THEN responses.run = worker.run + 1 ELSE responses.run = worker.run
  BY <1>2 DEF Told
<1>4. CASE ~ChildRuns /\ End("transport") /\ UNCHANGED commands
  <2>1. worker.at = "exited"
    BY <1>4 DEF ChildRuns
  <2> QED BY <1>1, <1>3, <1>4, <2>1, EndStep
<1>5. CASE /\ commands' = Append(commands, [run |-> CompletedRun, continue |-> keep])
           /\ main' = [main EXCEPT !.at = "loop"]
  <2> DEFINE c == [run |-> CompletedRun, continue |-> keep]
  <2>1. CompletedRun = worker.run /\ worker.run \in Nat
    <3>1. worker.run \in Nat
      BY Fields DEF SessionInv
    <3> QED BY <1>1, <1>3, <3>1 DEF CompletedRun
  <2>2. c \in Commands /\ c.run = worker.run /\ c.continue = keep
    BY <2>1 DEF Commands
  <2> HIDE DEF c
  <2>3. commands' = Append(<<>>, c)
    BY <1>2, <1>5 DEF c
  <2>4. commands' \in Seq(Commands) /\ Len(commands') = 1 /\ commands'[1] = c /\ commands' # <<>>
    BY <2>2, <2>3
  <2>5. /\ main' \in Loops /\ main'.at = "loop" /\ main'.count = main.count
        /\ main'.outcome = main.outcome
    <3>1. main \in Loops
      BY DEF SessionInv, Types
    <3> QED BY <1>5, <3>1 DEF Loops
  <2>6. /\ worker' = worker /\ capture' = capture /\ out' = out /\ pipe' = pipe
        /\ responses' = responses /\ reader' = reader /\ inbox' = inbox /\ tally' = tally
    BY <1>1 DEF childVars
  <2>7. Flight' = Flight /\ Received' = Received /\ Received = {}
    BY <1>3, <2>6 DEF Flight, Received, Members
  <2>8. Rounds'
    <3>1. Number(Received', "result") = Number(Received, "result")
      BY <2>7, NumberSame
    <3>2. Fresh => Fresh'
      BY <2>6, <2>7 DEF Fresh
    <3>3. /\ Told(TRUE) => Told(TRUE)'
          /\ Told(FALSE) => Told(FALSE)'
      BY <2>5, <2>6, <2>7, <3>2 DEF Told
    <3>4. /\ responses.run = worker.run \/ responses.run = worker.run + 1
          /\ responses.runs = main.count + Number(Received, "result")
      BY DEF SessionInv, Rounds
    <3> QED BY <1>2, <1>3, <2>2, <2>4, <2>5, <2>6, <2>7, <3>1, <3>3, <3>4 DEF Rounds
  <2>9. /\ responses' \in Parents
        /\ responses.phase \in {"startup", "running"} => responses.liveReceived = LivesReceived
        /\ reader = "eof" => responses.phase = "terminal"
        /\ main.at # "ended"
    BY <1>1, <2>6 DEF SessionInv, Types, Accounts, Endings
  <2> QED BY <1>1, <1>3, <2>4, <2>5, <2>6, <2>8, <2>9, AskedStep
<1> QED BY <1>1, <1>4, <1>5

\* The decision is taken when nothing of the run is left.
LEMMA DecideStep ==
    ASSUME SessionInv, Decide
    PROVE  SessionInv'
<1> DEFINE again == [responses EXCEPT !.run = responses.run + 1, !.eventSequence = 0,
                                      !.liveReceived = 0, !.captureSequence = 0, !.gaps = {},
                                      !.phase = "running"]
           done == [responses EXCEPT !.phase = "ending"]
<1>1. main.at = "decide" /\ UNCHANGED <<childVars, pipe, commands, reader, inbox, tally>>
  BY DEF Decide
<1>2. /\ responses.phase = "continuation" /\ inbox.frames = <<>>
      /\ tally.events = 0 /\ tally.lives = 0 /\ tally.lost = 0
  BY <1>1 DEF SessionInv, Rounds
<1>3. /\ worker.role = "server" /\ worker.at \in {"command", "exited"}
      /\ worker.at = "exited" => worker.cut
      /\ Flight = {} /\ responses.run = worker.run /\ commands = <<>>
      /\ inbox.dropped = 0 /\ inbox.liveDropped = 0 /\ worker.count = worker.run
      /\ responses.runs = main.count + Number(Received, "result")
  BY <1>2 DEF SessionInv, Rounds
<1>4. \/ /\ main.count < MaxRuns /\ responses' = again
         /\ main' = [main EXCEPT !.at = "tell"]
      \/ responses' = done /\ main' = [main EXCEPT !.at = "tellEnd"]
  BY <1>2 DEF Decide, MayContinue
<1>5. /\ responses \in Parents /\ main \in Loops /\ responses.run + 1 \in Nat
      /\ worker.run \in Nat /\ main.count \in Nat /\ responses.runs \in Nat
  <2>1. responses \in Parents /\ main \in Loops
    BY DEF SessionInv, Types
  <2>2. /\ responses.run \in Nat /\ worker.run \in Nat /\ main.count \in Nat
        /\ responses.runs \in Nat
    BY Fields DEF SessionInv
  <2> QED BY <2>1, <2>2
<1>6. /\ worker' = worker /\ capture' = capture /\ out' = out /\ pipe' = pipe
      /\ reader' = reader /\ inbox' = inbox /\ tally' = tally /\ commands' = commands
  BY <1>1 DEF childVars
<1>7. Flight' = Flight /\ Received' = Received /\ Received = {}
  BY <1>2, <1>6 DEF Flight, Received, Members
<1>8. Number(Received, "result") = 0 /\ Number(Received, "live_event") = 0
  BY <1>7, NumberNone
<1>9. responses.runs = main.count
  BY <1>3, <1>5, <1>8
<1>10. worker.at = "command" => main.count = worker.count
  <2>1. ~Sent("result")
    BY <1>3 DEF Sent
  <2>2. FinalRuns = responses.runs
    BY <2>1 DEF FinalRuns
  <2> QED BY <1>9, <2>2 DEF SessionInv, Places
<1>11. LivesReceived = 0
  BY <1>2, <1>3, <1>8 DEF LivesReceived
<1>12. commands' \in Seq(Commands)
  BY <1>3, <1>6
<1>13. main.at # "ended" /\ reader # "eof"
  BY <1>1, <1>2 DEF SessionInv, Endings
<1>14. Number(Received', "result") = Number(Received, "result")
  BY <1>7, NumberSame
<1>15. CASE main.count < MaxRuns /\ responses' = again /\ main' = [main EXCEPT !.at = "tell"]
  <2>1. /\ responses' \in Parents /\ responses'.incoming = responses.incoming
        /\ responses'.runs = responses.runs /\ responses'.phase = "running"
        /\ responses'.run = responses.run + 1 /\ responses'.eventSequence = 0
        /\ responses'.liveReceived = 0 /\ responses'.captureSequence = 0
        /\ responses'.gaps = {}
    <3> DEFINE r == responses.run + 1
    <3>1. r \in Nat /\ "running" \in Phases /\ 0 \in Nat
          /\ responses' = [responses EXCEPT !.run = r, !.eventSequence = 0, !.liveReceived = 0,
                                            !.captureSequence = 0, !.gaps = {}, !.phase = "running"]
      BY <1>5, <1>15 DEF Phases
    <3> HIDE DEF r
    <3>2. /\ responses' \in Parents /\ responses'.incoming = responses.incoming
          /\ responses'.runs = responses.runs /\ responses'.phase = "running"
          /\ responses'.run = r /\ responses'.eventSequence = 0
          /\ responses'.liveReceived = 0 /\ responses'.captureSequence = 0
          /\ responses'.gaps = {}
      BY <1>5, <3>1 DEF Parents
    <3> QED BY <3>2 DEF r
  <2>2. responses'.failed <=> responses.failed
    BY <1>5, <1>15 DEF Parents
  <2>3. /\ main' \in Loops /\ main'.at = "tell" /\ main'.count = main.count
        /\ main'.outcome = main.outcome
    BY <1>5, <1>15 DEF Loops
  <2>4. Fresh'
    BY <1>2, <1>3, <1>6, <1>7, <2>1 DEF Fresh
  <2>5. Told(TRUE)'
    BY <1>2, <1>3, <1>6, <1>7, <1>10, <1>15, <2>1, <2>3, <2>4 DEF Told
  <2>6. Rounds'
    BY <1>3, <1>6, <1>7, <1>14, <2>1, <2>3, <2>5 DEF Rounds
  <2> HIDE DEF again
  <2> QED BY <1>1, <1>2, <1>3, <1>11, <1>12, <1>13, <2>1, <2>2, <2>3, <2>6, AskedStep
<1>16. CASE responses' = done /\ main' = [main EXCEPT !.at = "tellEnd"]
  <2>1. /\ responses' \in Parents /\ responses'.incoming = responses.incoming
        /\ responses'.runs = responses.runs /\ responses'.phase = "ending"
        /\ responses'.run = responses.run
    BY <1>5, <1>16 DEF Parents, Phases
  <2>2. responses'.failed <=> responses.failed
    BY <1>5, <1>16 DEF Parents
  <2>3. /\ main' \in Loops /\ main'.at = "tellEnd" /\ main'.count = main.count
        /\ main'.outcome = main.outcome
    BY <1>5, <1>16 DEF Loops
  <2>4. Told(FALSE)'
    BY <1>2, <1>3, <1>6, <1>7, <1>10, <2>1, <2>3 DEF Told
  <2>5. Rounds'
    BY <1>3, <1>6, <1>7, <1>14, <2>1, <2>3, <2>4 DEF Rounds
  <2> HIDE DEF done
  <2> QED BY <1>1, <1>2, <1>3, <1>12, <1>13, <2>1, <2>2, <2>3, <2>5, AskedStep
<1> HIDE DEF again, done
<1> QED BY <1>4, <1>15, <1>16

\* The first frame of the inbox comes before everything else.
LEMMA Taken ==
    ASSUME SessionInv, inbox.frames # <<>>,
           inbox' = [inbox EXCEPT !.frames = Tail(@)]
    PROVE  LET first == Head(inbox.frames)
           IN  /\ first \in Received /\ first \in Frame /\ Received' = Received \ {first}
               /\ inbox' \in Inboxes /\ inbox'.frames = Tail(inbox.frames)
               /\ inbox'.dropped = inbox.dropped /\ inbox'.liveDropped = inbox.liveDropped
               /\ \A g \in Received' \cup Flight : first.sequence < g.sequence /\ Precedes(first, g)
               /\ \A i, j \in 1..Len(inbox'.frames) :
                      i < j => inbox'.frames[i].sequence < inbox'.frames[j].sequence
               /\ \A type : /\ Number(Received', type) \in Nat
                            /\ first.type = type =>
                                   Number(Received, type) = Number(Received', type) + 1
                            /\ first.type # type => Number(Received, type) = Number(Received', type)
<1> DEFINE s == inbox.frames  h == Head(s)  t == Tail(s)
<1>1. inbox \in Inboxes /\ s \in Seq(Frame)
  <2>1. inbox \in Inboxes
    BY DEF SessionInv, Types
  <2> QED BY <2>1, Fields DEF SessionInv
<1>2. /\ h \in Frame /\ h = s[1] /\ Len(s) \in Nat \ {0} /\ t \in Seq(Frame)
      /\ Len(t) = Len(s) - 1 /\ \A i \in 1..Len(t) : t[i] = s[i + 1]
      /\ Members(s) = {h} \cup Members(t)
  BY <1>1, MembersTail
<1>3. inbox' = [inbox EXCEPT !.frames = t]
  OBVIOUS
<1> HIDE DEF h, t
<1>4. /\ inbox' \in Inboxes /\ inbox'.frames = t
      /\ inbox'.dropped = inbox.dropped /\ inbox'.liveDropped = inbox.liveDropped
  BY <1>1, <1>2, <1>3 DEF Inboxes
<1>5. \A i, j \in 1..Len(s) : i < j => s[i].sequence < s[j].sequence
  BY DEF SessionInv, Numbered
<1>6. Received = Members(s) /\ Received' = Members(t)
  BY <1>4 DEF Received
<1>7. \A g \in Members(t) : h.sequence < g.sequence
  <2> SUFFICES ASSUME NEW i \in 1..Len(t) PROVE h.sequence < t[i].sequence
    BY DEF Members
  <2>1. 1 \in 1..Len(s) /\ i + 1 \in 1..Len(s) /\ 1 < i + 1
    BY <1>2
  <2> QED BY <1>2, <1>5, <2>1
<1>8. h \in Received
  BY <1>2, <1>6
<1>9. \A g \in Received \cup Flight : g.sequence \in Nat
  BY FlightFacts DEF SessionInv
<1>10. Received' = Received \ {h}
  <2>1. h \notin Members(t)
    BY <1>7, <1>8, <1>9
  <2> QED BY <1>2, <1>6, <2>1
<1>11. \A g \in Received' \cup Flight : h.sequence < g.sequence
  <2>1. \A g \in Flight : responses.incoming < g.sequence
    BY FlightFacts DEF SessionInv
  <2>2. h.sequence <= responses.incoming /\ responses.incoming \in Nat
    BY <1>8, FlightFacts, Fields DEF SessionInv
  <2> QED BY <1>6, <1>7, <1>8, <1>9, <2>1, <2>2
<1>12. \A g \in Received' \cup Flight : Precedes(h, g)
  BY <1>8, <1>10, <1>11 DEF SessionInv, Ordered
<1>13. \A i, j \in 1..Len(t) : i < j => t[i].sequence < t[j].sequence
  <2> SUFFICES ASSUME NEW i \in 1..Len(t), NEW j \in 1..Len(t), i < j
               PROVE t[i].sequence < t[j].sequence
    OBVIOUS
  <2>1. i + 1 \in 1..Len(s) /\ j + 1 \in 1..Len(s) /\ i + 1 < j + 1
    BY <1>2
  <2> QED BY <1>2, <1>5, <2>1
<1>14. IsFiniteSet(Received) /\ IsFiniteSet(Received \ {h})
  BY FlightFacts, FS_Subset DEF SessionInv
<1>15. \A type : /\ Number(Received \ {h}, type) \in Nat
                 /\ h.type = type => Number(Received, type) = Number(Received \ {h}, type) + 1
                 /\ h.type # type => Number(Received, type) = Number(Received \ {h}, type)
  BY <1>8, <1>14, NumberTyped, NumberLess
<1>16. \A type : Number(Received', type) = Number(Received \ {h}, type)
  BY Zenon, <1>10
<1>17. \A type : /\ Number(Received', type) \in Nat
                 /\ h.type = type => Number(Received, type) = Number(Received', type) + 1
                 /\ h.type # type => Number(Received, type) = Number(Received', type)
  BY <1>15, <1>16
<1> QED BY <1>2, <1>4, <1>8, <1>10, <1>11, <1>12, <1>13, <1>17 DEF h, t

First == Head(inbox.frames)

\* What taking the first frame leaves alone.
LEMMA TakeKeeps ==
    ASSUME SessionInv, NEW type, Take(type),
           UNCHANGED <<childVars, pipe, commands, responses, reader>>,
           main' \in Loops, tally' \in Tallies, main'.at # "ended", main'.outcome = main.outcome
    PROVE  /\ First \in Received /\ First \in Frame /\ First.type = type /\ main.at = "loop"
           /\ Received' = Received \ {First} /\ inbox.frames # <<>>
           /\ inbox'.dropped = inbox.dropped /\ inbox'.liveDropped = inbox.liveDropped
           /\ \A g \in Received' \cup Flight : Precedes(First, g)
           /\ \A t : /\ Number(Received', t) \in Nat
                     /\ type = t => Number(Received, t) = Number(Received', t) + 1
                     /\ type # t => Number(Received, t) = Number(Received', t)
           /\ worker' = worker /\ capture' = capture /\ responses' = responses
           /\ commands' = commands /\ reader' = reader /\ Flight' = Flight
           /\ Types' /\ Numbered' /\ Ordered' /\ EventsAhead' /\ LivesAhead' /\ ResultAhead'
           /\ Captured' /\ Counted' /\ Endings'
<1>1. /\ worker' = worker /\ capture' = capture /\ out' = out /\ pipe' = pipe
      /\ responses' = responses /\ reader' = reader /\ Flight' = Flight
      /\ EventsAhead' /\ LivesAhead' /\ ResultAhead' /\ Captured' /\ Counted'
  BY LoopKeeps
<1>2. /\ main.at = "loop" /\ First.type = type /\ inbox.frames # <<>> /\ commands' = commands
      /\ inbox' = [inbox EXCEPT !.frames = Tail(@)]
  BY DEF Take, First
<1>3. /\ First \in Received /\ First \in Frame /\ Received' = Received \ {First}
      /\ inbox' \in Inboxes
      /\ inbox'.dropped = inbox.dropped /\ inbox'.liveDropped = inbox.liveDropped
      /\ \A g \in Received' \cup Flight : Precedes(First, g)
      /\ \A i, j \in 1..Len(inbox'.frames) :
             i < j => inbox'.frames[i].sequence < inbox'.frames[j].sequence
      /\ \A t : /\ Number(Received', t) \in Nat
                /\ First.type = t => Number(Received, t) = Number(Received', t) + 1
                /\ First.type # t => Number(Received, t) = Number(Received', t)
  BY <1>2, Taken DEF First
<1>4. Types'
  BY <1>1, <1>2, <1>3 DEF SessionInv, Types
<1>5. Numbered'
  BY <1>1, <1>3 DEF SessionInv, Numbered
<1>6. Ordered'
  BY <1>1, <1>3 DEF SessionInv, Ordered
<1>7. Endings'
  <2>1. main.outcome = "none"
    BY <1>2 DEF SessionInv, Endings
  <2>2. main'.outcome = "none" /\ main'.at # "ended"
    BY <2>1
  <2> QED BY <1>1, <2>2 DEF SessionInv, Endings
<1> QED BY <1>1, <1>2, <1>3, <1>4, <1>5, <1>6, <1>7

\* A frame that is not a result changes no account and no decision.
LEMMA QuietTake ==
    ASSUME SessionInv, NEW type, Take(type), type # "result",
           UNCHANGED <<childVars, pipe, commands, responses, reader>>,
           main' \in Loops, tally' \in Tallies, main'.at = "loop", main'.outcome = main.outcome,
           main'.count = main.count,
           EventsReceived' = EventsReceived, LivesReceived' = LivesReceived
    PROVE  SessionInv'
<1>1. /\ First \in Received /\ First.type = type /\ main.at = "loop"
      /\ Received' = Received \ {First} /\ inbox.frames # <<>>
      /\ inbox'.dropped = inbox.dropped /\ inbox'.liveDropped = inbox.liveDropped
      /\ \A t : type # t => Number(Received, t) = Number(Received', t)
      /\ worker' = worker /\ capture' = capture /\ responses' = responses
      /\ commands' = commands /\ reader' = reader /\ Flight' = Flight
      /\ Types' /\ Numbered' /\ Ordered' /\ EventsAhead' /\ LivesAhead' /\ ResultAhead'
      /\ Captured' /\ Counted' /\ Endings'
  BY TakeKeeps
<1>2. /\ FinalPhase' = FinalPhase /\ FinalRuns' = FinalRuns /\ (FinalFailed' <=> FinalFailed)
      /\ Sent("ready")' <=> Sent("ready")
      /\ Sent("result")' <=> Sent("result")
      /\ Sent("error")' <=> Sent("error")
      /\ Sent("terminal")' <=> Sent("terminal")
      /\ Capturing' <=> Capturing
      /\ Number(Flight', "event") = Number(Flight, "event")
  BY LoopKeeps
<1>3. Ahead'
  BY <1>1, <1>2 DEF SessionInv, Ahead
<1>4. Places'
  BY <1>1, <1>2 DEF SessionInv, Places
<1>5. Accounts'
  BY <1>1, <1>2 DEF SessionInv, Accounts
<1>6. Rounds'
  <2>1. Number(Received', "result") = Number(Received, "result")
    BY <1>1
  <2>2. worker.at # "setup"
    BY <1>1 DEF SessionInv, Rounds, Fresh
  <2>3. commands = <<>> \/ worker.at = "exited"
    BY <1>1 DEF SessionInv, Rounds, Told
  <2> QED BY <1>1, <1>2, <2>1, <2>2, <2>3 DEF SessionInv, Rounds
<1> QED BY <1>1, <1>3, <1>4, <1>5, <1>6 DEF SessionInv

LEMMA TakeReceiptStep ==
    ASSUME SessionInv, TakeReceipt
    PROVE  SessionInv'
<1>1. UNCHANGED <<childVars, pipe, commands, responses, reader, tally>>
  BY DEF TakeReceipt
<1>2. PICK type \in {"ready", "terminal", "error"} :
          /\ Take(type)
          /\ \/ main' = main \/ main' = [main EXCEPT !.error = TRUE]
             \/ \E raises \in BOOLEAN : main' = [main EXCEPT !.broken = raises]
  BY ProtocolAssumption DEF TakeReceipt
<1>3. main \in Loops /\ tally \in Tallies
  BY DEF SessionInv, Types
<1>4. main.at = "loop"
  BY <1>2 DEF Take
<1>5. /\ main' \in Loops /\ main'.at = "loop" /\ main'.outcome = main.outcome
      /\ main'.count = main.count /\ tally' \in Tallies
  BY <1>1, <1>2, <1>3, <1>4 DEF Loops
<1>6. /\ inbox'.dropped = inbox.dropped /\ inbox'.liveDropped = inbox.liveDropped
      /\ Number(Received', "event") = Number(Received, "event")
      /\ Number(Received', "live_event") = Number(Received, "live_event")
  BY <1>1, <1>2, <1>5, TakeKeeps
<1>7. EventsReceived' = EventsReceived /\ LivesReceived' = LivesReceived
  BY <1>1, <1>6 DEF EventsReceived, LivesReceived
<1> QED BY <1>1, <1>2, <1>5, <1>7, QuietTake

\* An event that is delivered is still accounted for.
LEMMA TakeEventStep ==
    ASSUME SessionInv, TakeEvent
    PROVE  SessionInv'
<1> DEFINE a == tally.events + 1  b == tally.lives + 1  c == tally.lost + 1
<1>1. UNCHANGED <<childVars, pipe, commands, responses, reader>>
  BY DEF TakeEvent
<1>2. PICK type \in {"event", "live_event"} :
          /\ Take(type)
          /\ \/ type = "event" /\ tally' = [tally EXCEPT !.events = a]
             \/ type = "live_event" /\ tally' = [tally EXCEPT !.lives = b]
             \/ type = "live_event" /\ tally' = [tally EXCEPT !.lost = c]
  <2>1. tally \in Tallies
    BY DEF SessionInv, Types
  <2> QED BY <2>1 DEF TakeEvent, Tallies
<1>3. PICK raises \in BOOLEAN : main' = [main EXCEPT !.broken = main.broken \/ raises]
  <2>1. PICK raises \in BOOLEAN : main' = [main EXCEPT !.broken = @ \/ raises]
    BY DEF TakeEvent
  <2> QED BY <2>1
<1>4. /\ main \in Loops /\ tally \in Tallies /\ tally.events \in Nat /\ tally.lives \in Nat
      /\ tally.lost \in Nat /\ a \in Nat /\ b \in Nat /\ c \in Nat
      /\ inbox.dropped \in Nat /\ inbox.liveDropped \in Nat
  <2>1. main \in Loops /\ tally \in Tallies
    BY DEF SessionInv, Types
  <2>2. /\ tally.events \in Nat /\ tally.lives \in Nat /\ tally.lost \in Nat
        /\ inbox.dropped \in Nat /\ inbox.liveDropped \in Nat
    BY Fields DEF SessionInv
  <2> QED BY <2>1, <2>2
<1>5. main.at = "loop"
  BY <1>2 DEF Take
<1>6. /\ main' \in Loops /\ main'.at = "loop" /\ main'.outcome = main.outcome
      /\ main'.count = main.count
  <2> DEFINE e == main.broken \/ raises
  <2>1. e \in BOOLEAN
    OBVIOUS
  <2>2. main' = [main EXCEPT !.broken = e]
    BY <1>3
  <2> HIDE DEF e
  <2>3. main \in Loops /\ main.at = "loop"
    BY <1>4, <1>5
  <2>4. /\ main' \in Loops /\ main'.at = main.at /\ main'.outcome = main.outcome
        /\ main'.count = main.count
    BY <2>1, <2>2, <2>3 DEF Loops
  <2> QED BY <2>3, <2>4
<1>7. a = tally.events + 1 /\ b = tally.lives + 1 /\ c = tally.lost + 1
  OBVIOUS
<1> HIDE DEF a, b, c
<1>8. /\ tally' \in Tallies
      /\ type = "event" => tally'.events = a /\ tally'.lives = tally.lives
                           /\ tally'.lost = tally.lost
      /\ type = "live_event" =>
             /\ tally'.events = tally.events
             /\ \/ tally'.lives = b /\ tally'.lost = tally.lost
                \/ tally'.lives = tally.lives /\ tally'.lost = c
  BY <1>2, <1>4 DEF Tallies
<1> DEFINE m == Number(Received, "event")  n == Number(Received, "live_event")
           x == Number(Received', "event")  y == Number(Received', "live_event")
<1>9. /\ inbox'.dropped = inbox.dropped /\ inbox'.liveDropped = inbox.liveDropped
      /\ x \in Nat /\ y \in Nat
      /\ type = "event" => m = x + 1 /\ n = y
      /\ type = "live_event" => m = x /\ n = y + 1
  <2>1. /\ inbox'.dropped = inbox.dropped /\ inbox'.liveDropped = inbox.liveDropped
        /\ \A t : /\ Number(Received', t) \in Nat
                  /\ type = t => Number(Received, t) = Number(Received', t) + 1
                  /\ type # t => Number(Received, t) = Number(Received', t)
    BY <1>1, <1>2, <1>6, <1>8, TakeKeeps
  <2> QED BY <2>1
<1>10. /\ EventsReceived = tally.events + m + inbox.dropped
       /\ LivesReceived = tally.lives + tally.lost + n + inbox.liveDropped
       /\ EventsReceived' = tally'.events + x + inbox'.dropped
       /\ LivesReceived' = tally'.lives + tally'.lost + y + inbox'.liveDropped
  BY DEF EventsReceived, LivesReceived
<1> HIDE DEF m, n, x, y
<1>11. EventsReceived' = EventsReceived
  BY <1>2, <1>4, <1>7, <1>8, <1>9, <1>10
<1>12. LivesReceived' = LivesReceived
  <2> DEFINE d == inbox.liveDropped  e == inbox'.liveDropped  u == tally.lives  v == tally.lost
             u2 == tally'.lives  v2 == tally'.lost
  <2>1. d \in Nat /\ e = d /\ u \in Nat /\ v \in Nat /\ x \in Nat /\ y \in Nat
    BY <1>4, <1>9
  <2>2. /\ LivesReceived = u + v + n + d /\ LivesReceived' = u2 + v2 + y + e
        /\ \/ u2 = u /\ v2 = v /\ n = y
           \/ u2 = u + 1 /\ v2 = v /\ n = y + 1
           \/ u2 = u /\ v2 = v + 1 /\ n = y + 1
    BY <1>2, <1>7, <1>8, <1>9, <1>10
  <2> HIDE DEF d, e, u, v, u2, v2
  <2> QED BY <2>1, <2>2
<1> QED BY <1>1, <1>2, <1>6, <1>8, <1>11, <1>12, QuietTake

\* A result is the last frame of its run but for the receipts.
LEMMA TakeResultStep ==
    ASSUME SessionInv, TakeResult
    PROVE  SessionInv'
<1>1. Take("result") /\ UNCHANGED <<childVars, pipe, commands, responses, reader>>
  BY DEF TakeResult
<1>2. main \in Loops /\ main.count \in Nat /\ main.count + 1 \in Nat
  <2>1. main \in Loops /\ main.count \in Nat
    BY Fields DEF SessionInv, Types
  <2> QED BY <2>1
<1>3. /\ main' \in Loops /\ main'.count = main.count + 1 /\ main'.outcome = main.outcome
      /\ main'.at = IF worker.role = "server" THEN "decide" ELSE "loop"
  <2>1. PICK ok \in BOOLEAN, raises \in BOOLEAN :
            main' = [main EXCEPT !.count = @ + 1, !.ok = ok, !.broken = @ \/ raises,
                                 !.at = IF worker.role = "server" THEN "decide" ELSE "loop"]
    BY DEF TakeResult
  <2> DEFINE n == main.count + 1  e == main.broken \/ raises
             p == IF worker.role = "server" THEN "decide" ELSE "loop"
  <2>2. n \in Nat /\ e \in BOOLEAN /\ p \in {"decide", "loop"}
    BY <1>2
  <2>3. main' = [main EXCEPT !.count = n, !.ok = ok, !.broken = e, !.at = p]
    BY <1>2, <2>1 DEF Loops
  <2> HIDE DEF n, e, p
  <2>4. /\ main' \in Loops /\ main'.count = n /\ main'.outcome = main.outcome /\ main'.at = p
    BY <1>2, <2>2, <2>3 DEF Loops
  <2> QED BY <2>4 DEF n, p
<1>4. tally' = [events |-> 0, lives |-> 0, lost |-> 0]
  BY DEF TakeResult
<1>5. /\ tally' \in Tallies /\ tally'.events = 0 /\ tally'.lives = 0 /\ tally'.lost = 0
      /\ main'.at # "ended"
  BY <1>3, <1>4 DEF Tallies
<1>6. /\ First \in Received /\ First \in Frame /\ First.type = "result" /\ main.at = "loop"
      /\ Received' = Received \ {First} /\ inbox.frames # <<>>
      /\ inbox'.dropped = inbox.dropped /\ inbox'.liveDropped = inbox.liveDropped
      /\ \A g \in Received' \cup Flight : Precedes(First, g)
      /\ Number(Received', "result") \in Nat
      /\ Number(Received, "result") = Number(Received', "result") + 1
      /\ worker' = worker /\ capture' = capture /\ responses' = responses
      /\ commands' = commands /\ reader' = reader /\ Flight' = Flight
      /\ Types' /\ Numbered' /\ Ordered' /\ EventsAhead' /\ LivesAhead' /\ ResultAhead'
      /\ Captured' /\ Counted' /\ Endings'
  BY <1>1, <1>3, <1>5, TakeKeeps
<1>7. /\ FinalPhase' = FinalPhase /\ FinalRuns' = FinalRuns /\ (FinalFailed' <=> FinalFailed)
      /\ Sent("ready")' <=> Sent("ready")
      /\ Sent("result")' <=> Sent("result")
      /\ Sent("error")' <=> Sent("error")
      /\ Sent("terminal")' <=> Sent("terminal")
  BY <1>1, LoopKeeps
<1>8. /\ \A g \in Received' \cup Flight : g.type \in {"error", "terminal"}
      /\ responses.phase \notin {"startup", "running"}
      /\ worker.role = "server" => responses.phase = "continuation" /\ Flight = {}
  <2>1. \A g \in Received' \cup Flight : g.type \in {"error", "terminal"}
    BY <1>6 DEF Precedes
  <2> QED BY <1>6, <2>1 DEF SessionInv, Rounds
<1>9. FinalPhase \notin {"startup", "running"}
  <2> SUFFICES ASSUME FinalPhase \in {"startup", "running"} PROVE FALSE
    OBVIOUS
  <2>1. responses.phase \in {"startup", "running"}
    BY Calm
  <2> QED BY <1>8, <2>1
<1>10. worker.at \notin {"setup", "native", "joining", "unsettled"}
  <2>1. worker.at = "setup" => FinalPhase \in {"startup", "running"}
    BY DEF SessionInv, Places
  <2>2. worker.at \in {"native", "joining", "unsettled"} => FinalPhase = "running"
    BY DEF SessionInv, Places
  <2> QED BY <1>9, <2>1, <2>2
<1>11. worker.role = "server" => inbox'.frames = <<>> /\ Received' = {}
  <2> SUFFICES ASSUME worker.role = "server" PROVE inbox'.frames = <<>> /\ Received' = {}
    OBVIOUS
  <2>1. Received' = {}
    <3>1. \A g \in Received : g.type \notin {"error", "terminal"}
      BY <1>8 DEF SessionInv, Rounds
    <3> QED BY <1>6, <1>8, <3>1
  <2>2. inbox'.frames \in Seq(Frame)
    BY <1>6 DEF Types, Inboxes
  <2> DEFINE s == inbox'.frames
  <2>3. s \in Seq(Frame) /\ Members(s) = {}
    BY <2>1, <2>2 DEF Received
  <2> HIDE DEF s
  <2>4. Len(s) = 0
    <3>1. Len(s) \in Nat
      BY <2>3
    <3>2. ~(1 \in 1..Len(s))
      BY <2>3 DEF Members
    <3> QED BY <3>1, <3>2
  <2>5. s = <<>>
    BY <2>3, <2>4
  <2> QED BY <2>1, <2>5 DEF s
<1>12. Ahead'
  <2>1. \A g \in Flight : g.type # "result"
    BY <1>8
  <2> QED BY <1>6, <1>7, <2>1 DEF SessionInv, Ahead
<1>13. Places'
  BY <1>6, <1>7, <1>10 DEF SessionInv, Places
<1>14. Accounts'
  <2>1. ~Capturing'
    BY <1>6, <1>10 DEF Capturing
  <2> QED BY <1>6, <1>8, <2>1 DEF Accounts
<1>15. Rounds'
  <2>1. responses.runs = main'.count + Number(Received', "result")
    <3> DEFINE n == Number(Received', "result")  m == Number(Received, "result")
    <3>1. responses.runs = main.count + m
      BY DEF SessionInv, Rounds
    <3>2. m = n + 1 /\ n \in Nat
      BY <1>6
    <3> HIDE DEF m, n
    <3>3. responses.runs = (main.count + 1) + n
      BY <1>2, <3>1, <3>2
    <3> QED BY <1>3, <3>3 DEF n
  <2>2. commands = <<>> \/ worker.at = "exited"
    BY <1>6 DEF SessionInv, Rounds, Told
  <2>3. \A g \in Received' : /\ g.type = "error" => responses.phase \in {"ending", "terminal"}
                                                     /\ responses.failed
                             /\ g.type = "terminal" => responses.phase = "terminal"
                             /\ g.type # "result"
    BY <1>6, <1>8 DEF SessionInv, Rounds
  <2>4. /\ responses.run = worker.run \/ responses.run = worker.run + 1
        /\ worker.at = "command" => worker.role = "server"
        /\ worker.role \in {"client", "server"}
    BY DEF SessionInv, Rounds, Places, Types, Workers
  <2>5. responses.phase = "continuation" =>
           /\ worker.role = "server" /\ worker.at \in {"command", "exited"}
           /\ worker.at = "exited" => worker.cut
           /\ Flight = {} /\ responses.run = worker.run /\ commands = <<>>
           /\ inbox.dropped = 0 /\ inbox.liveDropped = 0 /\ worker.count = worker.run
    BY DEF SessionInv, Rounds
  <2> QED BY <1>3, <1>5, <1>6, <1>8, <1>10, <1>11, <2>1, <2>2, <2>3, <2>4, <2>5 DEF Rounds
<1> QED BY <1>6, <1>12, <1>13, <1>14, <1>15 DEF SessionInv

-----------------------------------------------------------------------------
(* The theorems                                                            *)

LEMMA InitSession ==
    ASSUME Init
    PROVE  SessionInv
<1>1. /\ capture = NewCapture /\ out = [frames |-> <<>>, sequence |-> 0, closed |-> FALSE]
      /\ pipe = <<>> /\ commands = <<>> /\ responses = NewResponses /\ reader = "reading"
      /\ inbox = [frames |-> <<>>, dropped |-> 0, liveDropped |-> 0]
      /\ main = [at |-> "loop", count |-> 0, error |-> FALSE, broken |-> FALSE,
                 ok |-> TRUE, outcome |-> "none"]
      /\ tally = [events |-> 0, lives |-> 0, lost |-> 0]
  BY DEF Init
<1>2. PICK role \in {"client", "server"} :
          worker = [role |-> role, at |-> "setup", run |-> 1, count |-> 0, failed |-> FALSE,
                    cut |-> FALSE]
  BY ProtocolAssumption DEF Init
<1>3. /\ worker \in Workers /\ worker.at = "setup" /\ worker.run = 1 /\ worker.count = 0
      /\ ~worker.failed /\ ~worker.cut
  BY <1>2 DEF Workers
<1>4. /\ responses \in Parents /\ responses.incoming = 0 /\ responses.phase = "startup"
      /\ responses.run = 1 /\ responses.runs = 0 /\ ~responses.failed
      /\ responses.eventSequence = 0 /\ responses.liveReceived = 0
      /\ responses.captureSequence = 0 /\ responses.gaps = {}
  BY <1>1 DEF NewResponses, Parents, Phases
<1>5. <<>> \in Seq(Frame) /\ <<>> \in Seq(Nat) /\ <<>> \in Seq(Commands) /\ Len(<<>>) = 0
  OBVIOUS
<1>6. /\ capture \in Captures /\ capture.parser = "running" /\ ~capture.closed
      /\ capture.queue = <<>> /\ capture.held = 0 /\ capture.callbacks = 0
  BY <1>1, <1>5 DEF NewCapture, Captures
<1>7. /\ out \in Outs /\ out.frames = <<>> /\ out.sequence = 0 /\ ~out.closed
      /\ inbox \in Inboxes /\ inbox.frames = <<>> /\ inbox.dropped = 0 /\ inbox.liveDropped = 0
      /\ main \in Loops /\ main.at = "loop" /\ main.count = 0 /\ main.outcome = "none"
      /\ tally \in Tallies /\ tally.events = 0 /\ tally.lives = 0 /\ tally.lost = 0
  BY <1>1, <1>5 DEF Outs, Inboxes, Loops, Tallies
<1>8. Flight = {} /\ Received = {}
  BY <1>1, <1>5, <1>7 DEF Flight, Received, Members
<1>9. \A type : ~Sent(type)
  BY <1>8 DEF Sent
<1>10. FinalPhase = "startup" /\ FinalRuns = 0 /\ ~FinalFailed
  BY <1>4, <1>9 DEF FinalPhase, FinalRuns, FinalFailed
<1>11. Types
  BY <1>1, <1>3, <1>4, <1>5, <1>6, <1>7 DEF Types
<1>12. Numbered
  BY <1>1, <1>3, <1>4, <1>5, <1>7, <1>8 DEF Numbered
<1>13. Ordered /\ Ahead /\ EventsAhead /\ LivesAhead /\ ResultAhead
  BY <1>8 DEF Ordered, Ahead, EventsAhead, LivesAhead, ResultAhead
<1>14. Places
  BY <1>3, <1>4, <1>7, <1>10 DEF Places
<1>15. Captured
  BY <1>3, <1>5, <1>6 DEF Captured
<1>16. ~Capturing /\ Counted
  BY <1>3 DEF Counted, Capturing
<1>17. Number(Received, "live_event") = 0 /\ Number(Received, "result") = 0
  BY <1>8, NumberNone
<1>18. Accounts
  BY <1>4, <1>7, <1>8, <1>16, <1>17 DEF Accounts, LivesReceived
<1>19. Fresh
  BY <1>4, <1>7, <1>8 DEF Fresh
<1>20. Rounds
  BY <1>1, <1>3, <1>4, <1>7, <1>8, <1>17, <1>19 DEF Rounds
<1>21. Endings
  BY <1>1, <1>7 DEF Endings
<1> QED BY <1>11, <1>12, <1>13, <1>14, <1>15, <1>16, <1>18, <1>20, <1>21 DEF SessionInv

LEMMA StutterSession ==
    ASSUME SessionInv, UNCHANGED vars
    PROVE  SessionInv'
<1>1. /\ UNCHANGED <<childVars, pipe, responses, reader>>
      /\ commands' = commands /\ inbox' = inbox /\ main' = main /\ tally' = tally
  BY DEF vars, childVars
<1>2. /\ worker' = worker /\ capture' = capture /\ out' = out /\ pipe' = pipe
      /\ responses' = responses /\ reader' = reader /\ Flight' = Flight
      /\ EventsAhead' /\ LivesAhead' /\ ResultAhead' /\ Captured' /\ Counted'
      /\ FinalPhase' = FinalPhase /\ FinalRuns' = FinalRuns /\ (FinalFailed' <=> FinalFailed)
      /\ Sent("ready")' <=> Sent("ready")
      /\ Sent("result")' <=> Sent("result")
      /\ Sent("error")' <=> Sent("error")
      /\ Sent("terminal")' <=> Sent("terminal")
      /\ Capturing' <=> Capturing
      /\ Number(Flight', "event") = Number(Flight, "event")
  BY <1>1, LoopKeeps
<1>3. Received' = Received
  BY <1>1 DEF Received
<1>4. Types' /\ Numbered' /\ Ordered' /\ Places' /\ Endings'
  <2>1. Types'
    BY <1>1, <1>2 DEF SessionInv, Types
  <2>2. Numbered'
    BY <1>1, <1>2, <1>3 DEF SessionInv, Numbered
  <2>3. Ordered'
    BY <1>2, <1>3 DEF SessionInv, Ordered
  <2>4. Places'
    BY <1>1, <1>2 DEF SessionInv, Places
  <2>5. Endings'
    BY <1>1, <1>2 DEF SessionInv, Endings
  <2> QED BY <2>1, <2>2, <2>3, <2>4, <2>5
<1>5. Ahead'
  BY <1>1, <1>2 DEF SessionInv, Ahead
<1>6. Accounts'
  BY <1>1, <1>2, <1>3, ReceivedSame DEF SessionInv, Accounts
<1>7. Rounds'
  <2>1. Number(Received', "result") = Number(Received, "result")
    BY <1>3, NumberSame
  <2>2. Fresh => Fresh'
    BY <1>1, <1>2 DEF Fresh
  <2>3. /\ Told(TRUE) => Told(TRUE)'
        /\ Told(FALSE) => Told(FALSE)'
    BY <1>1, <1>2, <2>2 DEF Told
  <2> QED BY <1>1, <1>2, <1>3, <2>1, <2>2, <2>3 DEF SessionInv, Rounds
<1> QED BY <1>2, <1>4, <1>5, <1>6, <1>7 DEF SessionInv

LEMMA StepSession ==
    ASSUME SessionInv, [Next]_vars
    PROVE  SessionInv'
<1>1. CASE Child
  BY <1>1, SetupStep, NativeReturnsStep, PublishStep, RunFailsStep, CommandStep, SendErrorStep,
     SendTerminalStep, ExitStep DEF Child
<1>2. CASE NativeCallback
  BY <1>2, NativeCallbackStep
<1>3. CASE ParserFails \/ ParserUnsettled
  BY <1>3, ParserFailsStep, ParserUnsettledStep
<1>4. CASE ExitUndrained \/ Crash
  BY <1>4, CrashStep
<1>5. CASE Parser
  BY <1>5, ParseTakeStep, ParseLiveStep, ParseGapStep DEF Parser
<1>6. CASE Write
  BY <1>6, WriteStep
<1>7. CASE Reader
  BY <1>7, ReadFrameStep, ReadEndStep DEF Reader
<1>8. CASE Main
  BY <1>8, LoopFailureStep, TakeReceiptStep, TakeEventStep, TakeResultStep, DecideStep,
     TellStep, FinishStep DEF Main
<1>9. CASE UNCHANGED vars
  BY <1>9, StutterSession
<1> QED BY <1>1, <1>2, <1>3, <1>4, <1>5, <1>6, <1>7, <1>8, <1>9 DEF Next, Accident

\* Frames are numbered, ordered, acceptable and accounted for in every state
\* that run_worker and its child can reach together.
THEOREM SessionInvariance == Spec => []SessionInv
<1>1. Init => SessionInv
  BY InitSession
<1>2. SessionInv /\ [Next]_vars => SessionInv'
  BY StepSession
<1> QED BY <1>1, <1>2, PTL DEF Spec

\* _Responses.accept rejects no frame of a worker that follows _worker.execute,
\* and _Inbox.put refuses none: the reader fails only at the end of file of a
\* session that the child cut short.
THEOREM HonestWorkerAcceptedHolds == Spec => []HonestWorkerAccepted
<1>1. SessionInv => HonestWorkerAccepted
  BY DEF SessionInv, Endings, HonestWorkerAccepted
<1> QED BY <1>1, SessionInvariance, PTL

\* The result that the message loop decodes next accounts for every event its
\* run emitted: delivered, or dropped by one of the two BoundedFrameQueues.
THEOREM DeliveryAccountedHolds == Spec => []DeliveryAccounted
<1>1. SessionInv => DeliveryAccounted
  <2> DEFINE s == inbox.frames  r == Head(s)
  <2> SUFFICES ASSUME SessionInv, inbox.frames # <<>>, Head(inbox.frames).type = "result"
               PROVE  /\ r.liveEmitted = tally.lives + tally.lost + r.liveDropped
                                         + r.parentLiveDropped
                      /\ Legacy => r.emitted = tally.events + r.dropped + r.parentDropped
    BY DEF DeliveryAccounted
  <2>1. s \in Seq(Frame) /\ s # <<>> /\ tally.events \in Nat /\ tally.lives \in Nat
        /\ tally.lost \in Nat
    BY Fields DEF SessionInv
  <2>2. r = s[1] /\ r \in Frame /\ Len(s) \in Nat \ {0} /\ r.type = "result"
    BY <2>1, MembersTail
  <2>3. r \in Received
    BY <2>2 DEF Received, Members
  <2>4. \A g \in Received : g.type \notin {"event", "live_event"}
    <3> SUFFICES ASSUME NEW i \in 1..Len(s) PROVE s[i].type \notin {"event", "live_event"}
      BY DEF Received, Members
    <3>1. CASE i = 1
      BY <2>2, <3>1
    <3>2. CASE i # 1
      <4>1. 1 \in 1..Len(s) /\ 1 < i
        BY <2>2, <3>2
      <4>2. s[1].sequence < s[i].sequence
        BY <4>1 DEF SessionInv, Numbered
      <4>3. s[i] \in Received
        BY DEF Received, Members
      <4>4. Precedes(r, s[i])
        BY <2>2, <2>3, <4>2, <4>3 DEF SessionInv, Ordered
      <4> QED BY <2>2, <4>4 DEF Precedes
    <3> QED BY <3>1, <3>2
  <2>5. Number(Received, "event") = 0 /\ Number(Received, "live_event") = 0
    BY <2>4, NumberNone
  <2>6. /\ inbox.dropped = 0 /\ inbox.liveDropped = 0
        /\ r.liveEmitted = LivesReceived + r.liveDropped + r.parentLiveDropped
        /\ Legacy => r.emitted = EventsReceived + r.dropped + r.parentDropped
    BY <2>2, <2>3 DEF SessionInv, Accounts
  <2>7. EventsReceived = tally.events /\ LivesReceived = tally.lives + tally.lost
    BY <2>1, <2>5, <2>6 DEF EventsReceived, LivesReceived
  <2> HIDE DEF r
  <2> QED BY <2>6, <2>7
<1> QED BY <1>1, SessionInvariance, PTL

\* continue_run authorises each run before _worker.execute starts it, the
\* command names the run that is waiting and respects max_runs, and a session
\* that run_worker reports as successful has handed over every result.
THEOREM RunsCompleteHolds == Spec => []RunsComplete
<1>1. SessionInv => RunsAreAuthorised
  <2> SUFFICES ASSUME SessionInv PROVE RunsAreAuthorised
    OBVIOUS
  <2>1. worker.run \in Nat /\ responses.run \in Nat /\ worker.count \in Nat
    BY Fields DEF SessionInv
  <2>2. worker.run <= responses.run
    BY <2>1 DEF SessionInv, Rounds
  <2>3. worker.at \in {"setup", "native", "joining"} => main.count = worker.run - 1
    <3>1. worker.at \in {"setup", "native", "joining"} =>
              worker.count + 1 = worker.run /\ main.count = worker.count
      BY DEF SessionInv, Places
    <3> QED BY <2>1, <3>1
  <2>4. commands # <<>> /\ ChildRuns =>
            /\ Head(commands).run = worker.run
            /\ Head(commands).continue => worker.count < MaxRuns
    <3> SUFFICES ASSUME commands # <<>>, ChildRuns
                 PROVE  /\ Head(commands).run = worker.run
                        /\ Head(commands).continue => worker.count < MaxRuns
      OBVIOUS
    <3>1. worker.at # "exited"
      BY DEF ChildRuns
    <3>2. /\ Len(commands) = 1 /\ commands[1].run = worker.run
          /\ IF commands[1].continue THEN Told(TRUE) ELSE Told(FALSE)
      BY <3>1 DEF SessionInv, Rounds
    <3>3. Head(commands) = commands[1]
      <4>1. commands \in Seq(Commands)
        BY DEF SessionInv, Types
      <4> QED BY <4>1
    <3>4. commands[1].continue => worker.count < MaxRuns
      BY <3>1, <3>2 DEF Told
    <3> QED BY <3>2, <3>3, <3>4
  <2> QED BY <2>2, <2>3, <2>4 DEF RunsAreAuthorised
<1>2. SessionInv => SuccessIsComplete
  <2> SUFFICES ASSUME SessionInv, main.outcome = "success"
               PROVE  /\ main.count = worker.count /\ main.count = responses.runs
                      /\ main.count > 0 /\ ~worker.failed
                      /\ inbox.frames = <<>> /\ pipe = <<>> /\ out.frames = <<>>
    BY DEF SuccessIsComplete
  <2>1. /\ reader = "eof" /\ inbox.frames = <<>> /\ ~worker.failed /\ main.count > 0
        /\ worker.at = "exited" /\ pipe = <<>>
    BY DEF SessionInv, Endings
  <2>2. out.frames = <<>>
    BY <2>1 DEF SessionInv, Numbered
  <2>3. Received = {} /\ Flight = {}
    BY <2>1, <2>2 DEF Received, Flight, Members
  <2>4. Number(Received, "result") = 0 /\ ~Sent("result")
    BY <2>3, NumberNone DEF Sent
  <2>5. main.count \in Nat
    BY Fields DEF SessionInv
  <2>6. responses.runs = main.count
    <3>1. responses.runs = main.count + Number(Received, "result")
      BY DEF SessionInv, Rounds
    <3> QED BY <2>4, <2>5, <3>1
  <2>7. worker.count = responses.runs
    <3>1. ~worker.cut
      BY <2>1 DEF SessionInv, Places
    <3>2. worker.count = FinalRuns
      BY <3>1 DEF SessionInv, Places
    <3> QED BY <2>4, <3>2 DEF FinalRuns
  <2> QED BY <2>1, <2>2, <2>6, <2>7
<1>3. SessionInv => RunsComplete
  BY <1>1, <1>2 DEF RunsComplete
<1> QED BY <1>3, SessionInvariance, PTL

=============================================================================
