--------------------------- MODULE WorkerProtocol ---------------------------
(***************************************************************************)
(* The session between run_worker and its child: _worker.execute with its  *)
(* parser and writer threads, the two bounded queues, the pipe, the        *)
(* reader thread that validates every frame before it is queued, and the   *)
(* message loop that delivers events, takes results and tells a server to  *)
(* go on.                                                                  *)
(*                                                                         *)
(* Payload bytes are left out: a frame is its type, sequence number, run   *)
(* and the counters that the other side checks.  An event that is too      *)
(* large, or for which the bytes of a queue do not suffice, is one that    *)
(* the queue refuses although it has a free slot.                          *)
(***************************************************************************)
EXTENDS Naturals, Sequences, FiniteSets

CONSTANTS
    Roles,           \* the roles to consider: "client", "server" or both
    MaxRuns,         \* the max_runs of a server's request
    Callbacks,       \* bound: native callbacks in one run
    PendingCaptures, \* EventCapture.item_limit
    PendingEvents,   \* MAX_PENDING_EVENTS, of both frame queues
    PipeFrames,      \* frames the pipe takes before the writer blocks
    Legacy, Live     \* whether on_event and a live sink were passed

ASSUME ProtocolAssumption ==
    /\ Roles \subseteq {"client", "server"} /\ MaxRuns \in Nat \ {0}
    /\ Callbacks \in Nat /\ PendingCaptures \in Nat \ {0}
    /\ PendingEvents \in Nat \ {0} /\ PipeFrames \in Nat \ {0}
    /\ Legacy \in BOOLEAN /\ Live \in BOOLEAN

VARIABLES
    worker,     \* main thread of the child, the role in its request, whether
                \* it failed, and whether its session is cut short: no terminal
    capture,    \* EventCapture of the current run
    out,        \* [frames, sequence]: outgoing queue and Session._outgoing
    pipe,       \* frames written and not yet read
    commands,   \* continuation commands on the child's stdin
    responses,  \* _Responses and Session._incoming
    reader,     \* "reading", "eof", or why it failed: "refused", "truncated"
    inbox,      \* [frames, dropped, liveDropped]
    main,       \* the message loop: [at, count, error, broken, outcome]
    tally       \* what was delivered since the last result, and its receipt

childVars  == <<worker, capture, out>>
parentVars == <<responses, reader, inbox, main, tally>>
vars       == <<worker, capture, out, pipe, commands, responses, reader, inbox,
                main, tally>>

EventTypes == {"event", "live_event"}

\* MAX_PENDING_CONTROLS
MaxPendingControls == 4

Count(frames, types) == Cardinality({i \in DOMAIN frames : frames[i].type \in types})
EventsIn(frames)     == Count(frames, EventTypes)
ControlsIn(frames)   == Len(frames) - EventsIn(frames)

NewCapture ==
    [queue |-> <<>>, callbacks |-> 0, copied |-> 0, captureDropped |-> 0,
     retentionDropped |-> 0, emitted |-> 0, dropped |-> 0, liveEmitted |-> 0,
     liveDropped |-> 0, held |-> 0, parser |-> "running", closed |-> FALSE]

NewResponses ==
    [incoming |-> 0, phase |-> "startup", run |-> 1, runs |-> 0, failed |-> FALSE,
     eventSequence |-> 0, liveReceived |-> 0, captureSequence |-> 0, gaps |-> {}]

Init ==
    /\ \E role \in Roles :
           worker = [role |-> role, at |-> "setup", run |-> 1, count |-> 0,
                     failed |-> FALSE, cut |-> FALSE]
    /\ capture = NewCapture
    /\ out = [frames |-> <<>>, sequence |-> 0, closed |-> FALSE]
    /\ pipe = <<>> /\ commands = <<>>
    /\ responses = NewResponses
    /\ reader = "reading"
    /\ inbox = [frames |-> <<>>, dropped |-> 0, liveDropped |-> 0]
    /\ main = [at |-> "loop", count |-> 0, error |-> FALSE, broken |-> FALSE,
               ok |-> TRUE, outcome |-> "none"]
    /\ tally = [events |-> 0, lives |-> 0, lost |-> 0]

-----------------------------------------------------------------------------
(* Session.emit and BoundedFrameQueue.put                                  *)

\* The number in the envelope of the next frame.
NextSequence == out.sequence + 1

Queued(frame) == [out EXCEPT !.frames = Append(@, frame), !.sequence = @ + 1]

CountDropped(frame) == [out EXCEPT !.sequence = @ + 1]     \* mutant

\* A dropped event never consumes a sequence number.
AfterDrop(frame) == out

EventFits == EventsIn(out.frames) < PendingEvents /\ ~out.closed

\* A free slot is needed; MAX_EVENT_BYTES and the byte budget may still refuse.
Admissions == {admitted \in BOOLEAN : admitted => EventFits}

\* enqueue(event=True): admitted, or dropped and counted by the caller.
EmitEvent(frame, admitted) ==
    out' = IF admitted THEN Queued(frame) ELSE AfterDrop(frame)

ControlFits == ControlsIn(out.frames) < MaxPendingControls /\ ~out.closed

\* enqueue() of a control frame; beyond the allowance it raises, and the
\* child's main thread goes where an exception takes it.
EmitControl(frame, then, raised) ==
    IF ControlFits
    THEN out' = Queued(frame) /\ worker' = then
    ELSE UNCHANGED out /\ worker' = raised

Failing == [worker EXCEPT !.at = "error", !.failed = TRUE]

-----------------------------------------------------------------------------
(* The child's main thread: _worker.execute                                *)

\* iperf_new_test, defaults and configuration; the first run is announced.
Setup ==
    /\ worker.at = "setup"
    /\ LET running == [worker EXCEPT !.at = "native"]
       IN  \/ /\ capture' = NewCapture
              /\ IF worker.run = 1
                 THEN EmitControl([type |-> "ready", sequence |-> NextSequence, run |-> 1],
                                  running, Failing)
                 ELSE worker' = running /\ UNCHANGED out
           \/ worker' = Failing /\ UNCHANGED <<capture, out>>
    /\ UNCHANGED <<pipe, commands, parentVars>>

\* The native library calls back: EventCapture.capture copies or drops.
NativeCallback ==
    /\ worker.at = "native" /\ capture.callbacks < Callbacks
    /\ LET n == capture.callbacks + 1
           fits == Len(capture.queue) < PendingCaptures /\ ~capture.closed
       IN  \/ fits /\ capture' = [capture EXCEPT !.callbacks = n, !.copied = @ + 1,
                                                 !.queue = Append(@, n)]
           \/ capture' = [capture EXCEPT !.callbacks = n, !.captureDropped = @ + 1]
    /\ UNCHANGED <<worker, out, pipe, commands, parentVars>>

\* The native run returns; the test is freed, so that no callback can follow,
\* and capture.close() lets the parser drain.
NativeReturns ==
    /\ worker.at = "native"
    /\ worker' = [worker EXCEPT !.at = "joining"]
    /\ capture' = [capture EXCEPT !.closed = TRUE]
    /\ UNCHANGED <<out, pipe, commands, parentVars>>

\* close() has joined the parser.
Joined == worker.at = "joining" /\ capture.parser = "done"

\* The result carries the counters of the capture; the parent adds its own.
ResultFrame ==
    [type |-> "result", sequence |-> NextSequence, run |-> worker.run,
     emitted |-> capture.emitted, dropped |-> capture.dropped,
     liveEmitted |-> capture.liveEmitted, liveDropped |-> capture.liveDropped,
     callbacks |-> capture.callbacks,
     capture |-> capture.captureDropped, retention |-> capture.retentionDropped,
     parentDropped |-> 0, parentLiveDropped |-> 0]

Publish ==
    /\ Joined
    /\ EmitControl(ResultFrame,
                   [worker EXCEPT !.count = @ + 1,
                                  !.at = IF worker.role = "client" THEN "terminal" ELSE "command"],
                   Failing)
    /\ UNCHANGED <<capture, pipe, commands, parentVars>>

\* The options cannot be observed or the result cannot be encoded: the parser
\* has been joined all the same, and no result is published.
RunFails ==
    /\ Joined /\ worker' = Failing
    /\ UNCHANGED <<capture, out, pipe, commands, parentVars>>

\* The parser thread failed: close() raises, no result is published.
ParserFails ==
    /\ worker.at = "joining" /\ capture.parser # "done"
    /\ capture' = [capture EXCEPT !.parser = "done", !.queue = <<>>, !.held = 0]
    /\ worker' = Failing
    /\ UNCHANGED <<out, pipe, commands, parentVars>>

\* The parser outlasts the joins of both calls of close(): it may still emit,
\* so that neither an error nor a terminal frame follows.
ParserUnsettled ==
    /\ worker.at = "joining" /\ capture.parser # "done"
    /\ worker' = [worker EXCEPT !.at = "unsettled", !.failed = TRUE, !.cut = TRUE]
    /\ UNCHANGED <<capture, out, pipe, commands, parentVars>>

\* The server waits for its command and validates run and maximum.
Command ==
    /\ worker.at = "command" /\ commands # <<>>
    /\ LET command == Head(commands)
           valid == command.run = worker.run
           excess == command.continue /\ worker.count >= MaxRuns
       IN  worker' = IF ~valid \/ excess THEN Failing
                     ELSE IF command.continue THEN [worker EXCEPT !.at = "setup", !.run = @ + 1]
                     ELSE [worker EXCEPT !.at = "terminal"]
    /\ commands' = Tail(commands)
    /\ UNCHANGED <<capture, out, pipe, parentVars>>

\* finally: an error frame when something failed, then the terminal receipt.
SendError ==
    /\ worker.at = "error"
    /\ EmitControl([type |-> "error", sequence |-> NextSequence, run |-> worker.run],
                   [worker EXCEPT !.at = "terminal"], [worker EXCEPT !.at = "close"])
    /\ UNCHANGED <<capture, pipe, commands, parentVars>>

SendTerminal ==
    /\ worker.at = "terminal"
    /\ EmitControl([type |-> "terminal", sequence |-> NextSequence, run |-> worker.run,
                    runs |-> worker.count, failed |-> worker.failed],
                   [worker EXCEPT !.at = "close"], [worker EXCEPT !.at = "close"])
    /\ UNCHANGED <<capture, pipe, commands, parentVars>>

Closing == worker.at \in {"close", "unsettled"}

\* outgoing.close() and the join of the writer, which drains the queue; the
\* process then exits, closing its end of the pipe.
Exit ==
    /\ Closing /\ out.frames = <<>>
    /\ worker' = [worker EXCEPT !.at = "exited"]
    /\ out' = [out EXCEPT !.closed = TRUE]
    /\ UNCHANGED <<capture, pipe, commands, parentVars>>

\* The process is gone, and with it what was not parsed or written.
CutShort ==
    /\ worker' = [worker EXCEPT !.at = "exited", !.failed = TRUE, !.cut = TRUE]
    /\ out' = [out EXCEPT !.frames = <<>>, !.closed = TRUE]
    /\ capture' = NewCapture
    /\ UNCHANGED <<pipe, commands, parentVars>>

\* The join of the writer expires, and its daemon thread ends with the process.
ExitUndrained == Closing /\ out.frames # <<>> /\ CutShort

Crash == worker.at # "exited" /\ CutShort

-----------------------------------------------------------------------------
(* The child's parser and writer threads                                   *)

ChildRuns == worker.at # "exited"

\* _parse takes the oldest copy; _consume emits the legacy event first.  A
\* malformed copy and a complete document have no legacy event.
ParseTake ==
    /\ ChildRuns /\ capture.parser = "running" /\ capture.held = 0 /\ capture.queue # <<>>
    /\ LET n == Head(capture.queue)
           taken == [capture EXCEPT !.queue = Tail(@), !.held = n]
       IN  \/ capture' = taken /\ UNCHANGED out
           \/ IF Legacy
              THEN \E admitted \in Admissions :
                   /\ EmitEvent([type |-> "event", sequence |-> NextSequence,
                                 run |-> worker.run, n |-> capture.emitted + 1], admitted)
                   /\ capture' = [taken EXCEPT !.emitted = @ + 1,
                                               !.dropped = IF admitted THEN @ ELSE @ + 1]
              ELSE UNCHANGED out /\ capture' = [taken EXCEPT !.emitted = @ + 1]
    /\ UNCHANGED <<worker, pipe, commands, parentVars>>

\* _live: count the event, and count it again when it was not admitted.
LiveCounted(before, admitted) ==
    IF Live THEN [before EXCEPT !.liveEmitted = @ + 1,
                                !.liveDropped = IF admitted THEN @ ELSE @ + 1]
            ELSE before

EmitLive(frame, admitted) ==
    IF Live THEN EmitEvent(frame, admitted) ELSE UNCHANGED out

\* _consume emits the typed event, then keeps the evidence or drops it.
ParseLive ==
    /\ ChildRuns /\ capture.held # 0
    /\ \E admitted \in Admissions, lost \in {0, 1} :
           /\ EmitLive([type |-> "live_event", sequence |-> NextSequence, run |-> worker.run,
                        n |-> capture.held], admitted)
           /\ capture' = [LiveCounted(capture, admitted) EXCEPT !.held = 0,
                                                               !.retentionDropped = @ + lost]
    /\ UNCHANGED <<worker, pipe, commands, parentVars>>

GapFrame(stage, lost) ==
    [type |-> "live_event", sequence |-> NextSequence, run |-> worker.run, n |-> 0,
     stage |-> stage, lost |-> lost]

\* The queue is drained after close(): the two gap events, if there were any.
ParseGap(here, there, stage, lost) ==
    /\ ChildRuns /\ capture.parser = here /\ capture.held = 0
    /\ here = "running" => capture.closed /\ capture.queue = <<>>
    /\ IF lost > 0
       THEN \E admitted \in Admissions :
            /\ EmitLive(GapFrame(stage, lost), admitted)
            /\ capture' = [LiveCounted(capture, admitted) EXCEPT !.parser = there]
       ELSE UNCHANGED out /\ capture' = [capture EXCEPT !.parser = there]
    /\ UNCHANGED <<worker, pipe, commands, parentVars>>

CaptureGap   == ParseGap("running", "retention", "capture", capture.captureDropped)
RetentionGap == ParseGap("retention", "done", "retention", capture.retentionDropped)

\* write_messages: one frame at a time, blocking while the pipe is full.
Write ==
    /\ ChildRuns /\ out.frames # <<>> /\ Len(pipe) < PipeFrames
    /\ pipe' = Append(pipe, Head(out.frames))
    /\ out' = [out EXCEPT !.frames = Tail(@)]
    /\ UNCHANGED <<worker, capture, commands, parentVars>>

-----------------------------------------------------------------------------
(* The parent's reader thread: _Responses.accept, then _Inbox.put          *)

InSequence(frame) ==
    /\ frame.sequence = responses.incoming + 1
    /\ responses.phase # "terminal"
    /\ frame.run = responses.run

EventInOrder(frame) ==
    responses.phase = "running" /\ frame.n > responses.eventSequence

LiveInOrder(frame) ==
    /\ responses.phase = "running" /\ Live
    /\ IF frame.n # 0
       THEN frame.n > responses.captureSequence /\ responses.gaps = {}
       ELSE \A gap \in responses.gaps : gap.stage # frame.stage

ResultAgrees(frame) ==
    /\ responses.phase = "running"
    /\ frame.dropped <= frame.emitted /\ frame.emitted >= responses.eventSequence
    /\ frame.liveEmitted = responses.liveReceived + frame.liveDropped
    /\ responses.captureSequence <= frame.callbacks
    /\ \A gap \in responses.gaps :
           gap.lost = IF gap.stage = "capture" THEN frame.capture ELSE frame.retention

TerminalAgrees(frame) ==
    /\ responses.phase = "ending" /\ frame.runs = responses.runs
    /\ frame.failed = responses.failed

\* accept(): may this frame follow what was accepted before?
Acceptable(frame) ==
    /\ InSequence(frame)
    /\ CASE frame.type = "ready"      -> responses.phase = "startup"
         [] frame.type = "event"      -> EventInOrder(frame)
         [] frame.type = "live_event" -> LiveInOrder(frame)
         [] frame.type = "result"     -> ResultAgrees(frame)
         [] frame.type = "error"      -> ~responses.failed
         [] frame.type = "terminal"   -> TerminalAgrees(frame)

\* accept(): what it then remembers.
Accepted(frame) ==
    LET seen == [responses EXCEPT !.incoming = @ + 1]
    IN  CASE frame.type = "ready"    -> [seen EXCEPT !.phase = "running"]
          [] frame.type = "event"    -> [seen EXCEPT !.eventSequence = frame.n]
          [] frame.type = "live_event" /\ frame.n # 0 ->
                 [seen EXCEPT !.captureSequence = frame.n, !.liveReceived = @ + 1]
          [] frame.type = "live_event" /\ frame.n = 0 ->
                 [seen EXCEPT !.gaps = @ \cup {[stage |-> frame.stage, lost |-> frame.lost]},
                              !.liveReceived = @ + 1]
          [] frame.type = "result"   ->
                 [seen EXCEPT !.runs = @ + 1,
                              !.phase = IF worker.role = "server" THEN "continuation" ELSE "ending"]
          [] frame.type = "error"    -> [seen EXCEPT !.failed = TRUE, !.phase = "ending"]
          [] frame.type = "terminal" -> [seen EXCEPT !.phase = "terminal"]

InboxTakes(frame) ==
    frame.type \in EventTypes \/ ControlsIn(inbox.frames) < MaxPendingControls

Receipt(frame) ==
    [frame EXCEPT !.parentDropped = inbox.dropped, !.parentLiveDropped = inbox.liveDropped]

KeepDropCount(frame) ==     \* mutant: the counters are not reset by a result
    [inbox EXCEPT !.frames = Append(@, Receipt(frame))]

\* A result is stamped with the drops since the last one, which start again.
StampResult(frame) ==
    [frames |-> Append(inbox.frames, Receipt(frame)), dropped |-> 0, liveDropped |-> 0]

\* A full inbox drops an event, and by its byte budget one that holds another.
InboxAdmissions ==
    {admitted \in BOOLEAN : IF admitted THEN EventsIn(inbox.frames) < PendingEvents
                                        ELSE EventsIn(inbox.frames) > 0}

\* _Inbox.put
InboxAfter(frame, admitted) ==
    IF frame.type \in EventTypes /\ ~admitted
    THEN IF frame.type = "event" THEN [inbox EXCEPT !.dropped = @ + 1]
                                 ELSE [inbox EXCEPT !.liveDropped = @ + 1]
    ELSE IF frame.type = "result" THEN StampResult(frame)
    ELSE [inbox EXCEPT !.frames = Append(@, frame)]

ReadFrame ==
    /\ reader = "reading" /\ main.at # "ended" /\ pipe # <<>>
    /\ LET frame == Head(pipe)
       IN  IF Acceptable(frame) /\ InboxTakes(frame)
           THEN /\ responses' = Accepted(frame) /\ UNCHANGED reader
                /\ \E admitted \in InboxAdmissions : inbox' = InboxAfter(frame, admitted)
           ELSE reader' = "refused" /\ UNCHANGED <<responses, inbox>>
    /\ pipe' = Tail(pipe)
    /\ UNCHANGED <<childVars, commands, main, tally>>

EndIgnored == reader     \* mutant: a missing receipt is not noticed

\* End of file is clean only after the terminal receipt.
EndOfStream == IF responses.phase = "terminal" THEN "eof" ELSE "truncated"

ReadEnd ==
    /\ reader = "reading" /\ pipe = <<>> /\ worker.at = "exited"
    /\ reader' = EndOfStream
    /\ UNCHANGED <<childVars, pipe, commands, responses, inbox, main, tally>>

-----------------------------------------------------------------------------
(* The parent's message loop                                               *)

ReaderFailed == reader \in {"refused", "truncated"}

End(outcome) == main' = [main EXCEPT !.at = "ended", !.outcome = outcome]

\* get() reports the reader's failure before any frame that is still queued.
LoopFailure ==
    /\ main.at = "loop" /\ ReaderFailed
    /\ End("transport")
    /\ UNCHANGED <<childVars, pipe, commands, responses, reader, inbox, tally>>

Take(type) ==
    /\ main.at = "loop" /\ ~ReaderFailed
    /\ inbox.frames # <<>> /\ Head(inbox.frames).type = type
    /\ inbox' = [inbox EXCEPT !.frames = Tail(@)]

\* ready is a live event of the parent's own, whose callback may raise; error
\* is remembered, and terminal needs nothing here.
TakeReceipt ==
    /\ \/ Take("ready") /\ \E raises \in {FALSE, Live} : main' = [main EXCEPT !.broken = raises]
       \/ Take("terminal") /\ UNCHANGED main
       \/ Take("error") /\ main' = [main EXCEPT !.error = TRUE]
    /\ UNCHANGED <<childVars, pipe, commands, responses, reader, tally>>

\* Events go to their callback until one raises; a live event may fail its
\* projection.
TakeEvent ==
    /\ \/ Take("event") /\ tally' = [tally EXCEPT !.events = @ + 1]
       \/ Take("live_event") /\ \/ tally' = [tally EXCEPT !.lives = @ + 1]
                                \/ tally' = [tally EXCEPT !.lost = @ + 1]
    /\ \E raises \in BOOLEAN : main' = [main EXCEPT !.broken = @ \/ raises]
    /\ UNCHANGED <<childVars, pipe, commands, responses, reader>>

\* The result is decoded, its receipt attached and on_result called.
TakeResult ==
    /\ Take("result")
    /\ \E ok \in BOOLEAN, raises \in BOOLEAN :
           main' = [main EXCEPT !.count = @ + 1, !.ok = ok, !.broken = @ \/ raises,
                                !.at = IF worker.role = "server" THEN "decide" ELSE "loop"]
    /\ tally' = [events |-> 0, lives |-> 0, lost |-> 0]
    /\ UNCHANGED <<childVars, pipe, commands, responses, reader>>

\* keep_running, but for should_stop, which may say stop at any time.
MayContinue == ~main.broken /\ main.ok /\ main.count < MaxRuns

\* continue_run() authorises the next run before the command is visible.
Decide ==
    /\ main.at = "decide"
    /\ \/ /\ responses.phase = "continuation"
          /\ \E keep \in {FALSE} \cup {k \in {TRUE} : MayContinue} :
                 /\ responses' =
                        IF keep
                        THEN [responses EXCEPT !.run = @ + 1, !.eventSequence = 0,
                                               !.liveReceived = 0, !.captureSequence = 0,
                                               !.gaps = {}, !.phase = "running"]
                        ELSE [responses EXCEPT !.phase = "ending"]
                 /\ main' = [main EXCEPT !.at = IF keep THEN "tell" ELSE "tellEnd"]
       \/ responses.phase # "continuation" /\ End("transport") /\ UNCHANGED responses
    /\ UNCHANGED <<childVars, pipe, commands, reader, inbox, tally>>

\* write_message: the command names the completed run.
CompletedRun == IF main.at = "tell" THEN responses.run - 1 ELSE responses.run

Tell ==
    /\ main.at \in {"tell", "tellEnd"}
    /\ \/ /\ commands' = Append(commands, [run |-> CompletedRun, continue |-> main.at = "tell"])
          /\ main' = [main EXCEPT !.at = "loop"]
       \/ ~ChildRuns /\ End("transport") /\ UNCHANGED commands
    /\ UNCHANGED <<childVars, pipe, responses, reader, inbox, tally>>

EofFirst == TRUE     \* mutant: end of file overtakes frames that are queued

\* get() reports the end of file only when nothing is queued.
Drained == inbox.frames = <<>>

\* Clean end of file: the worker error, its exit status, the callback error
\* and a missing result come before success.
Finish ==
    /\ main.at = "loop" /\ reader = "eof" /\ Drained
    /\ End(IF main.error \/ worker.failed THEN "worker"
           ELSE IF main.broken THEN "callback"
           ELSE IF main.count = 0 THEN "worker" ELSE "success")
    /\ UNCHANGED <<childVars, pipe, commands, responses, reader, inbox, tally>>

-----------------------------------------------------------------------------
Child ==
    \/ Setup \/ NativeReturns \/ Publish \/ RunFails \/ Command
    \/ SendError \/ SendTerminal \/ Exit
Parser == ParseTake \/ ParseLive \/ CaptureGap \/ RetentionGap
Reader == ReadFrame \/ ReadEnd
Main   ==
    \/ LoopFailure \/ TakeReceipt \/ TakeEvent \/ TakeResult \/ Decide \/ Tell \/ Finish

\* What ends a session early; nothing makes it happen.
Accident == ParserFails \/ ParserUnsettled \/ ExitUndrained \/ Crash

Next == Child \/ NativeCallback \/ Accident \/ Parser \/ Write \/ Reader \/ Main

\* Native runs return, callbacks of the application return, and every thread
\* that can run does.
Fairness ==
    WF_vars(Child) /\ WF_vars(Parser) /\ WF_vars(Write) /\ WF_vars(Reader) /\ WF_vars(Main)

Spec == Init /\ [][Next]_vars /\ Fairness

-----------------------------------------------------------------------------
TypeOK ==
    /\ worker.at \in {"setup", "native", "joining", "command", "error", "terminal",
                      "unsettled", "close", "exited"}
    /\ worker.run \in 1..MaxRuns /\ worker.count \in 0..MaxRuns
    /\ responses.phase \in {"startup", "running", "continuation", "ending", "terminal"}
    /\ responses.run \in 1..MaxRuns /\ responses.runs \in 0..MaxRuns
    /\ reader \in {"reading", "eof", "refused", "truncated"}
    /\ main.at \in {"loop", "decide", "tell", "tellEnd", "ended"}
    /\ main.outcome \in {"none", "success", "worker", "callback", "transport"}
    /\ Len(out.frames) <= PendingEvents + MaxPendingControls
    /\ Len(inbox.frames) <= PendingEvents + MaxPendingControls

\* No frame of a worker is ever rejected by _Responses.accept or refused by a
\* full control queue, whatever is dropped on the way, however the parser,
\* writer and reader interleave, and wherever the stream ends.  The transport
\* fails only at an end of file without the terminal receipt, of a child that
\* crashed, whose writer was not joined in time, or that withheld the receipt
\* because its parser had not settled.
HonestWorkerAccepted ==
    /\ reader # "refused"
    /\ reader = "truncated" \/ main.outcome = "transport" => worker.cut

\* When a result reaches the message loop, every event its run emitted has
\* reached the loop before it (where it is delivered, or fails its projection,
\* or finds its callback broken) or is counted as dropped by exactly one of
\* the two queues: the receipts attached to the result add up.
DeliveryAccounted ==
    (main.at = "loop" /\ inbox.frames # <<>> /\ Head(inbox.frames).type = "result") =>
        LET receipt == Head(inbox.frames)
        IN  /\ receipt.liveEmitted = tally.lives + tally.lost + receipt.liveDropped
                                     + receipt.parentLiveDropped
            /\ Legacy => receipt.emitted = tally.events + receipt.dropped
                                           + receipt.parentDropped

\* The child never runs ahead of its parent: a run starts only when the
\* result of the one before has been taken and the parent expects its frames,
\* and every command it receives names its run and respects max_runs.
RunsAreAuthorised ==
    /\ worker.run <= responses.run
    /\ worker.at \in {"setup", "native", "joining"} => main.count = worker.run - 1
    /\ commands # <<>> /\ ChildRuns =>
           /\ Head(commands).run = worker.run
           /\ Head(commands).continue => worker.count < MaxRuns

\* A successful session delivered every result the child produced, and no
\* event is left behind in a queue.
SuccessIsComplete ==
    main.outcome = "success" =>
        /\ main.count = worker.count /\ main.count = responses.runs /\ main.count > 0
        /\ ~worker.failed /\ inbox.frames = <<>> /\ pipe = <<>> /\ out.frames = <<>>

\* Runs are authorised one by one, and a session that succeeds has handed over
\* everything they produced.
RunsComplete == RunsAreAuthorised /\ SuccessIsComplete

\* Parent and child never wait for each other: every session ends once native
\* runs and callbacks return.
SessionEnds == <>(main.at = "ended")
=============================================================================
