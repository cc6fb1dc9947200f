--------------------------- MODULE FrameTransport ---------------------------
(***************************************************************************)
(* The bytes between run_worker and its child, and the child's lifetime:   *)
(* _ipc.encode_frame, FrameDecoder, read_frame, the byte budgets of        *)
(* BoundedFrameQueue, _worker_lifetime.protect_parent, _worker.main with   *)
(* its writer thread, and run_worker's write_message and read_messages.    *)
(*                                                                         *)
(* A byte is the frame it belongs to and its position in it, so that a     *)
(* frame put together from the wrong bytes shows; JSON is left out, a body *)
(* is its size.  What the frames say is WorkerProtocol's matter.           *)
(***************************************************************************)
EXTENDS Naturals, Sequences, SequencesExt, FiniteSetsExt

CONSTANTS
    HeaderSize,       \* _HEADER.size
    MaxFrameBytes,    \* MAX_FRAME_BYTES
    MaxEventBytes,    \* MAX_EVENT_BYTES
    PendingEvents,    \* MAX_PENDING_EVENTS
    PendingBytes,     \* MAX_PENDING_EVENT_BYTES
    PendingControls,  \* MAX_PENDING_CONTROLS
    ControlBytes,     \* MAX_PENDING_CONTROL_BYTES
    PipeBytes,        \* what the operating system's pipe holds
    ChunkBytes,       \* the size of one os.read
    MaxEvents         \* bound: events of one session

ASSUME TransportAssumption ==
    /\ {HeaderSize, MaxFrameBytes, MaxEventBytes, PipeBytes, ChunkBytes}
           \subseteq Nat \ {0}
    /\ MaxEventBytes <= MaxFrameBytes
    /\ {PendingEvents, PendingBytes, PendingControls, MaxEvents} \subseteq Nat
    /\ ControlBytes = 2 * MaxFrameBytes + 4 * HeaderSize + 3

VARIABLES
    parent,   \* [alive, closing, request]: the calling process; what it sends
    child,    \* [at, armed, linux, results, settled]: the worker process, and
              \* whether its parser has settled
    stdin,    \* bytes on the child's input pipe
    sending,  \* bytes write_message has still to write
    input,    \* bytes read_frame has taken of the frame it is reading
    queue,    \* [frames, closed]: BoundedFrameQueue
    pending,  \* bytes of the frame the writer thread is writing
    stdout,   \* bytes on the child's output pipe
    admitted, \* every frame Session.emit gave a sequence number, in order
    decoder,  \* FrameDecoder: [header, body, length, failed]
    reader    \* [delivered, phase, verdict]: read_messages

childIO  == <<input, queue, pending, stdout, admitted>>
parentIO == <<sending, decoder, reader>>
vars     == <<parent, child, stdin, childIO, parentIO>>

Live  == {"spawned", "armed", "request", "running", "command", "failing",
          "stopping", "draining"}
Ended == {"refused", "exited", "killed"}

-----------------------------------------------------------------------------
(* encode_frame, FrameDecoder and read_frame                               *)

Size(frame) == HeaderSize + frame.size

Encode(frame) == [i \in 1 .. Size(frame) |-> [frame |-> frame, at |-> i]]

\* encode_frame and _decode refuse what exceeds the limit of its kind.
Encodable(frame) ==
    frame.size <= IF frame.kind = "event" THEN MaxEventBytes ELSE MaxFrameBytes

\* The length that a header advertises; a header put together from the
\* wrong bytes advertises an invalid one.
Unpack(header) ==
    IF header = SubSeq(Encode(header[1].frame), 1, HeaderSize)
    THEN header[1].frame.size ELSE 0

Advertised(length) == 0 < length /\ length <= MaxFrameBytes

\* _decode: a body is a JSON object if it is the whole body of one frame.
Decodes(body) ==
    /\ Encode(body[1].frame) = SubSeq(Encode(body[1].frame), 1, HeaderSize) \o body
    /\ Encodable(body[1].frame)

NewDecoder == [header |-> <<>>, body |-> <<>>, length |-> 0, failed |-> FALSE]

\* One byte of FrameDecoder.feed_sized; length 0 is None.
FeedByte(fed, byte) ==
    LET d      == fed.decoder
        header == Append(d.header, byte)
        body   == Append(d.body, byte)
        bad    == [fed EXCEPT !.decoder.failed = TRUE]
    IN  CASE d.failed -> fed
          [] ~d.failed /\ d.length = 0 /\ Len(header) < HeaderSize ->
                 [fed EXCEPT !.decoder.header = header]
          [] ~d.failed /\ d.length = 0 /\ Len(header) = HeaderSize ->
                 IF Advertised(Unpack(header))
                 THEN [fed EXCEPT !.decoder.header = <<>>,
                                  !.decoder.length = Unpack(header)]
                 ELSE bad
          [] ~d.failed /\ d.length # 0 /\ Len(body) < d.length ->
                 [fed EXCEPT !.decoder.body = body]
          [] ~d.failed /\ d.length # 0 /\ Len(body) = d.length ->
                 IF Decodes(body)
                 THEN [decoder |-> NewDecoder,
                       done |-> Append(fed.done, body[1].frame)]
                 ELSE bad

\* The frames completed by one chunk; none of them if the chunk fails.
Feed(chunk) ==
    LET fed == FoldLeft(FeedByte, [decoder |-> decoder, done |-> <<>>], chunk)
    IN  [fed EXCEPT !.done = IF fed.decoder.failed THEN <<>> ELSE @]

AnyEnd(d) == TRUE        \* mutant

\* FrameDecoder.eof: a partial header or body is never a clean end.
CleanEnd(d) == ~d.failed /\ d.header = <<>> /\ d.length = 0

\* read_frame asks for the rest of the header, then for the rest of the body.
Wanted ==
    IF Len(input) < HeaderSize THEN HeaderSize - Len(input)
    ELSE HeaderSize + Unpack(SubSeq(input, 1, HeaderSize)) - Len(input)

-----------------------------------------------------------------------------
(* BoundedFrameQueue                                                       *)

Bytes(frames) == FoldLeft(LAMBDA sum, frame : sum + Size(frame), 0, frames)

Of(events) == SelectSeq(queue.frames, LAMBDA f : (f.kind = "event") = events)

SharedBudget(frame) ==       \* mutant
    /\ ~queue.closed
    /\ Bytes(queue.frames) + Size(frame) <= PendingBytes

\* put(): the independent budgets of events and of control frames.
Fits(frame) ==
    LET held == Of(frame.kind = "event")
    IN  /\ ~queue.closed
        /\ IF frame.kind = "event"
           THEN /\ Len(held) < PendingEvents
                /\ Bytes(held) + Size(frame) <= PendingBytes
           ELSE /\ Len(held) < PendingControls
                /\ Bytes(held) + Size(frame) <= ControlBytes

\* Session.emit with outgoing.put as its admission: a frame that was
\* admitted has the next sequence number.
Frame(kind, size) ==
    [kind |-> kind, size |-> size, sequence |-> Len(admitted) + 1]

Put(frame) ==
    /\ queue' = [queue EXCEPT !.frames = Append(@, frame)]
    /\ admitted' = Append(admitted, frame)

Admissible(frame) == Encodable(frame) /\ Fits(frame)
-----------------------------------------------------------------------------
(* The request, the spawn and the bootstrap                                *)

\* run_worker accepts a client's request for any number of runs; the
\* child's _validate_request takes only one.
Requests == [role : {"client", "server"}, runs : {1, 2}]

ValidRequest(request) == request.role = "client" => request.runs = 1

Init ==
    /\ \E linux \in BOOLEAN, request \in Requests :
           /\ parent = [alive |-> TRUE, closing |-> FALSE, request |-> request]
           /\ child = [at |-> IF linux THEN "spawned" ELSE "request", armed |-> FALSE,
                       linux |-> linux, results |-> 0, settled |-> TRUE]
    /\ sending = Encode([kind |-> "request", size |-> 1, sequence |-> 1])
    /\ stdin = <<>> /\ input = <<>> /\ pending = <<>> /\ stdout = <<>>
    /\ queue = [frames |-> <<>>, closed |-> FALSE]
    /\ admitted = <<>>
    /\ decoder = NewDecoder
    /\ reader = [delivered |-> <<>>, phase |-> "open", verdict |-> "none"]

Goes(at) == child' = [child EXCEPT !.at = at]

\* prctl(PR_SET_PDEATHSIG, SIGKILL), which may fail.
ArmProtection ==
    /\ child.at = "spawned"
    /\ \/ child' = [child EXCEPT !.at = "armed", !.armed = TRUE]
       \/ Goes("refused")
    /\ UNCHANGED <<parent, stdin, childIO, parentIO>>

UncheckedParent ==       \* mutant
    /\ child.at = "armed" /\ Goes("request")
    /\ UNCHANGED <<parent, stdin, childIO, parentIO>>

\* os.getppid() != expected_pid: the signal is only sent to a child that was
\* armed when its parent died, so the check follows the arming.
CheckParent ==
    /\ child.at = "armed"
    /\ Goes(IF parent.alive THEN "request" ELSE "refused")
    /\ UNCHANGED <<parent, stdin, childIO, parentIO>>

\* The calling process dies: the kernel kills an armed child at once and
\* closes the parent's ends of both pipes.
ParentDies ==
    /\ parent.alive
    /\ parent' = [parent EXCEPT !.alive = FALSE, !.closing = TRUE]
    /\ IF child.armed /\ child.at \in Live THEN Goes("killed") ELSE UNCHANGED child
    /\ UNCHANGED <<stdin, childIO, parentIO>>

\* run_worker stops the child: deadline, cancellation or a failure of its own.
ParentStops ==
    /\ parent.alive /\ ~parent.closing
    /\ parent' = [parent EXCEPT !.closing = TRUE]
    /\ IF child.at \in Live THEN Goes("killed") ELSE UNCHANGED child
    /\ UNCHANGED <<stdin, childIO, parentIO>>

\* The child dies of a native crash or of a signal from elsewhere.
ChildDies ==
    /\ child.at \in Live
    /\ Goes("killed")
    /\ UNCHANGED <<parent, stdin, childIO, parentIO>>

-----------------------------------------------------------------------------
(* Commands: write_message and read_frame                                  *)

\* One os.write takes as much as the pipe holds.
WriteCommand ==
    /\ ~parent.closing /\ sending # <<>> /\ child.at \in Live
    /\ \E n \in 1 .. Min({Len(sending), PipeBytes - Len(stdin)}) :
           /\ stdin' = stdin \o SubSeq(sending, 1, n)
           /\ sending' = SubSeq(sending, n + 1, Len(sending))
    /\ UNCHANGED <<parent, child, childIO, decoder, reader>>

Results(frames) == Len(SelectSeq(frames, LAMBDA f : f.kind = "result"))

\* A server's result is answered by one continuation command.
SendContinue ==
    /\ ~parent.closing /\ sending = <<>> /\ reader.verdict = "none"
    /\ parent.request.role = "server"
    /\ reader.phase = "result"
    /\ sending' = Encode([kind |-> "continue", size |-> 1,
                          sequence |-> Results(reader.delivered) + 1])
    /\ reader' = [reader EXCEPT !.phase = "open"]
    /\ UNCHANGED <<parent, child, stdin, childIO, decoder>>

\* One stream.read of read_frame, of no more than what it still wants.
ReadInput ==
    /\ child.at \in {"request", "command"} /\ stdin # <<>> /\ Wanted > 0
    /\ \E n \in 1 .. Min({Wanted, Len(stdin)}) :
           /\ input' = input \o SubSeq(stdin, 1, n)
           /\ stdin' = SubSeq(stdin, n + 1, Len(stdin))
    /\ UNCHANGED <<parent, child, queue, pending, stdout, admitted, parentIO>>

\* A whole frame: main and execute take the request, execute a command.
\* An invalid request fails after the writer has been started.
TakeFrame ==
    /\ child.at \in {"request", "command"}
    /\ Len(input) >= HeaderSize /\ Wanted = 0
    /\ input' = <<>>
    /\ \/ /\ child.at = "request" /\ ValidRequest(parent.request)
          /\ Goes("running") /\ Put(Frame("ready", 1))
       \/ /\ child.at = "request" /\ ~ValidRequest(parent.request)
          /\ Goes("failing")
          /\ UNCHANGED <<queue, admitted>>
       \/ /\ child.at = "command" /\ UNCHANGED <<queue, admitted>>
          /\ \/ child.results < parent.request.runs /\ Goes("running")
             \/ Goes("stopping")                       \* continue: false
             \/ /\ child.results >= parent.request.runs
                /\ Goes("failing")
    /\ UNCHANGED <<parent, stdin, pending, stdout, parentIO>>

\* End of input: main exits without a response, execute fails the session.
InputEnds ==
    /\ child.at \in {"request", "command"} /\ stdin = <<>>
    /\ parent.closing /\ Wanted > 0
    /\ \/ child.at = "request" /\ Goes("refused")
       \/ child.at = "command" /\ Goes("failing")
    /\ UNCHANGED <<parent, stdin, childIO, parentIO>>

-----------------------------------------------------------------------------
(* The child's output: enqueue, write_messages and the end of execute      *)

\* An event that is too large, or does not fit, is dropped and keeps no
\* sequence number.
EmitEvent ==
    /\ child.at = "running"
    /\ Len(SelectSeq(admitted, LAMBDA f : f.kind = "event")) < MaxEvents
    /\ \E size \in 1 .. MaxEventBytes + 1 :
           Admissible(Frame("event", size)) /\ Put(Frame("event", size))
    /\ UNCHANGED <<parent, child, stdin, input, pending, stdout, parentIO>>

\* The result of a run; a result that cannot be encoded or queued fails the
\* session.  A client is done, a server waits for a command.
EmitResult ==
    /\ child.at = "running"
    /\ \E size \in 1 .. MaxFrameBytes + 1 :
           \/ /\ Admissible(Frame("result", size)) /\ Put(Frame("result", size))
              /\ child' = [child EXCEPT !.results = @ + 1,
                     !.at = IF parent.request.role = "client" THEN "stopping"
                            ELSE "command"]
           \/ /\ ~Admissible(Frame("result", size))
              /\ Goes("failing")
              /\ UNCHANGED <<queue, admitted>>
    /\ UNCHANGED <<parent, stdin, input, pending, stdout, parentIO>>

\* The finally block: the error frame of a failed session, then the terminal
\* frame, then close(); a frame that is refused skips what follows it.
Send(kind, then) ==
    /\ IF Admissible(Frame(kind, 1))
       THEN Goes(then) /\ admitted' = Append(admitted, Frame(kind, 1))
       ELSE Goes("draining") /\ UNCHANGED admitted
    /\ queue' = [frames |-> queue.frames \o SubSeq(admitted', Len(admitted) + 1, Len(admitted')),
                 closed |-> queue.closed \/ child'.at = "draining"]
    /\ UNCHANGED <<parent, stdin, input, pending, stdout, parentIO>>

SendError    == child.at = "failing" /\ Send("error", "stopping")
SendTerminal == child.at = "stopping" /\ Send("terminal", "draining")

\* capture.close() gave up on a parser that still runs, so that the parser may
\* emit: neither an error nor a terminal frame is sent, only the queue closed.
ParserUnsettled ==
    /\ child.at = "running"
    /\ child' = [child EXCEPT !.at = "draining", !.settled = FALSE]
    /\ queue' = [queue EXCEPT !.closed = TRUE]
    /\ UNCHANGED <<parent, stdin, input, pending, stdout, admitted, parentIO>>

Running == child.at \in {"running", "command", "failing", "stopping", "draining"}

\* One output.write of the writer thread, which takes the next frame when it
\* has written the one before.
WriteOutput ==
    /\ Running /\ ~parent.closing
    /\ pending # <<>> \/ queue.frames # <<>>
    /\ LET data == IF pending # <<>> THEN pending ELSE Encode(Head(queue.frames))
       IN  \E n \in 1 .. Min({Len(data), PipeBytes - Len(stdout)}) :
               /\ stdout' = stdout \o SubSeq(data, 1, n)
               /\ pending' = SubSeq(data, n + 1, Len(data))
    /\ queue' = [queue EXCEPT !.frames = IF pending # <<>> THEN @ ELSE Tail(@)]
    /\ UNCHANGED <<parent, child, stdin, input, admitted, parentIO>>

\* The parent has closed its end: BrokenPipeError closes the queue, and the
\* main thread fails at its next enqueue.
WriterFails ==
    /\ Running /\ parent.closing /\ ~queue.closed
    /\ pending # <<>> \/ queue.frames # <<>>
    /\ queue' = [queue EXCEPT !.closed = TRUE]
    /\ UNCHANGED <<parent, child, stdin, input, pending, stdout, admitted, parentIO>>

\* writer.join(timeout=5) returned, because everything is written or because
\* the pipe stayed full: the process ends and the daemon thread with it.
Exit ==
    /\ child.at = "draining"
    /\ Goes("exited")
    /\ UNCHANGED <<parent, stdin, childIO, parentIO>>

-----------------------------------------------------------------------------
(* run_worker.read_messages                                                *)

Decided(verdict) == reader' = [reader EXCEPT !.verdict = verdict]

Phase(frames) ==
    IF frames = <<>> THEN reader.phase
    ELSE IF Last(frames).kind \in {"result", "terminal"} THEN Last(frames).kind ELSE "open"

\* One os.read; bytes after the terminal frame are an error, in the same
\* chunk or in a later one.
Read ==
    /\ reader.verdict = "none" /\ ~parent.closing /\ stdout # <<>>
    /\ \E n \in 1 .. Min({ChunkBytes, Len(stdout)}) :
         LET fed      == Feed(SubSeq(stdout, 1, n))
             accepted == [reader EXCEPT !.delivered = @ \o fed.done,
                                        !.phase = Phase(fed.done)]
             ended    == accepted.phase = "terminal" /\ ~CleanEnd(fed.decoder)
         IN  /\ stdout' = SubSeq(stdout, n + 1, Len(stdout))
             /\ decoder' = fed.decoder
             /\ reader' = IF reader.phase = "terminal" \/ fed.decoder.failed \/ ended
                          THEN [accepted EXCEPT !.verdict = "invalid"]
                          ELSE accepted
    /\ UNCHANGED <<parent, child, stdin, input, queue, pending, admitted, sending>>

EndAfterTerminal ==      \* mutant
    /\ reader.verdict = "none" /\ ~parent.closing /\ stdout = <<>>
    /\ child.at \in Ended /\ reader.phase = "terminal"
    /\ Decided("complete")
    /\ UNCHANGED <<parent, child, stdin, childIO, sending, decoder>>

\* os.read returned nothing: every writer of the pipe is gone.
ReadEnd ==
    /\ reader.verdict = "none" /\ ~parent.closing /\ stdout = <<>>
    /\ child.at \in Ended
    /\ Decided(CASE ~CleanEnd(decoder) -> "truncated"
                 [] CleanEnd(decoder) /\ reader.phase = "terminal" -> "complete"
                 [] OTHER -> "incomplete")
    /\ UNCHANGED <<parent, child, stdin, childIO, sending, decoder>>

\* Five seconds after the terminal frame the output is still open.
ReadGivesUp ==
    /\ reader.verdict = "none" /\ ~parent.closing
    /\ reader.phase = "terminal" /\ child.at \in Live
    /\ Decided("overdue")
    /\ UNCHANGED <<parent, child, stdin, childIO, sending, decoder>>

\* closing is set: the reader stops where it is.
ReadStops ==
    /\ reader.verdict = "none" /\ parent.closing /\ parent.alive
    /\ Decided("stopped")
    /\ UNCHANGED <<parent, child, stdin, childIO, sending, decoder>>

-----------------------------------------------------------------------------
Next ==
    \/ ArmProtection \/ CheckParent \/ ParentDies \/ ParentStops \/ ChildDies
    \/ WriteCommand \/ SendContinue \/ ReadInput \/ TakeFrame \/ InputEnds
    \/ EmitEvent \/ EmitResult \/ SendError \/ SendTerminal
    \/ ParserUnsettled \/ WriteOutput \/ WriterFails \/ Exit
    \/ Read \/ ReadEnd \/ ReadGivesUp \/ ReadStops

\* The interpreter starts, and the reader thread reads until it has a verdict.
Spec ==
    /\ Init /\ [][Next]_vars
    /\ WF_vars(ArmProtection) /\ WF_vars(CheckParent)
    /\ WF_vars(Read \/ ReadEnd \/ ReadStops)

-----------------------------------------------------------------------------
(* Properties                                                              *)

\* However the writes and reads cut the stream, the parent gets a prefix of
\* the admitted frames, unaltered; an end of file between two frames leaves
\* nothing undelivered but what was never begun, and one inside a frame is
\* always reported as a truncation (FrameDecoder.feed_sized, eof).
FramesExact ==
    /\ IsPrefix(reader.delivered, admitted)
    /\ reader.verdict # "invalid"
    /\ reader.verdict \in {"complete", "incomplete"} =>
           pending = <<>> /\ admitted = reader.delivered \o queue.frames
    /\ reader.verdict = "complete" => queue.frames = <<>>
    /\ reader.verdict = "truncated" =>
           /\ pending # <<>>
           /\ admitted = Append(reader.delivered, pending[1].frame) \o queue.frames

\* However full of events the queue is, the control frames of a session fit
\* into their own allowance: while the parent is there, a session whose parser
\* has settled does not end without its terminal frame (MAX_PENDING_CONTROLS,
\* MAX_PENDING_CONTROL_BYTES).  With an unsettled parser execute withholds it:
\* "EOF without terminal leaves process cleanup with the parent".
TerminalReserved ==
    child.at = "draining" /\ child.settled /\ ~parent.closing =>
        admitted # <<>> /\ Last(admitted).kind = "terminal"

\* A guarded child does not outlive the process that asked for it, wherever
\* in its start that process dies (_worker_lifetime.protect_parent).
OrphanStops == child.linux /\ ~parent.alive ~> child.at \in Ended

\* Once the child has ended, the reader reaches a verdict on its stream.
StreamDecided ==
    child.at \in Ended ~> reader.verdict # "none" \/ ~parent.alive
=============================================================================
