------------------------------- MODULE NativeRun -------------------------------
(***************************************************************************)
(* One native run from its first callback to the artifact.  The native     *)
(* library calls back on the thread that runs it; EventCapture copies the  *)
(* bytes into a bounded queue; a parser thread reconstructs a document and *)
(* decides whether it is complete; after the run the worker adds the       *)
(* getter's document, joins the parser and publishes a result message,     *)
(* which the parent decodes, normalizes and completes (`finish`).  A plain *)
(* run (route "direct") has no worker: BoundedDocumentCapture keeps the    *)
(* documents and Client._run parses the last of them.                      *)
(*                                                                         *)
(* A callback is a kind and a content; what the content is in the native   *)
(* document (mode, protocol, endpoint, flags) does not matter to the       *)
(* capture and is fixed by the profile of the run when the result is       *)
(* decoded.                                                                *)
(***************************************************************************)
EXTENDS Normalization

CONSTANTS
    Profiles,        \* native producers: endpoint, mode, protocol, version
    MaxCallbacks,    \* bound on the callbacks of a run
    PendingItems,    \* MAX_PENDING_CAPTURES
    PendingBytes,    \* MAX_PENDING_CAPTURE_BYTES
    RetainedLimit    \* MAX_RETAINED_BYTES

ASSUME LimitsAssumption ==
    /\ MaxCallbacks \in Nat /\ PendingItems \in Nat
    /\ PendingBytes \in Nat /\ RetainedLimit \in Nat

VARIABLES
    route,      \* "worker" or "direct"
    calls,      \* every callback of the run ...
    lost,       \* ... and the positions of those that were not admitted
    queue,      \* positions in `calls` that were copied and not yet parsed
    capture,    \* the counters and evidence of EventCapture
    closed,     \* EventCapture._closed
    parser,     \* "ready", "asleep", "ended", "failed"
    documents,  \* BoundedDocumentCapture: the admitted documents ...
    broken,     \* ... and whether its `error` is set
    owner,      \* the thread that owns the run
    native,     \* return status and getter document, once the run returned
    profile,    \* the producer; any of them until the result is decoded
    result      \* the Result, once decoded

vars == <<route, calls, lost, queue, capture, closed, parser, documents, broken,
          owner, native, profile, result>>

-----------------------------------------------------------------------------
\* Contents.

EmptyRaw == [start |-> FALSE, intervals |-> 0, end |-> "none",
             error |-> "none", output |-> FALSE, shaped |-> TRUE]

Full == [EmptyRaw EXCEPT !.start = TRUE, !.intervals = 1, !.end = "measured"]

\* Complete documents: a measured one, one of a failed run, one that says
\* "no error" and one with a malformed field.
Documents ==
    {Full, [EmptyRaw EXCEPT !.start = TRUE, !.end = "empty", !.error = "text"],
     [Full EXCEPT !.error = "clear"], [Full EXCEPT !.shaped = FALSE]}

Event(kind, content) == [kind |-> kind, content |-> content, document |-> EmptyRaw]

\* "bad" is no JSON object, "misshapen" an envelope whose data is no object.
Wrapped ==
    {Event("start", ""), Event("interval", ""), Event("end", "measured"),
     Event("error", "text"), Event("error", "clear"), Event("unknown", ""),
     Event("server_output", ""), Event("misshapen", "")}

Complete == {[Event("complete", "") EXCEPT !.document = d] : d \in Documents}

Payloads  == Wrapped \union Complete \union {Event("bad", "")}
Uncopyable == Event("uncopyable", "")     \* beyond payload_bytes, or unreadable
Absent     == Event("null", "")           \* a NULL pointer

Measurement == {"start", "interval", "end", "error"}

\* Bytes of a payload: an event, a document, and a large document.
Size(c) == IF c.kind # "complete" THEN 1 ELSE IF c.document.error = "clear" THEN 4 ELSE 2

-----------------------------------------------------------------------------
\* What the native document says, for a producer p.

Truth(p) ==
    CASE p.mode = "forward"       -> <<"client_to_server">>
      [] p.mode = "reverse"       -> <<"server_to_client">>
      [] p.mode = "bidirectional" -> <<"client_to_server", "server_to_client">>

LocalSender(p, n) ==
    IF (p.role = "client") = (Truth(p)[n] = "client_to_server") THEN "yes" ELSE "no"

Observation(p, n, measured) ==
    [socket |-> n, sender |-> LocalSender(p, n), measured |-> measured,
     retransmits |-> p.protocol # "udp", tcpinfo |-> p.protocol = "tcp",
     sentinel |-> p.sentinel]

NativeStart(p) ==
    [bidir |-> IF p.mode = "bidirectional" THEN "yes" ELSE "no",
     alias |-> "none", reverse |-> IF p.mode = "reverse" THEN "yes" ELSE "no",
     marker |-> {p.role}, protocol |-> p.protocol, qualified |-> p.qualified,
     duration |-> p.duration, rate |-> p.rate, rootRate |-> p.rootRate,
     family |-> p.family]

NativeInterval(p) ==
    [sums    |-> [n \in DOMAIN Truth(p) |-> Observation(p, n, TRUE)],
     streams |-> [n \in DOMAIN Truth(p) |-> Observation(p, n, TRUE)]]

NativeEnd(p, measured) ==
    IF ~measured THEN NoEnd
    ELSE LET part(n, name) == [part |-> name, data |-> Observation(p, n, TRUE)]
             ends(n) == <<part(n, "sender"), part(n, "receiver")>>
         IN  [sums    |-> [n \in DOMAIN Truth(p) |-> ends(n)],
              streams |-> [n \in DOMAIN Truth(p) |->
                              IF p.protocol = "udp" THEN <<part(n, "udp")>>
                              ELSE ends(n)],
              cpu     |-> TRUE]

\* The retained document in the form that Normalization reads.
Content(raw, p) ==
    [start |-> IF raw.start THEN NativeStart(p) ELSE NoStart,
     intervals |-> [n \in 1..raw.intervals |-> NativeInterval(p)],
     end |-> NativeEnd(p, raw.end = "measured"),
     error |-> raw.error, shaped |-> raw.shaped]

-----------------------------------------------------------------------------
\* The native thread: callbacks.

InitCapture ==
    [callbacks |-> 0, copied |-> 0, dropped |-> 0, malformed |-> 0,
     retention |-> 0, source |-> "none", completeAt |-> 0, lastLoss |-> 0,
     raw |-> EmptyRaw, events |-> << >>, retained |-> 0, error |-> FALSE]

Init ==
    /\ route \in {"worker", "direct"}
    /\ calls = << >> /\ lost = {} /\ queue = << >> /\ capture = InitCapture
    /\ closed = FALSE /\ parser = IF route = "worker" THEN "ready" ELSE "ended"
    /\ documents = << >> /\ broken = FALSE
    /\ owner = "running"
    /\ native = [ret |-> "none", getter |-> Absent]
    /\ profile = CHOOSE p \in Profiles : TRUE
    /\ result = Bare("none", "none")

Pending == FoldSet(LAMBDA n, total : total + Size(calls[n]), 0, ToSet(queue))

NoRoom(c) == closed \/ Len(queue) >= PendingItems \/ Pending + Size(c) > PendingBytes

\* A callback that is counted and lost.
Loss(cap) ==
    [cap EXCEPT !.callbacks = @ + 1, !.dropped = @ + 1, !.lastLoss = cap.callbacks + 1]

Wake == parser' = IF parser = "asleep" THEN "ready" ELSE parser

\* EventCapture.capture: copy and enqueue, or count the loss; nothing is
\* ever raised into the native library.  The callback is kept alive through
\* iperf_free_test, which may still call it.
Callback(c) ==
    /\ route = "worker" /\ owner \in {"running", "closing"} /\ Len(calls) < MaxCallbacks
    /\ calls' = Append(calls, c)
    /\ IF c = Uncopyable \/ NoRoom(c)
       THEN /\ capture' = Loss(capture) /\ lost' = lost \union {Len(calls) + 1}
            /\ UNCHANGED <<queue, parser>>
       ELSE /\ capture' = [capture EXCEPT !.callbacks = @ + 1, !.copied = @ + 1]
            /\ queue' = Append(queue, Len(calls) + 1)
            /\ Wake /\ UNCHANGED lost
    /\ UNCHANGED <<route, closed, documents, broken, owner, native, profile, result>>

FullHistory(c) ==
    \/ Len(documents) >= PendingItems
    \/ FoldLeft(LAMBDA total, d : total + Size(d), Size(c), documents) > PendingBytes

\* BoundedDocumentCapture.capture: admitted documents are kept in order, a
\* failed copy or a full history sets `error`, a NULL pointer is ignored.
DirectCallback(c) ==
    /\ route = "direct" /\ owner = "running" /\ Len(calls) < MaxCallbacks
    /\ calls' = Append(calls, c)
    /\ IF c = Absent THEN UNCHANGED <<lost, documents, broken>>
       ELSE IF c = Uncopyable \/ FullHistory(c)
       THEN /\ broken' = TRUE /\ lost' = lost \union {Len(calls) + 1}
            /\ UNCHANGED documents
       ELSE documents' = Append(documents, c) /\ UNCHANGED <<lost, broken>>
    /\ UNCHANGED <<route, queue, capture, closed, parser, owner, native, profile, result>>

-----------------------------------------------------------------------------
\* The parser thread.

Revoked(cap) == [cap EXCEPT !.source = "none"]

Malformed(cap) == [Revoked(cap) EXCEPT !.malformed = @ + 1]

\* An error text other than "no error" is latched, whatever follows.
Latched(cap, c) ==
    [cap EXCEPT !.error = @ \/ (c.kind = "error" /\ c.content = "text")
                            \/ c.document.error \in {"text", "object"}]

Merged(raw, c) ==
    CASE c.kind = "start"         -> [raw EXCEPT !.start = TRUE]
      [] c.kind = "interval"      -> [raw EXCEPT !.intervals = @ + 1]
      [] c.kind = "end"           -> [raw EXCEPT !.end = c.content]
      [] c.kind = "error"         -> [raw EXCEPT !.error = c.content]
      [] c.kind = "server_output" -> [raw EXCEPT !.output = TRUE]
      [] OTHER                    -> raw

Required(cap, c) ==
    IF c.kind = "complete" THEN Size(c) ELSE cap.retained + Size(c)

TrustedAsBefore(cap) == cap     \* mutant: a document survives what follows it

\* A measurement after a complete document: the document no longer covers
\* the run.
Overtaken(cap) == Malformed(cap)

\* Keep a payload if the retained evidence has room for it.
Retain(cap, c, n) ==
    IF Required(cap, c) > RetainedLimit
    THEN LET over == [cap EXCEPT !.retention = @ + 1]
         IN  IF c.kind = "complete" THEN Revoked(over) ELSE over
    ELSE IF c.kind = "complete"
    THEN [cap EXCEPT !.raw = c.document, !.events = << >>,
                     !.source = "callback", !.completeAt = n,
                     !.retained = Required(cap, c)]
    ELSE [cap EXCEPT !.events = Append(@, c), !.raw = Merged(@, c),
                     !.retained = Required(cap, c)]

\* _consume.
Consumed(cap, n) ==
    LET c == calls[n]
        seen == Latched(cap, c)
    IN  IF c.kind \in {"bad", "misshapen"} THEN Malformed(cap)
        ELSE IF c.kind = "complete" \/ cap.source = "none" THEN Retain(seen, c, n)
        ELSE IF c.kind \in Measurement THEN Retain(Overtaken(seen), c, n)
        ELSE seen     \* advisory: cannot rewrite a complete document

Parse ==
    /\ parser = "ready" /\ queue # << >>
    /\ capture' = Consumed(capture, Head(queue))
    /\ queue' = Tail(queue)
    /\ UNCHANGED <<route, calls, lost, closed, parser, documents, broken, owner,
                   native, profile, result>>

ParserWaits ==
    /\ parser = "ready" /\ queue = << >> /\ ~closed
    /\ parser' = "asleep"
    /\ UNCHANGED <<route, calls, lost, queue, capture, closed, documents, broken,
                   owner, native, profile, result>>

\* The queue is drained: a loss after the last document revokes it.
ParserEnds ==
    /\ parser = "ready" /\ queue = << >> /\ closed
    /\ parser' = "ended"
    /\ capture' = IF capture.lastLoss > capture.completeAt THEN Revoked(capture)
                  ELSE capture
    /\ UNCHANGED <<route, calls, lost, queue, closed, documents, broken, owner,
                   native, profile, result>>

\* An exception on the parser thread, for instance a broken output pipe.
\* What is still queued counts as lost.
ParserFails ==
    /\ parser = "ready" /\ (queue # << >> \/ closed)
    /\ parser' = "failed" /\ closed' = TRUE
    /\ capture' = [capture EXCEPT
                      !.dropped = @ + (IF queue = << >> THEN 0 ELSE Len(queue) - 1)]
    /\ queue' = << >>
    /\ UNCHANGED <<route, calls, lost, documents, broken, owner, native, profile, result>>

-----------------------------------------------------------------------------
\* The owner of the run.

\* The native call returns.
NativeReturns ==
    /\ owner = "running"
    /\ owner' = IF route = "worker" THEN "closing" ELSE "returned"
    /\ UNCHANGED <<route, calls, lost, queue, capture, closed, parser, documents,
                   broken, native, profile, result>>

\* What the worker read between the return and the release of the test: the
\* status and the getter's copy, which may be missing, unreadable or an event.
\* Nothing depends on them before the parser is joined.
Returned ==
    [ret : {"ok", "failed"},
     getter : {Absent, Uncopyable, Event("bad", ""), Event("start", "")}
              \union Complete]

CloseSilently == UNCHANGED parser      \* mutant: close() does not notify

\* notify_all in close().
CloseWakes == Wake

Close ==
    /\ owner = "closing"
    /\ owner' = "joining" /\ closed' = TRUE /\ CloseWakes
    /\ UNCHANGED <<route, calls, lost, queue, capture, documents, broken, native, profile, result>>

\* close() raises: the parser failed ...  No result is published; the worker
\* reports the failure.
JoinFails ==
    /\ owner = "joining" /\ parser = "failed"
    /\ owner' = "failed"
    /\ UNCHANGED <<route, calls, lost, queue, capture, closed, parser, documents,
                   broken, native, profile, result>>

\* ... or it is not scheduled within the five seconds of the join.
JoinTimeout ==
    /\ owner = "joining" /\ parser \in {"ready", "asleep"}
    /\ owner' = "failed"
    /\ UNCHANGED <<route, calls, lost, queue, capture, closed, parser, documents,
                   broken, native, profile, result>>

\* The owner itself failed since the native call returned: its options cannot
\* be observed, or its result cannot be encoded.  It has joined the parser all
\* the same, and reports the failure.
ResultFails ==
    /\ owner = "joining" /\ parser = "ended"
    /\ owner' = "failed"
    /\ UNCHANGED <<route, calls, lost, queue, capture, closed, parser, documents,
                   broken, native, profile, result>>

\* recover_document: a complete, small enough getter document replaces the
\* reconstruction.
Recoverable(c) == c.kind = "complete" /\ Size(c) <= RetainedLimit

Recovered(cap, c) ==
    IF Recoverable(c)
    THEN [cap EXCEPT !.raw = c.document, !.events = << >>, !.source = "getter"]
    ELSE cap

\* The error field of the result message.
MessageError(cap) == native.ret # "ok" \/ cap.error

ReconstructionComplete(cap) == cap.dropped + cap.malformed + cap.retention = 0

\* _execution._validate_capture.
ReceiptAccepted(cap) ==
    /\ cap.callbacks = cap.copied + cap.dropped
    /\ cap.malformed <= cap.copied /\ cap.retention <= cap.copied
    /\ cap.source \in {"none", "callback", "getter"}

AcceptPartial(r, cap) == r     \* mutant: the receipt is recorded and ignored

\* A partial capture is never a completed run.
Downgraded(r, cap) ==
    IF cap.source = "none" /\ ~ReconstructionComplete(cap) /\ r.status # "failed"
    THEN [r EXCEPT !.ok = FALSE, !.status = "incomplete"] ELSE r

FailedQuietly(r) == [r EXCEPT !.ok = FALSE, !.error = "native"]     \* mutant

Failed(r) == [r EXCEPT !.ok = FALSE, !.error = "native", !.status = "failed"]

\* _execution._decode_result; the caller's role replaces the parsed one.
Decoded(cap, p) ==
    LET doc == Content(cap.raw, p)
        base == IF cap.raw = EmptyRaw THEN Bare("no_json", "incomplete")
                ELSE IF Rejected(doc) THEN Bare("not_normalized", "incomplete")
                ELSE Normalized(doc, p.role)
        failed == IF MessageError(cap) THEN Failed(base) ELSE base
    IN  Downgraded([failed EXCEPT !.role = p.role], cap)

\* A getter receipt fills a setting the document left open, unless the
\* document contradicts itself about it.
FillsIn(r, name) ==
    /\ r.effective[name].state = "unavailable"
    /\ ~(name = "rate" /\ r.conflict)

\* _observed_address_family: the one family of the connected sockets.
ObservedFamily(raw, p) == IF raw.start THEN p.family ELSE None

\* Client._run.finish: receipts, address family, and a diagnostic for every
\* verified value that differs from the request.
Finished(r, raw, p) ==
    LET receipts == [n \in Settings |->
                        IF route = "worker" THEN p.receipts[n] ELSE None]
        filled == [n \in Settings |->
                      LET value == IF n = "address_family"
                                   THEN ObservedFamily(raw, p) ELSE receipts[n]
                      IN  IF FillsIn(r, n) /\ value # None THEN Verified(value)
                          ELSE r.effective[n]]
    IN  [r EXCEPT !.effective = filled,
                  !.role = IF raw = EmptyRaw THEN "client" ELSE @,
                  !.differs = {n \in Settings :
                      /\ filled[n].state = "verified"
                      /\ p.requested[n] \notin {None, Auto, filled[n].value}}]

\* Server results are published as they are decoded.
Outcome(r, raw, p) == IF p.role = "client" THEN Finished(r, raw, p) ELSE r

\* After the join: recover the getter's document and send the message; the
\* parent checks the receipt.
Publish ==
    /\ owner = "joining" /\ parser = "ended"
    /\ \E n \in Returned :
           LET cap == Recovered(capture, n.getter)
           IN  /\ native' = n /\ capture' = cap
               /\ owner' = IF ReceiptAccepted(cap) THEN "published" ELSE "refused"
    /\ UNCHANGED <<route, calls, lost, queue, closed, parser, documents, broken,
                   profile, result>>

\* The message loop decodes the result, the client completes it.
Decode ==
    /\ owner = "published"
    /\ owner' = "done"
    /\ \E p \in Profiles :
           profile' = p /\ result' = Outcome(Decoded(capture, p), capture.raw, p)
    /\ UNCHANGED <<route, calls, lost, queue, capture, closed, parser, documents,
                   broken, native>>

\* The test cannot be configured: the worker fails its session, the direct
\* route raises or turns a native error into a failed Result.
SetupFails ==
    /\ owner = "running" /\ calls = << >>
    /\ parser' = "ended"
    /\ \/ /\ owner' = IF route = "worker" THEN "failed" ELSE "raised"
          /\ UNCHANGED <<native, profile, result>>
       \/ /\ route = "direct" /\ owner' = "done" /\ native' = [native EXCEPT !.ret = "failed"]
          /\ \E p \in Profiles :
                 /\ p.role = "client" /\ profile' = p
                 /\ result' = Finished(Bare("native", "failed"), EmptyRaw, p)
    /\ UNCHANGED <<route, calls, lost, queue, capture, closed, documents, broken>>

\* BoundedDocumentCapture.finalize: all admitted documents are parsed.
Undecodable == \E d \in ToSet(documents) : d.kind = "bad"

DocumentError == \E d \in ToSet(documents) : d.document.error \in {"text", "object"}

\* The last document, or the getter's when anything was lost.
DirectDocument(getter) ==
    IF broken \/ Undecodable \/ documents = << >> THEN getter
    ELSE Last(documents)

\* The Result of Client._run for the document c.
DirectResult(c, p, failed) ==
    LET base == IF c = Absent
                THEN Bare("no_json", IF failed THEN "failed" ELSE "incomplete")
                ELSE Normalized(Content(c.document, p), p.role)
    IN  Finished(IF failed THEN Failed(base) ELSE base, c.document, p)

\* The tail of Client._run: an undecodable or contradictory document raises,
\* everything else is a Result.
DirectDecode ==
    /\ owner = "returned"
    /\ \E p \in Profiles, n \in Returned :
           LET c == DirectDocument(n.getter)
               raises == \/ c.kind \in {"bad", "uncopyable"}
                         \/ c # Absent /\ Rejected(Content(c.document, p))
           IN  /\ p.role = "client"
               /\ native' = n /\ profile' = p
               /\ owner' = IF raises THEN "raised" ELSE "done"
               /\ result' = IF raises THEN result
                            ELSE DirectResult(c, p, n.ret # "ok" \/ DocumentError)
    /\ UNCHANGED <<route, calls, lost, queue, capture, closed, parser, documents,
                   broken>>

Parser == Parse \/ ParserWaits \/ ParserEnds
Owner  == Close \/ JoinFails \/ Publish

Next ==
    \/ \E c \in Payloads \union {Uncopyable} : Callback(c)
    \/ \E c \in Complete \union {Event("bad", ""), Uncopyable, Absent} : DirectCallback(c)
    \/ SetupFails \/ NativeReturns \/ ParserFails \/ JoinTimeout \/ ResultFails
    \/ Parser \/ Owner \/ Decode \/ DirectDecode

\* The operating system schedules both threads; the native call itself may
\* run for ever.
Spec ==
    /\ Init /\ [][Next]_vars
    /\ WF_vars(Parser) /\ WF_vars(Owner)

-----------------------------------------------------------------------------
\* Properties.

Advisory == {"unknown", "server_output"}

\* Does the document of callback n reach the capture and cover the rest of
\* the run?
Covers(n) ==
    /\ calls[n].kind = "complete" /\ Size(calls[n]) <= RetainedLimit
    /\ n \notin lost
    /\ \A m \in DOMAIN calls : m > n => calls[m].kind \in Advisory /\ m \notin lost

\* Are all callbacks events that were copied, parsed and retained?
AllEvents ==
    /\ lost = {} /\ Len(calls) <= RetainedLimit
    /\ \A n \in DOMAIN calls : calls[n].kind \in Measurement \union Advisory

\* The document all callbacks together describe.
Reference == FoldLeft(Merged, EmptyRaw, calls)

Settled == owner \in {"published", "done"}

\* A capture claims exactly what it has: the document it calls complete is the
\* getter's or that of a callback after which nothing but advisory events was
\* called back and nothing was lost, and whenever there is such a document it
\* is found; without one, the reconstruction is called complete only if it is
\* what all callbacks of the run say, event by event.  The hazards are a loss
\* on the native thread while the parser is behind, and what follows a document.
CaptureIsHonest ==
    Settled /\ route = "worker" =>
        /\ (capture.source = "getter") <=> Recoverable(native.getter)
        /\ capture.source = "getter" => capture.raw = native.getter.document
        /\ capture.source # "getter" =>
               /\ (capture.source = "callback") <=> (\E n \in DOMAIN calls : Covers(n))
               /\ \A n \in DOMAIN calls :
                      Covers(n) => capture.raw = (CHOOSE c \in {calls[m] : m \in
                          {k \in DOMAIN calls : Covers(k)}} : TRUE).document
               /\ capture.source = "none" =>
                      (ReconstructionComplete(capture) <=> AllEvents)
               /\ capture.source = "none" /\ AllEvents =>
                      capture.raw = Reference /\ capture.events = calls

\* An admitted callback reported a native error.
ErrorSeen ==
    \E n \in DOMAIN calls \ lost :
        \/ calls[n].kind = "error" /\ calls[n].content = "text"
        \/ calls[n].document.error \in {"text", "object"}

\* The document a run is judged by, from what was called back and returned;
\* "null" if there is none that stands for the whole run.
Evidence ==
    IF route = "direct" THEN DirectDocument(native.getter)
    ELSE IF Recoverable(native.getter) THEN native.getter
    ELSE IF \E n \in DOMAIN calls : Covers(n)
    THEN calls[CHOOSE n \in DOMAIN calls : Covers(n)]
    ELSE IF AllEvents THEN [Absent EXCEPT !.document = Reference]
    ELSE Absent

\* A result is successful if and only if the native call succeeded, no
\* admitted callback reported an error, and the document that stands for the
\* whole run is well formed, without an error and with end measurements: a
\* document that omits an error reported before, a partial capture and a lost
\* end never pass for success, on either route.
OutcomeIsNative ==
    owner = "done" =>
        (result.ok <=> /\ native.ret = "ok" /\ ~ErrorSeen
                       /\ Evidence.document.end = "measured"
                       /\ Evidence.document.error = "none"
                       /\ Evidence.document.shaped)

Requested == IF profile.role = "client" THEN profile.requested
             ELSE [n \in Settings |-> None]

\* Whatever was lost, malformed or left out, the parent accepts the receipt
\* of the capture and the strict artifact validation accepts the result.
EvidenceAccepted ==
    /\ owner # "refused"
    /\ owner = "done" => ArtifactAccepts(result, Requested)

\* Values the producer reports for a setting, in its document or a receipt.
Observed(name) ==
    (CASE name = "duration"       -> {profile.duration}
       [] name = "rate"           -> {profile.rate, profile.rootRate}
       [] name = "address_family" -> {profile.family}
       [] OTHER                   -> {})
    \union {profile.receipts[name]}

\* However little of the run was retained, no flow, stream or interval is
\* given a direction it did not have, no CPU figure another endpoint's, and no
\* setting is verified that the native side contradicts itself about.
NothingMisattributed ==
    owner = "done" =>
        LET truth == Truth(profile)
            true(n, d) == d \in {"unknown", truth[((n - 1) % Len(truth)) + 1]}
        IN  /\ \A n \in DOMAIN result.flows : true(n, result.flows[n].direction)
            /\ \A n \in DOMAIN result.streams : true(n, result.streams[n].direction)
            /\ \A n \in DOMAIN result.intervals :
                   true(n, result.intervals[n].direction)
            /\ \A c \in ToSet(result.cpu) :
                   c.endpoint \in {"unknown", IF c.locality = "local" THEN profile.role
                                              ELSE OtherRole(profile.role)}
            /\ \A name \in Settings :
                   result.effective[name].state = "verified" =>
                       /\ result.effective[name].value \in Observed(name)
                       /\ ~(name = "rate" /\ result.conflict)

\* A worker whose native call returned gets on: its parser is woken, drains
\* and is joined, or a failure of the parser or of the worker is reported.
RunSettles ==
    owner = "closing" ~> owner \in {"published", "failed"}
=============================================================================
