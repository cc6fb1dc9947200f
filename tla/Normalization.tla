---------------------------- MODULE Normalization ----------------------------
(***************************************************************************)
(* result.result_from_iperf_json and the strict artifact validation of     *)
(* artifacts.py: how a native JSON document becomes a Result without       *)
(* inventing measurements or directions, and what artifact_from_result     *)
(* then demands of it.                                                     *)
(*                                                                         *)
(* A document keeps what decides direction, endpoint and completeness; the *)
(* figures are reduced to "measured", a setting to a small number and a    *)
(* malformed field anywhere to the flag `shaped`.                          *)
(***************************************************************************)
EXTENDS Integers, Sequences, SequencesExt, FiniteSetsExt

Flags      == {"yes", "no", "none"}      \* an optional native flag
Directions == {"client_to_server", "server_to_client", "unknown"}
Settings   == {"duration", "rate", "option", "address_family"}

None  == 0       \* an absent setting value
Auto  == 9       \* address_family="auto"

\* What the parser assumes of a document without `start`.
NoStart ==
    [bidir |-> "none", alias |-> "none", reverse |-> "none", marker |-> {},
     protocol |-> "none", qualified |-> FALSE, duration |-> None,
     rate |-> None, rootRate |-> None, family |-> None]

NoEnd == [sums |-> << >>, streams |-> << >>, cpu |-> FALSE]

-----------------------------------------------------------------------------
\* Provenance of a document: endpoint, mode and direction.

\* The caller's role and the connection markers must agree.
RoleOf(raw, given) ==
    LET evidence == raw.start.marker \union {given}
    IN  IF Cardinality(evidence) > 1 THEN "none" ELSE given

BidirFlag(raw) ==
    IF raw.start.bidir # "none" THEN raw.start.bidir ELSE raw.start.alias

\* Are there end summaries of a second, reverse flow?
HasReverseSummaries(raw) == Len(raw.end.sums) > 1

Bidirectional(raw) ==
    \/ BidirFlag(raw) = "yes"
    \/ BidirFlag(raw) = "none" /\ HasReverseSummaries(raw)

HasReverseIntervals(raw) ==
    \E n \in DOMAIN raw.intervals : Len(raw.intervals[n].sums) > 1

\* Everything result_from_iperf_json raises ValueError for.
Rejected(raw) ==
    \/ ~raw.shaped \/ raw.error = "object"
    \/ /\ raw.start.bidir # "none" /\ raw.start.alias # "none"
       /\ raw.start.bidir # raw.start.alias
    \/ BidirFlag(raw) = "no" /\ HasReverseSummaries(raw)
    \/ Bidirectional(raw) /\ raw.start.reverse = "yes"
    \/ /\ HasReverseIntervals(raw) /\ ~Bidirectional(raw)
       /\ \/ "no" \in {raw.start.bidir, raw.start.alias}
          \/ raw.start.reverse = "yes"

PrimaryDirection(raw) ==
    IF Bidirectional(raw) \/ raw.start.reverse = "no" THEN "client_to_server"
    ELSE IF raw.start.reverse = "yes" THEN "server_to_client" ELSE "unknown"

Method(raw) ==
    IF Bidirectional(raw) THEN "bidirectional"
    ELSE IF raw.start.reverse = "yes" THEN "reverse"
    ELSE IF raw.start.reverse = "no" THEN "forward" ELSE "unknown"

\* Every observation of a stream: intervals first, then the end summaries.
Observations(raw) ==
    UNION {ToSet(raw.intervals[n].streams) : n \in DOMAIN raw.intervals}
    \union {s.data : s \in UNION {ToSet(raw.end.streams[n]) :
                                      n \in DOMAIN raw.end.streams}}

\* _record_socket_sender: the local roles reported for a socket.
Senders(raw, socket) ==
    {o.sender : o \in {p \in Observations(raw) :
                           p.socket = socket /\ p.sender # "none"}}

DirectionAtClient(role, sender) ==     \* mutant: the endpoint is forgotten
    IF sender = "yes" THEN "client_to_server" ELSE "server_to_client"

\* A sending client and a receiving server are the two ends of one direction.
DirectionOfSender(role, sender) ==
    IF (role = "client") = (sender = "yes")
    THEN "client_to_server" ELSE "server_to_client"

\* _stream_provenance: the sender flag, inherited from other reports of the
\* same socket, and the direction it implies or contradicts.
StreamProvenance(raw, role, data) ==
    LET senders == Senders(raw, data.socket)
        sender  == IF Cardinality(senders) > 1 THEN "none"
                   ELSE IF data.sender = "none" /\ senders # {}
                   THEN CHOOSE s \in senders : TRUE ELSE data.sender
        known   == role # "none" /\ sender # "none"
        primary == PrimaryDirection(raw)
    IN  [sender |-> sender,
         direction |->
            IF Cardinality(senders) > 1 THEN "unknown"
            ELSE IF Bidirectional(raw)
            THEN IF known THEN DirectionOfSender(role, sender) ELSE "unknown"
            ELSE IF known /\ primary # DirectionOfSender(role, sender) THEN "unknown"
            ELSE primary]

-----------------------------------------------------------------------------
\* Measurements.  `lost` names the fields that get an availability entry (and
\* a diagnostic) because a value was there and cannot be attributed.

\* SCTP producers emit retransmissions they never counted.
Retransmits(raw, data) ==
    IF data.retransmits /\ raw.start.protocol # "sctp" THEN "counted" ELSE "none"

LostRetransmits(raw, data) ==
    IF data.retransmits /\ raw.start.protocol = "sctp" THEN {"retransmits"} ELSE {}

\* TCP_INFO counts only at a local sender of a qualified producer.
TcpEvidence(raw, data, attributable) ==
    IF raw.start.protocol # "tcp" \/ ~data.tcpinfo THEN "none"
    ELSE IF data.sender # "yes" \/ ~attributable \/ ~raw.start.qualified THEN "none"
    ELSE IF data.sentinel THEN "partial" ELSE "full"

LostTcp(raw, data, attributable) ==
    IF raw.start.protocol # "tcp" \/ ~data.tcpinfo THEN {}
    ELSE CASE TcpEvidence(raw, data, attributable) = "none"    -> {"tcp"}
           [] TcpEvidence(raw, data, attributable) = "partial" -> {"tcp_field"}
           [] OTHER                                            -> {}

\* _sum: one endpoint summary, of a flow or of a stream part.
SumStats(raw, data, direction, observation, ofStream) ==
    LET attributable == Cardinality(Senders(raw, data.socket)) <= 1
        tcp == ofStream /\ observation = "sender"
    IN  [direction |-> direction, observation |-> observation,
         measured |-> data.measured,
         retransmits |-> Retransmits(raw, data),
         tcp |-> IF tcp THEN TcpEvidence(raw, data, attributable) ELSE "none",
         lost |-> LostRetransmits(raw, data)
                  \union (IF tcp THEN LostTcp(raw, data, attributable) ELSE {})
                  \union (IF observation = "none" THEN {"observation"} ELSE {})]

FlowDirection(raw, n) ==
    IF n = 1 THEN PrimaryDirection(raw) ELSE "server_to_client"

\* One flow, or two in bidirectional mode, each with its two end summaries.
Flows(raw) ==
    [n \in 1..(IF Bidirectional(raw) THEN 2 ELSE 1) |->
        LET sums == IF n \in DOMAIN raw.end.sums THEN raw.end.sums[n] ELSE << >>
        IN  [direction |-> FlowDirection(raw, n),
             stats |-> [m \in DOMAIN sums |->
                           SumStats(raw, sums[m].data, FlowDirection(raw, n),
                                    sums[m].part, FALSE)]]]

Endpoint(sender) ==
    CASE sender = "yes" -> "sender" [] sender = "no" -> "receiver"
      [] OTHER -> "none"

\* _interval: an aggregate of one flow, or one stream.
IntervalStats(raw, data, direction, sender, scope) ==
    LET observation == Endpoint(sender)
        tcp == scope = "stream"
    IN  [direction |-> direction, observation |-> observation, scope |-> scope,
         stream |-> IF tcp THEN data.socket ELSE 0,
         retransmits |-> Retransmits(raw, data),
         tcp |-> IF tcp THEN TcpEvidence(raw, data, observation = "sender")
                 ELSE "none",
         lost |-> LostRetransmits(raw, data)
                  \union (IF tcp THEN LostTcp(raw, data, observation = "sender")
                          ELSE {})
                  \union (IF observation = "none" THEN {"observation"} ELSE {})]

Intervals(raw, role) ==
    FlattenSeq([n \in DOMAIN raw.intervals |->
        [m \in DOMAIN raw.intervals[n].sums |->
            LET sum == raw.intervals[n].sums[m]
            IN  IntervalStats(raw, sum, FlowDirection(raw, m), sum.sender,
                              "aggregate")]
        \o [m \in DOMAIN raw.intervals[n].streams |->
            LET data == raw.intervals[n].streams[m]
                from == StreamProvenance(raw, role, data)
            IN  IntervalStats(raw, data, from.direction, from.sender, "stream")]])

\* The parts of an end stream must agree on socket and direction.
Streams(raw, role) ==
    [n \in DOMAIN raw.end.streams |->
        LET parts == raw.end.streams[n]
            sockets == {p.data.socket : p \in ToSet(parts)}
            found == {StreamProvenance(raw, role, p.data).direction :
                          p \in ToSet(parts)}
            agreed == Cardinality(found) = 1 /\ Cardinality(sockets) = 1
            direction == IF agreed THEN CHOOSE d \in found : TRUE ELSE "unknown"
        IN  [direction |-> direction,
             stream |-> IF Cardinality(sockets) = 1
                        THEN CHOOSE s \in sockets : TRUE ELSE 0,
             stats |-> [m \in DOMAIN parts |->
                SumStats(raw, parts[m].data, direction,
                         IF parts[m].part = "udp" THEN "none" ELSE parts[m].part,
                         TRUE)]]]

OtherRole(role) ==
    CASE role = "client" -> "server" [] role = "server" -> "client"
      [] OTHER -> "unknown"

\* CPU figures of the remote end are final only in a client's document.
Cpu(raw, role) ==
    IF ~raw.end.cpu THEN << >>
    ELSE LET item(locality) ==
               [locality |-> locality,
                endpoint |-> IF role = "none" THEN "unknown"
                             ELSE IF locality = "local" THEN role
                             ELSE OtherRole(role),
                present  |-> raw.start.qualified
                             /\ (locality = "local" \/ role = "client")]
         IN  <<item("local"), item("remote")>>

\* A flow or stream summary with any figure counts as an end measurement.
HasEndMeasurements(raw) ==
    \/ \E n \in DOMAIN raw.end.sums :
           /\ n = 1 \/ Bidirectional(raw)
           /\ \E s \in ToSet(raw.end.sums[n]) : s.data.measured
    \/ \E parts \in ToSet(raw.end.streams) : \E p \in ToSet(parts) : p.data.measured

-----------------------------------------------------------------------------
\* Settings: what the document itself verifies.

Unverified == [state |-> "unavailable", value |-> None]
Verified(value) == [state |-> "verified", value |-> value]

RateConflict(raw) ==
    /\ raw.start.rate # None /\ raw.start.rootRate # None
    /\ raw.start.rate # raw.start.rootRate

ReportedRate(raw) ==
    IF raw.start.rate # None THEN raw.start.rate ELSE raw.start.rootRate

Effective(raw) ==
    [name \in Settings |->
        CASE name = "duration" /\ raw.start.duration # None ->
                 Verified(raw.start.duration)
          [] name = "rate" /\ ~RateConflict(raw) /\ ReportedRate(raw) # None ->
                 Verified(ReportedRate(raw))
          [] OTHER -> Unverified]

-----------------------------------------------------------------------------
\* The normalized result.
Normalized(raw, given) ==
    LET role == RoleOf(raw, given)
        error == IF raw.error # "none" THEN "native"
                 ELSE IF HasEndMeasurements(raw) THEN "none" ELSE "incomplete"
    IN  [ok |-> error = "none", error |-> error,
         status |-> CASE error = "none"   -> "completed"
                      [] error = "native" -> "failed"
                      [] OTHER            -> "incomplete",
         method |-> Method(raw), bidirectional |-> Bidirectional(raw),
         role |-> role, protocol |-> raw.start.protocol,
         flows |-> Flows(raw), intervals |-> Intervals(raw, role),
         streams |-> Streams(raw, role), cpu |-> Cpu(raw, role),
         effective |-> Effective(raw), conflict |-> RateConflict(raw),
         differs |-> {}]

\* A Result without measurements, as built where there is no usable document.
Bare(error, status) ==
    [ok |-> FALSE, error |-> error, status |-> status, method |-> "unknown",
     bidirectional |-> FALSE, role |-> "none", protocol |-> "none",
     flows |-> << >>, intervals |-> << >>, streams |-> << >>, cpu |-> << >>,
     effective |-> [name \in Settings |-> Unverified], conflict |-> FALSE,
     differs |-> {}]

-----------------------------------------------------------------------------
\* artifacts._validate_result.

\* _available_target: an entry may only describe a field that is there and
\* has no value.
AvailabilityHolds(stats) ==
    /\ "retransmits" \in stats.lost => stats.retransmits = "none"
    /\ "tcp" \in stats.lost => stats.tcp = "none"
    /\ "tcp_field" \in stats.lost => stats.tcp = "partial"
    /\ "observation" \in stats.lost => stats.observation = "none"

\* _validate_observations: a summary agrees with the flow or stream it is in.
ObservationsHold(item) ==
    \A s \in ToSet(item.stats) :
        s.direction = item.direction /\ AvailabilityHolds(s)

ValidStatus(r) ==
    /\ r.ok = (r.status = "completed")
    /\ r.status = "completed" => r.error = "none"
    /\ r.status = "failed" => r.error # "none"
    /\ r.method # "unknown" => r.bidirectional = (r.method = "bidirectional")

ExpectedDirection(method) ==
    CASE method = "forward" -> {"client_to_server", "unknown"}
      [] method = "reverse" -> {"server_to_client", "unknown"}
      [] OTHER              -> Directions

ValidDirections(r) ==
    LET items == ToSet(r.flows) \union ToSet(r.streams)
        found == {i.direction : i \in items}
                 \union {i.direction : i \in ToSet(r.intervals)}
    IN  /\ found \subseteq ExpectedDirection(r.method)
        /\ ~r.bidirectional => Cardinality(found \ {"unknown"}) <= 1
        /\ IsInjective([n \in DOMAIN r.flows |-> r.flows[n].direction])
        /\ \A i \in items : ObservationsHold(i)

ValidStreams(r) ==
    /\ \A m, n \in DOMAIN r.streams :
           m # n /\ r.streams[m].stream # 0 => r.streams[m].stream # r.streams[n].stream
    /\ \A i \in ToSet(r.intervals) :
           /\ i.scope = "aggregate" => i.stream = 0
           /\ AvailabilityHolds(i)
           /\ i.scope = "stream" => \A s \in ToSet(r.streams) :
                  s.stream = i.stream /\ s.stream # 0 /\ s.direction # "unknown"
                      => i.direction \in {"unknown", s.direction}

ValidEvidence(r) ==
    /\ \A f \in ToSet(r.flows) : \A s \in ToSet(f.stats) : s.tcp = "none"
    /\ \A i \in ToSet(r.streams) : \A s \in ToSet(i.stats) :
           s.tcp # "none" => r.protocol = "tcp" /\ s.observation = "sender"
    /\ \A i \in ToSet(r.intervals) :
           i.tcp # "none" => /\ r.protocol = "tcp"
                             /\ i.scope = "stream" /\ i.observation = "sender"
    /\ \A c \in ToSet(r.cpu) :
           c.endpoint # "unknown" =>
               c.endpoint = IF c.locality = "local" THEN r.role ELSE OtherRole(r.role)

\* _validate_configuration: a verified value that differs from the request
\* has its diagnostic.
ValidSettings(r, requested) ==
    \A name \in Settings :
        LET s == r.effective[name]
        IN  /\ (s.state = "verified") <=> (s.value # None)
            /\ s.state = "verified" /\ requested[name] \notin {None, Auto, s.value}
                   => name \in r.differs

ArtifactAccepts(r, requested) ==
    /\ ValidStatus(r) /\ ValidDirections(r) /\ ValidStreams(r)
    /\ ValidEvidence(r) /\ ValidSettings(r, requested)
=============================================================================
