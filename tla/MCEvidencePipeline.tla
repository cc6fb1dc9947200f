------------------------- MODULE MCEvidencePipeline -------------------------
\* Plans, sweeps and native results for EvidencePipeline: measurements that
\* are absent, zero, warm-up or ambiguous; settings that are unverified or
\* differ; an aggregate rate intent; intervals that touch, overlap, leave a
\* gap, contradict their bounds or lack bytes.
EXTENDS EvidencePipeline

Stats(bytes, seconds) == [bytes |-> bytes, seconds |-> seconds, omitted |-> FALSE]

Flow(direction, stats) == [direction |-> direction, sender |-> Stats(12, 1), receiver |-> stats]

\* A completed run under its configuration, everything verified; a second
\* direction has its own measurement.
Run(config, intent, stats) ==
    [status |-> "completed", method |-> config.method, verifiedMethod |-> config.method,
     protocol |-> "tcp",
     flows |-> LET d == DirectionsOf(config.method) IN
               [n \in 1 .. Cardinality(d) |->
                   Flow(SetToSeq(d)[n], IF n = 1 THEN stats ELSE Stats(3, 1))],
     effective |-> [parallel |-> config.parallel,
                    rate |-> IF intent = 0 THEN 4 ELSE intent \div config.parallel,
                    tos |-> Max({config.tos, 0}), mss |-> None],
     requested |-> None, intent |-> intent, intervals |-> <<>>, streams |-> <<>>]

MCArtifacts(config, intent) ==
    LET R(stats) == Run(config, intent, stats)
        r == R(Stats(6, 1))
    IN
    {r, R(Stats(0, 1)), R(Stats(4, 2)), R(Stats(None, 1)),
     [r EXCEPT !.effective.parallel = None], [r EXCEPT !.effective.parallel = 3 - @],
     [r EXCEPT !.effective.tos = 8], [r EXCEPT !.effective.tos = None],
     [r EXCEPT !.method = "reverse", !.flows = <<Flow("server_to_client", Stats(6, 1))>>]}

OneRun == Run(Base, 4, Stats(2, 1))

MCBaselines ==
    {<<>>, <<OneRun>>, <<OneRun, [OneRun EXCEPT !.flows[1].receiver.omitted = TRUE]>>,
     <<Run(Base, 4, Stats(0, 1)), [Run(Base, 4, Stats(6, 1)) EXCEPT !.requested = 1]>>}

MCAssessed ==
    {[kind |-> "assess", plan |-> [phases |-> p],
      policy |-> [direction |-> "client_to_server", observation |-> "receiver",
                  minTrials |-> m, minBaselines |-> 1, minimum |-> t, absolute |-> a,
                  relative |-> r, stopOnError |-> m = 1, limited |-> m = 2],
      comparison |-> [varying |-> {}, allowed |-> c],
      intent |-> 4, baselines |-> b, requested |-> b # <<>> \/ r = 1] :
         p \in {<<"warmup", "measured", "measured">>}, m \in {1, 2},
         t \in {None, 20}, a \in {4}, r \in {0, 1}, c \in {{}, {"tos", "parallel"}},
         b \in MCBaselines}

MCSwept ==
    {[kind |-> "sweep", axes |-> a,
      policy |-> [warmups |-> IF Len(a[1].values) = 3 THEN 0 ELSE 1, repetitions |-> 1,
                  maxTrials |-> 4, minimum |-> 1,
                  stopOnError |-> o, limited |-> o],
      intent |-> i, shuffled |-> o, comparison |-> [varying |-> {}, allowed |-> {}]] :
         a \in {<<[name |-> "parallel", values |-> <<1, 2>>]>>,
                <<[name |-> "method", values |-> <<"forward", "reverse", "bidirectional">>]>>,
                <<[name |-> "tos", values |-> <<None, 8>>]>>,
                <<[name |-> "tos", values |-> <<0, 8>>],
                  [name |-> "parallel", values |-> <<1, 2>>]>>},
         i \in {0, 4}, o \in BOOLEAN}

MCPolicies == [include : BOOLEAN, derive : BOOLEAN, minimum : {1, 2}]

MCStreams == {None, 0, 1, 3}

MCObserved == [OneRun EXCEPT !.effective.parallel = 2]

Interval(start, end, seconds, bytes, reported) ==
    [start |-> start, end |-> end, seconds |-> seconds, bytes |-> bytes,
     reported |-> reported, omitted |-> "no", known |-> TRUE]

MCIntervals ==
    {Interval(0, 1, 1, 6, None), Interval(1, 2, 1, 0, 0), Interval(1, 3, 2, 6, None),
     Interval(2, 3, None, 6, None), Interval(2, 3, 1, None, 48), Interval(3, 4, 2, 6, None),
     Interval(2, 2, None, 6, None),
     [Interval(0, 1, 1, 6, None) EXCEPT !.omitted = "yes"],
     [Interval(1, 2, 1, 6, None) EXCEPT !.omitted = "unknown"],
     [Interval(2, 3, 1, 6, 48) EXCEPT !.known = FALSE]}
=============================================================================
