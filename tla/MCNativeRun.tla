----------------------------- MODULE MCNativeRun -----------------------------
\* Producers for NativeRun: every mode, protocol and endpoint, a producer
\* outside the qualified versions, one with unavailable TCP fields and one
\* whose two target bitrates disagree.
EXTENDS NativeRun

Producer(role, mode, protocol) ==
    [role |-> role, mode |-> mode, protocol |-> protocol, qualified |-> TRUE,
     sentinel |-> FALSE, duration |-> 1, rate |-> 2, rootRate |-> None,
     family |-> 4,
     requested |-> [n \in Settings |-> IF n = "address_family" THEN Auto ELSE 1],
     receipts |-> [n \in Settings |-> IF n = "option" THEN 2 ELSE None]]

MCProfiles ==
    {Producer("client", "forward", "tcp"),
     [Producer("client", "bidirectional", "tcp") EXCEPT !.sentinel = TRUE],
     [Producer("server", "bidirectional", "udp") EXCEPT !.qualified = FALSE],
     Producer("server", "reverse", "tcp"),
     [Producer("client", "reverse", "sctp") EXCEPT
         !.rootRate = 1, !.receipts = [n \in Settings |-> 1],
         !.requested = [n \in Settings |-> IF n = "address_family" THEN 6 ELSE None]]}
=============================================================================
