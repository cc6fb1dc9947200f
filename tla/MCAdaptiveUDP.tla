---------------------------- MODULE MCAdaptiveUDP ----------------------------
(* Experiments that end for every reason: by themselves, at the limits on  *)
(* depth and distinct rates, at each budget, and by a stopped execution.   *)
EXTENDS AdaptiveUDP

Ample ==
    [grid |-> <<2, 8, 5>>, repetitions |-> 1, warmups |-> 1, seconds |-> 2, streams |-> 2,
     maxTrials |-> 40, maxActive |-> 80, maxBytes |-> 80, maxRates |-> 5, maxDepth |-> 2,
     confirmations |-> 1, stopOnError |-> FALSE]

Several ==
    {Ample,
     [Ample EXCEPT !.stopOnError = TRUE, !.maxTrials = 12],
     [Ample EXCEPT !.grid = <<2, 5>>, !.repetitions = 2, !.maxRates = 4, !.confirmations = 2,
                   !.maxActive = 60],
     [Ample EXCEPT !.maxActive = 18],
     [Ample EXCEPT !.maxBytes = 13, !.maxDepth = 1]}
=============================================================================
