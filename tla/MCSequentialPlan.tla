-------------------------- MODULE MCSequentialPlan --------------------------
(* With and without a deadline, with and without an elapsed limit.         *)
EXTENDS SequentialPlan

SomeTimeouts == {NoTime, 2}
SomeLimits   == {NoTime, 1}
=============================================================================
