-------------------------- MODULE MCConcurrentPlan --------------------------
(* Two cells with a warm-up and a measured trial each, in rotated order.   *)
(* Every trial has its own endpoint, so that only its cell orders it; the  *)
(* measured trials share a declared resource, and the first trial's target *)
(* rate leaves room for one other.                                         *)
EXTENDS ConcurrentPlan

Cells   == <<"a", "b", "a", "b">>
Shared  == <<{"host-1"}, {"host-2"}, {"host-3", "link"}, {"host-4", "link"}>>
Targets == <<2, 2, 1, 1>>
=============================================================================
