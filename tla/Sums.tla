-------------------------------- MODULE Sums --------------------------------
(***************************************************************************)
(* The sum of a sequence of numbers, as the code's sum(... for ...) loops  *)
(* compute it.                                                             *)
(***************************************************************************)
EXTENDS Integers, Sequences

SumOf(numbers) ==
    LET total[i \in 0..Len(numbers)] == IF i = 0 THEN 0 ELSE total[i - 1] + numbers[i]
    IN  total[Len(numbers)]
=============================================================================
