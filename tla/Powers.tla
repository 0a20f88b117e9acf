------------------------------- MODULE Powers -------------------------------
(***************************************************************************)
(* Powers of two, as shifts and next_power_of_two make them.  They are     *)
(* defined by recursion and not by 2 ^ k, of which the proof system knows  *)
(* nothing.                                                                *)
(***************************************************************************)
EXTENDS Integers

TwoTo[k \in Nat] == IF k = 0 THEN 1 ELSE 2 * TwoTo[k - 1]

Pow2(k) == TwoTo[k]
=============================================================================
