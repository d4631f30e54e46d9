---------------------------- MODULE PowersOfTwo ----------------------------
(* Powers of two as a recursive function, whose equations the proofs can     *)
(* use; the provers know no laws of the operator ^.                          *)
EXTENDS Integers

Pow2[n \in Nat] == IF n = 0 THEN 1 ELSE 2 * Pow2[n - 1]
=============================================================================
