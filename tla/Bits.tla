--------------------------------- MODULE Bits ----------------------------------
(*****************************************************************************)
(* Powers of two, as a function: what the provers know nothing of when it is *)
(* written with the operator ^.                                              *)
(*****************************************************************************)
EXTENDS Integers

Pow2[n \in Nat] == IF n = 0 THEN 1 ELSE 2 * Pow2[n - 1]

===============================================================================
