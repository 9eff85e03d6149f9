-------------------------------- MODULE Totals --------------------------------
(***************************************************************************)
(* Sums of natural numbers, counted as a set of units: what a sum is can be *)
(* reasoned about without a recursion.                                      *)
(***************************************************************************)
EXTENDS Integers, FiniteSets

Units(f) == UNION {{a} \X (1..f[a]) : a \in DOMAIN f}
Total(f) == Cardinality(Units(f))
=============================================================================
