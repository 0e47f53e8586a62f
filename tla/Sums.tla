-------------------------------- MODULE Sums --------------------------------
(***************************************************************************)
(* The sum of the values of a function on a finite set, as the number of   *)
(* units it has: a definition without recursion, so that DataLemmas proves  *)
(* what sums do when one value changes or some are taken away.             *)
(***************************************************************************)
EXTENDS Naturals, FiniteSets

Units(f) == UNION {{x} \X (1 .. f[x]) : x \in DOMAIN f}
SumOf(f) == Cardinality(Units(f))
=============================================================================
