-------------------------------- MODULE Numbers --------------------------------
(***************************************************************************)
(* Finite sets of numbers in their order, and sums, by counting.           *)
(***************************************************************************)
EXTENDS Integers, FiniteSets

\* the n-th of a set of numbers
Nth(set, n) == CHOOSE x \in set : Cardinality({y \in set : y < x}) = n - 1
\* all of them, in rising order
Sorted(set) == [n \in 1 .. Cardinality(set) |-> Nth(set, n)]
\* the sum of the naturals f maps its domain to, as a cardinality
Total(f) == Cardinality(UNION {{x} \X (1 .. f[x]) : x \in DOMAIN f})
=============================================================================
