----------------------------------- MODULE Sums -----------------------------------
(***************************************************************************)
(* The sum of a function to the naturals, as the number of its units: what  *)
(* is summed is counted, so that a sum changes as a cardinality does.  Sums *)
(* of integers count what is above zero and what is below.                  *)
(***************************************************************************)
EXTENDS Integers, FiniteSets

\* One pair per unit of f[x].
Units(f) == UNION {{x} \X (1 .. f[x]) : x \in DOMAIN f}

Total(f) == Cardinality(Units(f))

\* Only finitely many units; always so where the domain is finite.
Summable(f) == IsFiniteSet(Units(f))

Above(f) == [x \in DOMAIN f |-> IF f[x] > 0 THEN f[x] ELSE 0]

Below(f) == [x \in DOMAIN f |-> IF f[x] < 0 THEN -f[x] ELSE 0]

Balance(f) == Total(Above(f)) - Total(Below(f))
=============================================================================
