-------------------------------- MODULE Totals --------------------------------
(* Sums of amounts: f gives each key a natural number, and the total is the  *)
(* number of its units, a unit being a pair of a key and one of 1 .. f[key]. *)
EXTENDS Integers, FiniteSets

Units(f) == UNION {{k} \X (1..f[k]) : k \in DOMAIN f}
Total(f) == Cardinality(Units(f))
=============================================================================
