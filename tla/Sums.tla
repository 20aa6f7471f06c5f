-------------------------------- MODULE Sums --------------------------------
(***************************************************************************)
(* Totals of amounts.  Amounts are whole units (cents, in the code) and    *)
(* none of them exceeds MaxAmount, so a total is the number of units: one  *)
(* pair <<x, n>> for every unit n of the amount of x.  Stated that way it  *)
(* is a cardinality, and its laws are laws of finite sets.                 *)
(***************************************************************************)
EXTENDS Integers, FiniteSets

CONSTANT MaxAmount

ASSUME MaxAmountAssumption == MaxAmount \in Nat

Amount == 0..MaxAmount

Units(f) == {u \in (DOMAIN f) \X (1..MaxAmount) : u[2] <= f[u[1]]}

Sum(f) == Cardinality(Units(f))
=============================================================================
