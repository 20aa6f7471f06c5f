----------------------------- MODULE SumTheorems -----------------------------
(***************************************************************************)
(* The laws of Sum that the accounting proofs rest on.                     *)
(***************************************************************************)
EXTENDS Sums, FiniteSetTheorems, TLAPS

\* An amount counts finitely many units.
LEMMA UnitsFinite ==
    ASSUME NEW S, IsFiniteSet(S), NEW f \in [S -> Amount]
    PROVE  IsFiniteSet(Units(f))
<1>1. IsFiniteSet(1..MaxAmount)
  BY FS_Interval, MaxAmountAssumption
<1>2. IsFiniteSet(S \X (1..MaxAmount))
  BY <1>1, FS_Product
<1>3. Units(f) \in SUBSET (S \X (1..MaxAmount))
  BY DEF Units
<1> QED
  BY <1>2, <1>3, FS_Subset

\* A total of finitely many amounts is a natural number.
THEOREM SumType ==
    ASSUME NEW S, IsFiniteSet(S), NEW f \in [S -> Amount]
    PROVE  Sum(f) \in Nat
BY UnitsFinite, FS_CardinalityType DEF Sum

\* The total over two disjoint sets is the sum of their totals: splitting the
\* items of an owner by cycle or by eligibility loses nothing.
THEOREM SumDisjoint ==
    ASSUME NEW S, NEW T, IsFiniteSet(S), IsFiniteSet(T), S \cap T = {},
           NEW f \in [S \cup T -> Amount]
    PROVE  Sum(f) = Sum([x \in S |-> f[x]]) + Sum([x \in T |-> f[x]])
<1> DEFINE g == [x \in S |-> f[x]]
           h == [x \in T |-> f[x]]
<1>1. g \in [S -> Amount] /\ h \in [T -> Amount]
  OBVIOUS
<1>2. Units(f) = Units(g) \cup Units(h)
  BY DEF Units
<1>3. Units(g) \cap Units(h) = {}
  BY DEF Units
<1>4. IsFiniteSet(Units(g)) /\ IsFiniteSet(Units(h))
  BY <1>1, UnitsFinite
<1>5. Cardinality(Units(g) \cap Units(h)) = 0
  BY <1>3, FS_EmptySet
<1>6. Cardinality(Units(g)) \in Nat /\ Cardinality(Units(h)) \in Nat
  BY <1>4, FS_CardinalityType
<1>7. Cardinality(Units(f)) = Cardinality(Units(g)) + Cardinality(Units(h))
                              - Cardinality(Units(g) \cap Units(h))
  BY <1>2, <1>4, FS_Union
<1> QED
  BY <1>5, <1>6, <1>7 DEF Sum

\* The total of no amount at all is zero.
THEOREM SumEmpty ==
    ASSUME NEW f \in [{} -> Amount]
    PROVE  Sum(f) = 0
<1>1. Units(f) = {}
  BY DEF Units
<1> QED
  BY <1>1, FS_EmptySet DEF Sum

\* The total of one amount is that amount.
THEOREM SumSingle ==
    ASSUME NEW x, NEW f \in [{x} -> Amount]
    PROVE  Sum(f) = f[x]
<1> DEFINE n == f[x]
           unit == [i \in 1..n |-> <<x, i>>]
<1>1. n \in Nat /\ n <= MaxAmount
  BY MaxAmountAssumption DEF Amount
<1>2. Units(f) = {u \in {x} \X (1..MaxAmount) : u[2] <= n}
  BY DEF Units
<1>3. \A i \in 1..n : unit[i] \in Units(f)
  BY <1>1, <1>2, MaxAmountAssumption
<1>4. \A u \in Units(f) : \E i \in 1..n : unit[i] = u
  <2> SUFFICES ASSUME NEW u \in Units(f)
               PROVE  \E i \in 1..n : unit[i] = u
    OBVIOUS
  <2>1. u = <<x, u[2]>> /\ u[2] \in 1..n
    BY <1>1, <1>2, MaxAmountAssumption
  <2> QED
    BY <2>1
<1>5. unit \in Bijection(1..n, Units(f))
  BY <1>3, <1>4 DEF Bijection, Injection, Surjection, IsInjective
<1>6. ExistsBijection(1..n, Units(f))
  BY <1>5 DEF ExistsBijection
<1> QED
  BY <1>1, <1>6, FS_CountingElements DEF Sum

\* A total is positive exactly when some amount is.
THEOREM SumPositive ==
    ASSUME NEW S, IsFiniteSet(S), NEW f \in [S -> Amount]
    PROVE  Sum(f) > 0 <=> \E x \in S : f[x] > 0
<1>1. IsFiniteSet(Units(f)) /\ Sum(f) \in Nat
  BY UnitsFinite, SumType
<1>2. Sum(f) = 0 <=> Units(f) = {}
  BY <1>1, FS_EmptySet DEF Sum
<1>3. \A x \in S : f[x] > 0 => <<x, 1>> \in Units(f)
  BY MaxAmountAssumption DEF Units, Amount
<1>4. \A u \in Units(f) : \E x \in S : f[x] > 0
  BY MaxAmountAssumption DEF Units, Amount
<1>5. Units(f) # {} <=> \E x \in S : f[x] > 0
  BY <1>3, <1>4
<1>6. Sum(f) > 0 <=> Sum(f) # 0
  BY <1>1
<1> QED
  BY <1>2, <1>5, <1>6
=============================================================================
