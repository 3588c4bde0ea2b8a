----------------------------- MODULE LedgerProofs -----------------------------
(***************************************************************************)
(* Lemmas the proofs about money and counters rest on: what a sum is after  *)
(* one of its terms has changed (Sums.tla), and what the operations of      *)
(* EscrowEntity.tla and PlayerWalletEntity.tla compute: rows of the tables  *)
(* again, and how the amounts of the row move.  Also about sets of at most  *)
(* one element, which the proofs about requests that keep apart need.       *)
(*                                                                          *)
(* And about brackets of any number of rounds (Bracket.tla): what they are  *)
(* when generated, what each result and each advance leaves them, and what  *)
(* they decide.                                                             *)
(***************************************************************************)
EXTENDS EscrowEntity, PlayerWalletEntity, Bracket, Sums, FiniteSetTheorems,
        WellFoundedInduction, SequenceTheorems, TLAPS

-----------------------------------------------------------------------------
(* Sums                                                                     *)

LEMMA UnitOf ==
    ASSUME NEW S, NEW f \in [S -> Nat]
    PROVE  \A u : u \in Units(f) <=> /\ u \in S \X Nat
                                     /\ u[2] \in 1 .. f[u[1]]
<1>1. DOMAIN f = S
  OBVIOUS
<1>2. ASSUME NEW u \in Units(f)
      PROVE  u \in S \X Nat /\ u[2] \in 1 .. f[u[1]]
  <2>1. PICK x \in S : u \in {x} \X (1 .. f[x])
    BY <1>1, <1>2 DEF Units
  <2>2. u[1] = x /\ u[2] \in 1 .. f[x] /\ u = <<u[1], u[2]>>
    BY <2>1
  <2> QED
    BY <2>1, <2>2
<1>3. ASSUME NEW u \in S \X Nat, u[2] \in 1 .. f[u[1]]
      PROVE  u \in Units(f)
  <2>1. u[1] \in S /\ u \in {u[1]} \X (1 .. f[u[1]])
    BY <1>3
  <2> QED
    BY <1>1, <2>1 DEF Units
<1> QED
  BY <1>2, <1>3

LEMMA TermUnits ==
    ASSUME NEW x, NEW n \in Nat
    PROVE  IsFiniteSet({x} \X (1 .. n)) /\ Cardinality({x} \X (1 .. n)) = n
<1>1. IsFiniteSet({x}) /\ Cardinality({x}) = 1
  BY FS_Singleton
<1>2. IsFiniteSet(1 .. n) /\ Cardinality(1 .. n) = n
  <2>1. 1 \in Int /\ n \in Int /\ (IF 1 > n THEN 0 ELSE n - 1 + 1) = n
    OBVIOUS
  <2> QED
    BY <2>1, FS_Interval
<1>3. /\ IsFiniteSet({x} \X (1 .. n))
      /\ Cardinality({x} \X (1 .. n)) = Cardinality({x}) * Cardinality(1 .. n)
  BY <1>1, <1>2, FS_Product
<1> QED
  BY <1>1, <1>2, <1>3

LEMMA TotalType ==
    ASSUME NEW f, Summable(f)
    PROVE  Total(f) \in Nat
BY FS_CardinalityType DEF Summable, Total

\* A sum of nothing.
LEMMA TotalZero ==
    ASSUME NEW S, NEW f \in [S -> Nat], \A x \in S : f[x] = 0
    PROVE  Summable(f) /\ Total(f) = 0
<1>1. \A u : u \notin Units(f)
  BY UnitOf
<1>2. Units(f) = {}
  BY <1>1
<1> QED
  BY <1>2, FS_EmptySet DEF Summable, Total

\* No term is more than the sum.
LEMMA TotalTerm ==
    ASSUME NEW S, NEW f \in [S -> Nat], Summable(f), NEW x \in S
    PROVE  f[x] <= Total(f)
<1>1. f[x] \in Nat
  OBVIOUS
<1>2. {x} \X (1 .. f[x]) \in SUBSET Units(f)
  BY DEF Units
<1>3. Cardinality({x} \X (1 .. f[x])) <= Total(f)
  BY <1>2, FS_Subset DEF Summable, Total
<1> QED
  BY <1>1, <1>3, TermUnits

\* One term changes, and the sum with it.
THEOREM TotalChange ==
    ASSUME NEW S, NEW f \in [S -> Nat], Summable(f), NEW x \in S, NEW n \in Nat
    PROVE  /\ Summable([f EXCEPT ![x] = n])
           /\ Total([f EXCEPT ![x] = n]) = Total(f) - f[x] + n
<1> DEFINE g == [f EXCEPT ![x] = n]
           old == {x} \X (1 .. f[x])
           new == {x} \X (1 .. n)
           rest == Units(f) \ old
<1>1. g \in [S -> Nat] /\ f[x] \in Nat
  OBVIOUS
<1>2. /\ IsFiniteSet(old) /\ Cardinality(old) = f[x]
      /\ IsFiniteSet(new) /\ Cardinality(new) = n
  BY <1>1, TermUnits
<1>3. Units(f) \cap old = old
  BY DEF Units
<1>4. IsFiniteSet(rest) /\ Cardinality(rest) = Total(f) - f[x]
  <2> HIDE DEF old
  <2>1. /\ IsFiniteSet(Units(f) \ old)
        /\ Cardinality(Units(f) \ old) = Cardinality(Units(f)) - Cardinality(Units(f) \cap old)
    BY FS_Difference DEF Summable
  <2> QED
    BY <1>2, <1>3, <2>1 DEF Total
<1>5. Units(g) = rest \cup new
  <2>1. ASSUME NEW u
        PROVE  u \in Units(g) <=> u \in rest \cup new
    <3>1. u \in Units(g) <=> u \in S \X Nat /\ u[2] \in 1 .. g[u[1]]
      BY <1>1, UnitOf
    <3>2. u \in Units(f) <=> u \in S \X Nat /\ u[2] \in 1 .. f[u[1]]
      BY UnitOf
    <3>3. u \in new <=> u \in S \X Nat /\ u[1] = x /\ u[2] \in 1 .. n
      OBVIOUS
    <3>4. u \in old <=> u \in S \X Nat /\ u[1] = x /\ u[2] \in 1 .. f[x]
      BY <1>1
    <3>5. u \in S \X Nat => g[u[1]] = IF u[1] = x THEN n ELSE f[u[1]]
      OBVIOUS
    <3> QED
      BY <3>1, <3>2, <3>3, <3>4, <3>5
  <2> QED
    BY <2>1
<1>6. rest \cap new = {}
  <2>1. ASSUME NEW u \in rest, u \in new
        PROVE  FALSE
    <3>1. u \in S \X Nat /\ u[1] = x /\ u[2] \in 1 .. f[u[1]]
      BY <2>1, UnitOf
    <3>2. u \in old
      BY <3>1
    <3> QED
      BY <2>1, <3>2
  <2> QED
    BY <2>1
<1>7. IsFiniteSet(rest \cup new) /\ Cardinality(rest \cup new) = Total(f) - f[x] + n
  <2> HIDE DEF rest, new
  <2>1. Cardinality(rest \cap new) = 0
    BY <1>6, FS_EmptySet
  <2>2. /\ IsFiniteSet(rest \cup new)
        /\ Cardinality(rest \cup new)
             = Cardinality(rest) + Cardinality(new) - Cardinality(rest \cap new)
    BY <1>2, <1>4, FS_Union
  <2>3. Total(f) \in Nat
    BY TotalType
  <2> QED
    BY <1>1, <1>2, <1>4, <2>1, <2>2, <2>3
<1> QED
  BY <1>5, <1>7 DEF Summable, Total

\* A sum over a part of the terms.
LEMMA TotalPart ==
    ASSUME NEW S, NEW g \in [S -> Nat], Summable(g), NEW T \in SUBSET S
    PROVE  Summable([y \in T |-> g[y]])
<1> DEFINE f == [y \in T |-> g[y]]
<1>1. f \in [T -> Nat]
  OBVIOUS
<1>2. \A u : u \in Units(f) <=> u \in T \X Nat /\ u[2] \in 1 .. f[u[1]]
  BY <1>1, UnitOf
<1>3. \A u : u \in Units(g) <=> u \in S \X Nat /\ u[2] \in 1 .. g[u[1]]
  BY UnitOf
<1>4. Units(f) \subseteq Units(g)
  BY <1>2, <1>3
<1> QED
  BY <1>4, FS_Subset DEF Summable

\* One term more.
THEOREM TotalAdd ==
    ASSUME NEW S, NEW x, x \notin S, NEW g \in [S \cup {x} -> Nat],
           Summable([y \in S |-> g[y]])
    PROVE  Summable(g) /\ Total(g) = Total([y \in S |-> g[y]]) + g[x]
<1> DEFINE f == [y \in S |-> g[y]]
           new == {x} \X (1 .. g[x])
<1>1. f \in [S -> Nat] /\ g[x] \in Nat
  OBVIOUS
<1>2. IsFiniteSet(new) /\ Cardinality(new) = g[x]
  BY <1>1, TermUnits
<1>3. Units(g) = Units(f) \cup new
  <2>1. ASSUME NEW u
        PROVE  u \in Units(g) <=> u \in Units(f) \cup new
    <3>1. u \in Units(g) <=> u \in (S \cup {x}) \X Nat /\ u[2] \in 1 .. g[u[1]]
      BY UnitOf
    <3>2. u \in Units(f) <=> u \in S \X Nat /\ u[2] \in 1 .. f[u[1]]
      BY <1>1, UnitOf
    <3>3. u \in new <=> u \in {x} \X Nat /\ u[2] \in 1 .. g[u[1]]
      BY <1>1
    <3>4. u \in S \X Nat => f[u[1]] = g[u[1]]
      OBVIOUS
    <3>5. u \in (S \cup {x}) \X Nat <=> u \in S \X Nat \/ u \in {x} \X Nat
      OBVIOUS
    <3> QED
      BY <3>1, <3>2, <3>3, <3>4, <3>5
  <2> QED
    BY <2>1
<1>4. Units(f) \cap new = {}
  <2>1. ASSUME NEW u \in Units(f), u \in new
        PROVE  FALSE
    <3>1. u[1] \in S
      BY <1>1, <2>1, UnitOf
    <3> QED
      BY <2>1, <3>1
  <2> QED
    BY <2>1
<1>5. /\ IsFiniteSet(Units(f) \cup new)
      /\ Cardinality(Units(f) \cup new) = Total(f) + g[x]
  <2> HIDE DEF f, new
  <2>1. Cardinality(Units(f) \cap new) = 0 /\ IsFiniteSet(Units(f))
    BY <1>4, FS_EmptySet DEF Summable, f
  <2>2. /\ IsFiniteSet(Units(f) \cup new)
        /\ Cardinality(Units(f) \cup new)
             = Cardinality(Units(f)) + Cardinality(new) - Cardinality(Units(f) \cap new)
    BY <1>2, <2>1, FS_Union
  <2>3. Cardinality(Units(f)) \in Nat
    BY <2>1, FS_CardinalityType
  <2> QED
    BY <1>1, <1>2, <2>1, <2>2, <2>3 DEF Total
<1> QED
  BY <1>3, <1>5 DEF Summable, Total

\* Finitely many terms have a sum.
LEMMA FiniteSummable ==
    ASSUME NEW S, IsFiniteSet(S), NEW f \in [S -> Nat]
    PROVE  Summable(f)
<1> DEFINE part == [x \in S |-> {x} \X (1 .. f[x])]
           parts == {{x} \X (1 .. f[x]) : x \in S}
<1>1. part \in Surjection(S, parts)
  BY DEF Surjection
<1>2. IsFiniteSet(parts)
  <2> HIDE DEF part, parts
  <2> QED
    BY <1>1, FS_Surjection
<1>3. \A T \in parts : IsFiniteSet(T)
  <2> TAKE T \in parts
  <2>1. PICK x \in S : T = {x} \X (1 .. f[x])
    OBVIOUS
  <2>2. f[x] \in Nat
    OBVIOUS
  <2> QED
    BY <2>1, <2>2, TermUnits
<1>4. Units(f) = UNION parts
  BY DEF Units
<1> QED
  BY <1>2, <1>3, <1>4, FS_UNION DEF Summable

\* A sum of equal terms.
LEMMA TotalConstant ==
    ASSUME NEW S, IsFiniteSet(S), NEW n \in Nat
    PROVE  /\ Summable([x \in S |-> n])
           /\ Total([x \in S |-> n]) = n * Cardinality(S)
<1> DEFINE f == [x \in S |-> n]
<1>1. f \in [S -> Nat]
  OBVIOUS
<1>2. \A u : u \in Units(f) <=> u \in S \X Nat /\ u[2] \in 1 .. f[u[1]]
  BY <1>1, UnitOf
<1>3. Units(f) = S \X (1 .. n)
  BY <1>2
<1>4. IsFiniteSet(1 .. n) /\ Cardinality(1 .. n) = n
  <2>1. 1 \in Int /\ n \in Int /\ (IF 1 > n THEN 0 ELSE n - 1 + 1) = n
    OBVIOUS
  <2> QED
    BY <2>1, FS_Interval
<1>5. /\ IsFiniteSet(S \X (1 .. n))
      /\ Cardinality(S \X (1 .. n)) = Cardinality(S) * Cardinality(1 .. n)
  BY <1>4, FS_Product
<1>6. Cardinality(S) \in Nat
  BY FS_CardinalityType
<1>7. Cardinality(S) * n = n * Cardinality(S)
  BY <1>6
<1> QED
  BY <1>3, <1>4, <1>5, <1>7 DEF Summable, Total

\* A sum of the other terms.
LEMMA TotalDrop ==
    ASSUME NEW S, NEW g \in [S -> Nat], Summable(g), NEW x \in S
    PROVE  /\ Summable([y \in S \ {x} |-> g[y]])
           /\ Total(g) = Total([y \in S \ {x} |-> g[y]]) + g[x]
<1> DEFINE T == S \ {x}
<1>1. T \cup {x} = S /\ x \notin T /\ T \in SUBSET S
  OBVIOUS
<1>2. Summable([y \in T |-> g[y]])
  BY <1>1, TotalPart
<1>3. g \in [T \cup {x} -> Nat]
  BY <1>1
<1>4. Total(g) = Total([y \in T |-> g[y]]) + g[x]
  <2> HIDE DEF T
  <2> QED
    BY <1>1, <1>2, <1>3, TotalAdd
<1> QED
  BY <1>2, <1>4

\* A sum each of whose terms is at most one of another sum.
LEMMA TotalAtMost ==
    ASSUME NEW S, NEW T, NEW f \in [S -> Nat], NEW h \in [T -> Nat], Summable(h),
           NEW g \in [S -> T],
           \A x, y \in S : g[x] = g[y] => x = y,
           \A x \in S : f[x] <= h[g[x]]
    PROVE  Summable(f) /\ Total(f) <= Total(h)
<1> DEFINE m == [u \in Units(f) |-> <<g[u[1]], u[2]>>]
<1>1. \A u : u \in Units(f) <=> u \in S \X Nat /\ u[2] \in 1 .. f[u[1]]
  BY UnitOf
<1>2. \A u : u \in Units(h) <=> u \in T \X Nat /\ u[2] \in 1 .. h[u[1]]
  BY UnitOf
<1>3. ASSUME NEW u \in Units(f)
      PROVE  m[u] \in Units(h)
  <2>1. u[1] \in S /\ u[2] \in Nat /\ u[2] \in 1 .. f[u[1]]
    BY <1>1
  <2>2. g[u[1]] \in T /\ f[u[1]] <= h[g[u[1]]] /\ f[u[1]] \in Nat /\ h[g[u[1]]] \in Nat
    BY <2>1
  <2>3. u[2] \in 1 .. h[g[u[1]]]
    BY <2>1, <2>2
  <2>4. m[u] = <<g[u[1]], u[2]>>
    OBVIOUS
  <2> QED
    BY <1>2, <2>1, <2>2, <2>3, <2>4
<1>4. ASSUME NEW u \in Units(f), NEW v \in Units(f), m[u] = m[v]
      PROVE  u = v
  <2>1. /\ u[1] \in S /\ v[1] \in S /\ u = <<u[1], u[2]>> /\ v = <<v[1], v[2]>>
    BY <1>1
  <2>2. g[u[1]] = g[v[1]] /\ u[2] = v[2]
    BY <1>4
  <2> QED
    BY <2>1, <2>2
<1>5. m \in Injection(Units(f), Units(h))
  <2>1. m \in [Units(f) -> Units(h)]
    BY <1>3
  <2>2. IsInjective(m)
    BY <1>4 DEF IsInjective
  <2> QED
    BY <2>1, <2>2 DEF Injection
<1>6. IsFiniteSet(Units(h))
  BY DEF Summable
<1> HIDE DEF m
<1>7. IsFiniteSet(Units(f)) /\ Cardinality(Units(f)) <= Cardinality(Units(h))
  BY <1>5, <1>6, FS_Injection
<1> QED
  BY <1>7 DEF Summable, Total

\* A sum none of whose terms is more than the other's.
LEMMA TotalMonotone ==
    ASSUME NEW S, NEW f \in [S -> Nat], NEW h \in [S -> Nat], Summable(h),
           \A x \in S : f[x] <= h[x]
    PROVE  Summable(f) /\ Total(f) <= Total(h)
<1> DEFINE g == [x \in S |-> x]
<1>1. g \in [S -> S] /\ (\A x, y \in S : g[x] = g[y] => x = y) /\ \A x \in S : g[x] = x
  OBVIOUS
<1> HIDE DEF g
<1>2. \A x \in S : f[x] <= h[g[x]]
  BY <1>1
<1> QED
  BY <1>1, <1>2, TotalAtMost

\* The parts of a sum of integers are sums to the naturals.
LEMMA BalanceParts ==
    ASSUME NEW S, IsFiniteSet(S), NEW f \in [S -> Int]
    PROVE  /\ Above(f) \in [S -> Nat] /\ Summable(Above(f))
           /\ Below(f) \in [S -> Nat] /\ Summable(Below(f))
           /\ \A x \in S : Above(f)[x] - Below(f)[x] = f[x]
           /\ Balance(f) \in Int
<1>1. DOMAIN f = S
  OBVIOUS
<1>2. Above(f) = [x \in S |-> IF f[x] > 0 THEN f[x] ELSE 0]
  BY <1>1 DEF Above
<1>3. Below(f) = [x \in S |-> IF f[x] < 0 THEN -f[x] ELSE 0]
  BY <1>1 DEF Below
<1>4. Above(f) \in [S -> Nat] /\ Below(f) \in [S -> Nat]
  BY <1>2, <1>3
<1>5. Summable(Above(f)) /\ Summable(Below(f))
  BY <1>4, FiniteSummable
<1>6. Total(Above(f)) \in Nat /\ Total(Below(f)) \in Nat
  BY <1>5, TotalType
<1>7. \A x \in S : Above(f)[x] - Below(f)[x] = f[x]
  BY <1>2, <1>3
<1> QED
  BY <1>4, <1>5, <1>6, <1>7 DEF Balance

LEMMA BalanceZero ==
    ASSUME NEW S, NEW f \in [S -> Int], \A x \in S : f[x] = 0
    PROVE  Balance(f) = 0
<1>1. /\ Above(f) \in [S -> Nat] /\ \A x \in S : Above(f)[x] = 0
      /\ Below(f) \in [S -> Nat] /\ \A x \in S : Below(f)[x] = 0
  BY DEF Above, Below
<1>2. Total(Above(f)) = 0 /\ Total(Below(f)) = 0
  BY <1>1, TotalZero
<1> QED
  BY <1>2 DEF Balance

\* One term of a sum of integers changes, and the sum with it.
THEOREM BalanceChange ==
    ASSUME NEW S, IsFiniteSet(S), NEW f \in [S -> Int], NEW x \in S, NEW n \in Int
    PROVE  Balance([f EXCEPT ![x] = n]) = Balance(f) - f[x] + n
<1> DEFINE g == [f EXCEPT ![x] = n]
           up == IF n > 0 THEN n ELSE 0
           down == IF n < 0 THEN -n ELSE 0
<1>1. g \in [S -> Int] /\ up \in Nat /\ down \in Nat /\ up - down = n
  OBVIOUS
<1>2. /\ Above(f) \in [S -> Nat] /\ Summable(Above(f))
      /\ Below(f) \in [S -> Nat] /\ Summable(Below(f))
      /\ Above(f)[x] - Below(f)[x] = f[x]
  BY BalanceParts
<1>3. Above(g) = [Above(f) EXCEPT ![x] = up]
  <2>1. \A y \in S : Above(g)[y] = IF y = x THEN up ELSE Above(f)[y]
    BY DEF Above
  <2>2. Above(g) \in [S -> Nat]
    BY <1>1 DEF Above
  <2> QED
    BY <1>2, <2>1, <2>2
<1>4. Below(g) = [Below(f) EXCEPT ![x] = down]
  <2>1. \A y \in S : Below(g)[y] = IF y = x THEN down ELSE Below(f)[y]
    BY DEF Below
  <2>2. Below(g) \in [S -> Nat]
    BY <1>1 DEF Below
  <2> QED
    BY <1>2, <2>1, <2>2
<1> HIDE DEF up, down, g
<1>5. /\ Total(Above(g)) = Total(Above(f)) - Above(f)[x] + up
      /\ Total(Below(g)) = Total(Below(f)) - Below(f)[x] + down
  <2>1. ASSUME NEW h \in [S -> Nat], Summable(h), NEW m \in Nat
        PROVE  Total([h EXCEPT ![x] = m]) = Total(h) - h[x] + m
    BY <2>1, TotalChange
  <2>2. Total([Above(f) EXCEPT ![x] = up]) = Total(Above(f)) - Above(f)[x] + up
    BY <1>1, <1>2, <2>1
  <2>3. Total([Below(f) EXCEPT ![x] = down]) = Total(Below(f)) - Below(f)[x] + down
    BY <1>1, <1>2, <2>1
  <2> QED
    BY <1>3, <1>4, <2>2, <2>3
<1>6. /\ Total(Above(f)) \in Nat /\ Total(Below(f)) \in Nat
      /\ Above(f)[x] \in Nat /\ Below(f)[x] \in Nat /\ f[x] \in Int
  BY <1>2, TotalType
<1>7. Balance(g) = Balance(f) - f[x] + n
  BY <1>1, <1>2, <1>5, <1>6 DEF Balance
<1> QED
  BY <1>7 DEF g

-----------------------------------------------------------------------------
(* Sets of at most one element                                              *)

Unique(S) == \A x, y \in S : x = y

\* A finite set of one element at most, and the other way round.
LEMMA AtMostOne ==
    ASSUME NEW S, IsFiniteSet(S)
    PROVE  Cardinality(S) <= 1 <=> Unique(S)
<1>1. ASSUME Unique(S)
      PROVE  Cardinality(S) <= 1
  <2>1. CASE S = {}
    BY <2>1, FS_EmptySet
  <2>2. CASE S # {}
    <3>1. PICK x : S = {x}
      BY <1>1, <2>2 DEF Unique
    <3> QED
      BY <3>1, FS_Singleton
  <2> QED
    BY <2>1, <2>2
<1>2. ASSUME Cardinality(S) <= 1
      PROVE  Unique(S)
  <2>1. Cardinality(S) \in Nat
    BY FS_CardinalityType
  <2>2. CASE Cardinality(S) = 0
    BY <2>2, FS_EmptySet DEF Unique
  <2>3. CASE Cardinality(S) = 1
    BY <2>3, FS_Singleton DEF Unique
  <2> QED
    BY <1>2, <2>1, <2>2, <2>3
<1> QED
  BY <1>1, <1>2

LEMMA UniqueIsFinite ==
    ASSUME NEW S, Unique(S)
    PROVE  IsFiniteSet(S)
<1>1. CASE S = {}
  BY <1>1, FS_EmptySet
<1>2. CASE S # {}
  <2>1. PICK x : S = {x}
    BY <1>2 DEF Unique
  <2> QED
    BY <2>1, FS_Singleton
<1> QED
  BY <1>1, <1>2

-----------------------------------------------------------------------------
(* The escrow                                                               *)

\* What releaseEscrow takes as a fee is a part of the balance.
LEMMA FeeOfBalance ==
    ASSUME NEW e \in EscrowRow, e.balance > 0
    PROVE  /\ PlatformFee(e) \in Nat
           /\ PlatformFee(e) <= e.balance
<1> DEFINE b == e.balance
           p == b * FeeBps
<1>1. b \in Nat
  BY DEF EscrowRow
<1>2. p \in Nat /\ p <= b * 10000
  <2> DEFINE c == 10000 - FeeBps
  <2>1. FeeBps \in Nat /\ c \in Nat
    BY FeeBpsAssumption
  <2>2. b * FeeBps \in Nat /\ b * c \in Nat
    BY <1>1, <2>1
  <2>3. b * 10000 = b * FeeBps + b * c
    BY <1>1, <2>1
  <2> QED
    BY <2>2, <2>3
<1>3. PlatformFee(e) = p \div 10000
  BY DEF PlatformFee
<1> HIDE DEF p
<1>4. p \div 10000 \in Nat /\ p \div 10000 <= b
  BY <1>1, <1>2
<1> QED
  BY <1>3, <1>4

\* Every entity an operation computes is an entity, given that its amounts are
\* natural numbers.
LEMMA EntityTypes ==
    ASSUME NEW e \in EscrowRow, NEW a \in Nat, NEW f \in Nat
    PROVE  /\ \A s \in EscrowStatus : WithStatus(e, s) \in EscrowRow
           /\ AfterDeposit(e, a) \in EscrowRow
           /\ AfterRelease(e, a, f) \in EscrowRow
           /\ AfterRefund(e, a) \in EscrowRow
<1>1. \A s \in EscrowStatus : WithStatus(e, s) \in EscrowRow
  BY DEF EscrowRow, WithStatus
<1>2. /\ e.deposited + a \in Nat /\ e.released + a \in Nat
      /\ e.refunded + a \in Nat /\ e.fee + f \in Nat
      /\ e.balance + a \in Int /\ e.balance - a \in Int
      /\ e.balance - a - f \in Int
  BY DEF EscrowRow
<1>3. AfterDeposit(e, a) \in EscrowRow
  <2>1. (IF e.status = "created" THEN "active" ELSE e.status) \in EscrowStatus
    BY DEF EscrowRow, EscrowStatus
  <2> QED
    BY <1>2, <2>1, Zenon DEF EscrowRow, AfterDeposit
<1>4. AfterRelease(e, a, f) \in EscrowRow
  BY <1>2 DEF EscrowRow, EscrowStatus, AfterRelease
<1>5. AfterRefund(e, a) \in EscrowRow
  BY <1>2 DEF EscrowRow, EscrowStatus, AfterRefund
<1> QED
  BY <1>1, <1>3, <1>4, <1>5

LEMMA NewEscrowType == NewEscrow \in EscrowRow
BY DEF NewEscrow, EscrowRow, EscrowStatus

\* What each operation does to the totals of the escrow.
LEMMA StatusTotals ==
    ASSUME NEW e \in EscrowRow, NEW s
    PROVE  /\ WithStatus(e, s).status = s
           /\ WithStatus(e, s).deposited = e.deposited
           /\ WithStatus(e, s).released = e.released
           /\ WithStatus(e, s).refunded = e.refunded
           /\ WithStatus(e, s).fee = e.fee
           /\ WithStatus(e, s).balance = e.balance
BY DEF EscrowRow, WithStatus

LEMMA DepositTotals ==
    ASSUME NEW e \in EscrowRow, NEW a \in Nat
    PROVE  /\ AfterDeposit(e, a).deposited = e.deposited + a
           /\ AfterDeposit(e, a).released = e.released
           /\ AfterDeposit(e, a).refunded = e.refunded
           /\ AfterDeposit(e, a).fee = e.fee
           /\ AfterDeposit(e, a).balance = e.balance + a
BY DEF EscrowRow, AfterDeposit

LEMMA ReleaseTotals ==
    ASSUME NEW e \in EscrowRow, NEW a \in Nat, NEW f \in Nat
    PROVE  /\ AfterRelease(e, a, f).deposited = e.deposited
           /\ AfterRelease(e, a, f).released = e.released + a
           /\ AfterRelease(e, a, f).refunded = e.refunded
           /\ AfterRelease(e, a, f).fee = e.fee + f
           /\ AfterRelease(e, a, f).balance = e.balance - a - f
BY DEF EscrowRow, AfterRelease

LEMMA RefundTotals ==
    ASSUME NEW e \in EscrowRow, NEW a \in Nat
    PROVE  /\ AfterRefund(e, a).deposited = e.deposited
           /\ AfterRefund(e, a).released = e.released
           /\ AfterRefund(e, a).refunded = e.refunded + a
           /\ AfterRefund(e, a).fee = e.fee
           /\ AfterRefund(e, a).balance = e.balance - a
BY DEF EscrowRow, AfterRefund

-----------------------------------------------------------------------------
(* The wallet                                                               *)

LEMMA NewWalletType == NewWallet \in WalletRow
BY DEF NewWallet, WalletRow

\* An operation whose guard passed computes a row of natural numbers.
LEMMA AfterType ==
    ASSUME NEW w \in WalletRow, NEW op \in WalletOps, NEW a \in Nat,
           Allowed(op, w, a)
    PROVE  After(op, w, a) \in WalletRow
<1>1. CASE op = "deposit"
  <2>1. w.available + a \in Nat /\ w.deposited + a \in Nat
    BY <1>1 DEF WalletRow
  <2>2. After("deposit", w, a) = [w EXCEPT !.available = @ + a, !.deposited = @ + a]
    BY DEF After
  <2> QED
    BY <1>1, <2>1, <2>2 DEF WalletRow
<1>2. CASE op = "lockFunds"
  <2>1. /\ w.available - a \in Nat /\ w.locked + a \in Nat
        /\ w.entryFees + a \in Nat
    BY <1>2 DEF WalletRow, Allowed
  <2>2. After("lockFunds", w, a) =
          [w EXCEPT !.available = @ - a, !.locked = @ + a, !.entryFees = @ + a]
    BY DEF After
  <2> QED
    BY <1>2, <2>1, <2>2 DEF WalletRow
<1>3. CASE op = "unlockFunds"
  <2>1. w.available + a \in Nat /\ w.locked - a \in Nat
    BY <1>3 DEF WalletRow, Allowed
  <2>2. After("unlockFunds", w, a) =
          [w EXCEPT !.available = @ + a, !.locked = @ - a]
    BY DEF After
  <2> QED
    BY <1>3, <2>1, <2>2 DEF WalletRow
<1>4. CASE op = "creditPrize"
  <2>1. w.available + a \in Nat /\ w.winnings + a \in Nat
    BY <1>4 DEF WalletRow
  <2>2. After("creditPrize", w, a) =
          [w EXCEPT !.available = @ + a, !.winnings = @ + a]
    BY DEF After
  <2> QED
    BY <1>4, <2>1, <2>2 DEF WalletRow
<1>5. CASE op = "deductEntryFee"
  <2>1. w.locked - a \in Nat
    BY <1>5 DEF WalletRow, Allowed
  <2>2. After("deductEntryFee", w, a) = [w EXCEPT !.locked = @ - a]
    BY DEF After
  <2> QED
    BY <1>5, <2>1, <2>2 DEF WalletRow
<1> QED
  BY <1>1, <1>2, <1>3, <1>4, <1>5 DEF WalletOps, LoggedOps

LEMMA AfterWithdrawType ==
    ASSUME NEW w \in WalletRow, NEW a \in Nat, canWithdraw(w, a)
    PROVE  AfterWithdraw(w, a) \in WalletRow
<1>1. w.available - a \in Nat /\ w.withdrawn + a \in Nat
  BY DEF WalletRow, canWithdraw
<1> QED
  BY <1>1 DEF AfterWithdraw, WalletRow

\* What is in a wallet.
Value(w) == w.available + w.locked

\* What an operation does to the value of the wallet and to its totals.
LEMMA AfterTotals ==
    ASSUME NEW w \in WalletRow, NEW op \in WalletOps, NEW a \in Nat
    PROVE  LET n == After(op, w, a)
           IN  /\ op \in {"deposit", "creditPrize"} => Value(n) = Value(w) + a
               /\ op = "deductEntryFee" => Value(n) = Value(w) - a
               /\ op \in {"lockFunds", "unlockFunds"} => Value(n) = Value(w)
               /\ n.deposited = IF op = "deposit" THEN w.deposited + a ELSE w.deposited
               /\ n.winnings = IF op = "creditPrize" THEN w.winnings + a ELSE w.winnings
               /\ n.entryFees = IF op = "lockFunds" THEN w.entryFees + a ELSE w.entryFees
               /\ n.withdrawn = w.withdrawn
<1> DEFINE n == After(op, w, a)
<1>1. /\ w.available \in Nat /\ w.locked \in Nat
      /\ Value(w) = w.available + w.locked /\ Value(n) = n.available + n.locked
  BY DEF WalletRow, Value
<1>2. CASE op = "deposit"
  <2>1. n = [w EXCEPT !.available = @ + a, !.deposited = @ + a]
    BY <1>2 DEF After
  <2>2. /\ n.available = w.available + a /\ n.locked = w.locked
        /\ n.deposited = w.deposited + a /\ n.winnings = w.winnings
        /\ n.entryFees = w.entryFees /\ n.withdrawn = w.withdrawn
    BY <2>1 DEF WalletRow
  <2> HIDE DEF n
  <2>3. Value(n) = Value(w) + a
    BY <1>1, <2>2
  <2> QED
    BY <1>2, <2>2, <2>3 DEF n
<1>3. CASE op = "lockFunds"
  <2>1. n = [w EXCEPT !.available = @ - a, !.locked = @ + a, !.entryFees = @ + a]
    BY <1>3 DEF After
  <2>2. /\ n.available = w.available - a /\ n.locked = w.locked + a
        /\ n.deposited = w.deposited /\ n.winnings = w.winnings
        /\ n.entryFees = w.entryFees + a /\ n.withdrawn = w.withdrawn
    BY <2>1 DEF WalletRow
  <2> HIDE DEF n
  <2>3. Value(n) = Value(w)
    BY <1>1, <2>2
  <2> QED
    BY <1>3, <2>2, <2>3 DEF n
<1>4. CASE op = "unlockFunds"
  <2>1. n = [w EXCEPT !.available = @ + a, !.locked = @ - a]
    BY <1>4 DEF After
  <2>2. /\ n.available = w.available + a /\ n.locked = w.locked - a
        /\ n.deposited = w.deposited /\ n.winnings = w.winnings
        /\ n.entryFees = w.entryFees /\ n.withdrawn = w.withdrawn
    BY <2>1 DEF WalletRow
  <2> HIDE DEF n
  <2>3. Value(n) = Value(w)
    BY <1>1, <2>2
  <2> QED
    BY <1>4, <2>2, <2>3 DEF n
<1>5. CASE op = "creditPrize"
  <2>1. n = [w EXCEPT !.available = @ + a, !.winnings = @ + a]
    BY <1>5 DEF After
  <2>2. /\ n.available = w.available + a /\ n.locked = w.locked
        /\ n.deposited = w.deposited /\ n.winnings = w.winnings + a
        /\ n.entryFees = w.entryFees /\ n.withdrawn = w.withdrawn
    BY <2>1 DEF WalletRow
  <2> HIDE DEF n
  <2>3. Value(n) = Value(w) + a
    BY <1>1, <2>2
  <2> QED
    BY <1>5, <2>2, <2>3 DEF n
<1>6. CASE op = "deductEntryFee"
  <2>1. n = [w EXCEPT !.locked = @ - a]
    BY <1>6 DEF After
  <2>2. /\ n.available = w.available /\ n.locked = w.locked - a
        /\ n.deposited = w.deposited /\ n.winnings = w.winnings
        /\ n.entryFees = w.entryFees /\ n.withdrawn = w.withdrawn
    BY <2>1 DEF WalletRow
  <2> HIDE DEF n
  <2>3. Value(n) = Value(w) - a
    BY <1>1, <2>2
  <2> QED
    BY <1>6, <2>2, <2>3 DEF n
<1> QED
  BY <1>2, <1>3, <1>4, <1>5, <1>6 DEF WalletOps, LoggedOps

LEMMA AfterWithdrawTotals ==
    ASSUME NEW w \in WalletRow, NEW a \in Nat
    PROVE  LET n == AfterWithdraw(w, a)
           IN  /\ Value(n) = Value(w) - a
               /\ n.deposited = w.deposited /\ n.winnings = w.winnings
               /\ n.entryFees = w.entryFees /\ n.withdrawn = w.withdrawn + a
BY DEF WalletRow, AfterWithdraw, Value

-----------------------------------------------------------------------------
(* Numbers                                                                  *)

\* A set of numbers has a least one.
LEMMA MinOfNaturals ==
    ASSUME NEW S \in SUBSET Nat, S # {}
    PROVE  Min(S) \in S /\ \A x \in S : Min(S) <= x
<1>1. PICK x \in S : \A y \in S : ~(<<y, x>> \in OpToRel(<, Nat))
  BY NatLessThanWellFounded, WFMin
<1>2. \A y \in S : x <= y
  <2> TAKE y \in S
  <2>1. x \in Nat /\ y \in Nat
    OBVIOUS
  <2>2. ~(y < x)
    BY <1>1, <2>1 DEF OpToRel
  <2> QED
    BY <2>1, <2>2
<1> QED
  BY <1>1, <1>2 DEF Min

-----------------------------------------------------------------------------
(* Induction and recursion                                                  *)

\* What holds of 0 and goes on from each number to the next holds of all; stated
\* for the set of the numbers it holds of.
LEMMA UpTo ==
    ASSUME NEW n \in Nat, NEW S, 0 \in S,
           \A k \in 0 .. n : k \in S /\ k < n => k + 1 \in S
    PROVE  \A k \in 0 .. n : k \in S
<1> DEFINE T == {k \in 0 .. n : k \notin S}
<1> SUFFICES ASSUME T # {}
             PROVE  FALSE
  OBVIOUS
<1> DEFINE m == Min(T)
<1>1. m \in T /\ \A x \in T : m <= x
  BY MinOfNaturals
<1> HIDE DEF m
<1>2. m \in 0 .. n /\ m \notin S
  BY <1>1
<1>3. m - 1 \in 0 .. n /\ m - 1 < n
  BY <1>2
<1>4. m - 1 \in S
  BY <1>1, <1>3
<1> QED
  BY <1>2, <1>3, <1>4

\* A function on 0 .. n may be defined by what it is for 0, and by what it is for
\* k and its value for k - 1.
IsStep(step, n, T) == step \in [(1 .. n) \X T -> T]

IsRun(g, n, T, base, step) ==
    /\ g \in [0 .. n -> T] /\ g[0] = base
    /\ \A k \in 1 .. n : g[k] = step[<<k, g[k - 1]>>]

LEMMA RunGoesOn ==
    ASSUME NEW m \in Nat, NEW n \in Nat, m < n, NEW T, NEW base, NEW step, IsStep(step, n, T),
           NEW g, IsRun(g, m, T, base, step)
    PROVE  \E h : IsRun(h, m + 1, T, base, step)
<1> DEFINE v == step[<<m + 1, g[m]>>]
           h == [k \in 0 .. m + 1 |-> IF k = m + 1 THEN v ELSE g[k]]
<1>1. m + 1 \in 1 .. n /\ m \in 0 .. m
  OBVIOUS
<1>2. v \in T
  BY <1>1 DEF IsStep, IsRun
<1> HIDE DEF v
<1>3. h \in [0 .. m + 1 -> T] /\ h[m + 1] = v /\ \A k \in 0 .. m : h[k] = g[k]
  BY <1>2 DEF IsRun
<1> HIDE DEF h
<1>4. h[0] = base
  BY <1>3 DEF IsRun
<1>5. ASSUME NEW k \in 1 .. m + 1
      PROVE  h[k] = step[<<k, h[k - 1]>>]
  <2>1. CASE k = m + 1
    <3>1. k - 1 = m /\ m \in 0 .. m
      BY <2>1
    <3> QED
      BY <1>3, <2>1, <3>1 DEF v
  <2>2. CASE k # m + 1
    <3>1. k \in 1 .. m /\ k \in 0 .. m /\ k - 1 \in 0 .. m
      BY <1>5, <2>2
    <3> QED
      BY <1>3, <3>1 DEF IsRun
  <2> QED
    BY <2>1, <2>2
<1> QED
  BY <1>3, <1>4, <1>5 DEF IsRun

LEMMA Recursion ==
    ASSUME NEW n \in Nat, NEW T, NEW base \in T, NEW step, IsStep(step, n, T)
    PROVE  \E g : IsRun(g, n, T, base, step)
<1> DEFINE S == {m \in 0 .. n : \E g : IsRun(g, m, T, base, step)}
<1>1. 0 \in S
  <2> DEFINE g == [k \in 0 .. 0 |-> base]
  <2>1. g \in [0 .. 0 -> T] /\ g[0] = base /\ 1 .. 0 = {}
    OBVIOUS
  <2> HIDE DEF g
  <2>2. IsRun(g, 0, T, base, step)
    BY <2>1 DEF IsRun
  <2> QED
    BY <2>2
<1>2. ASSUME NEW m \in 0 .. n, m \in S, m < n
      PROVE  m + 1 \in S
  <2>1. PICK g : IsRun(g, m, T, base, step)
    BY <1>2
  <2>2. m \in Nat /\ m + 1 \in 0 .. n
    BY <1>2
  <2> QED
    BY <1>2, <2>1, <2>2, RunGoesOn
<1> HIDE DEF S
<1>3. \A k \in 0 .. n : k \in S
  BY <1>1, <1>2, UpTo
<1>4. n \in S
  BY <1>3
<1> QED
  BY <1>4 DEF S

-----------------------------------------------------------------------------
(* Powers of two                                                            *)

IsPower(g, n) == g = [k \in 0 .. n |-> IF k = 0 THEN 1 ELSE 2 * g[k - 1]]

Power(n) == CHOOSE g : IsPower(g, n)

LEMMA PowerIs ==
    ASSUME NEW n \in Nat
    PROVE  IsPower(Power(n), n)
<1> DEFINE step == [a \in (1 .. n) \X Nat |-> 2 * a[2]]
<1>1. IsStep(step, n, Nat)
  BY DEF IsStep
<1>2. \A k \in 1 .. n : \A v \in Nat : step[<<k, v>>] = 2 * v
  OBVIOUS
<1> HIDE DEF step
<1>3. PICK g : IsRun(g, n, Nat, 1, step)
  BY <1>1, Recursion
<1>4. g \in [0 .. n -> Nat] /\ g[0] = 1
  BY <1>3 DEF IsRun
<1>5. \A k \in 1 .. n : g[k] = 2 * g[k - 1]
  <2> TAKE k \in 1 .. n
  <2>1. k - 1 \in 0 .. n
    OBVIOUS
  <2>2. g[k - 1] \in Nat /\ g[k] = step[<<k, g[k - 1]>>]
    BY <1>3, <2>1 DEF IsRun
  <2> QED
    BY <1>2, <2>2
<1>6. IsPower(g, n)
  BY <1>4, <1>5 DEF IsPower
<1> QED
  BY <1>6 DEF Power

LEMMA Pow2Is ==
    ASSUME NEW n \in Nat
    PROVE  Pow2(n) = Power(n)[n]
BY Zenon DEF Pow2, Power, IsPower

\* Two powers agree where both are defined.
LEMMA PowersAgree ==
    ASSUME NEW n \in Nat, NEW g, NEW h, IsPower(g, n), IsPower(h, n + 1)
    PROVE  \A k \in 0 .. n : g[k] = h[k]
<1> DEFINE S == {k \in 0 .. n : g[k] = h[k]}
<1>1. 0 \in S
  BY DEF IsPower
<1>2. ASSUME NEW k \in 0 .. n, k \in S, k < n
      PROVE  k + 1 \in S
  <2>1. k + 1 \in 0 .. n /\ k + 1 \in 0 .. n + 1 /\ k + 1 # 0 /\ (k + 1) - 1 = k
    BY <1>2
  <2>2. g[k + 1] = 2 * g[k]
    BY <2>1 DEF IsPower
  <2>3. h[k + 1] = 2 * h[k]
    BY <2>1 DEF IsPower
  <2> QED
    BY <1>2, <2>1, <2>2, <2>3
<1> HIDE DEF S
<1>3. \A k \in 0 .. n : k \in S
  BY <1>1, <1>2, UpTo
<1> QED
  BY <1>3 DEF S

\* Pow2 doubles.
LEMMA Pow2Zero == Pow2(0) = 1
<1>1. IsPower(Power(0), 0)
  BY PowerIs
<1> QED
  BY <1>1, Pow2Is DEF IsPower

LEMMA Pow2Next ==
    ASSUME NEW n \in Nat
    PROVE  Pow2(n + 1) = 2 * Pow2(n)
<1>1. IsPower(Power(n), n) /\ IsPower(Power(n + 1), n + 1)
  BY PowerIs
<1>2. Power(n)[n] = Power(n + 1)[n]
  BY <1>1, PowersAgree
<1>3. n + 1 \in 0 .. n + 1 /\ n + 1 # 0 /\ (n + 1) - 1 = n
  OBVIOUS
<1>4. Power(n + 1)[n + 1] = 2 * Power(n + 1)[n]
  BY <1>1, <1>3 DEF IsPower
<1> QED
  BY <1>2, <1>4, Pow2Is

LEMMA Pow2Type == \A n \in Nat : Pow2(n) \in Nat /\ Pow2(n) > n
<1> SUFFICES ASSUME NEW n \in Nat
             PROVE  Pow2(n) \in Nat /\ Pow2(n) > n
  OBVIOUS
<1> DEFINE S == {k \in 0 .. n : Pow2(k) \in Nat /\ Pow2(k) > k}
<1>1. 0 \in S
  BY Pow2Zero
<1>2. ASSUME NEW k \in 0 .. n, k \in S, k < n
      PROVE  k + 1 \in S
  <2>1. Pow2(k + 1) = 2 * Pow2(k) /\ Pow2(k) \in Nat /\ Pow2(k) > k /\ k + 1 \in 0 .. n
    BY <1>2, Pow2Next
  <2> QED
    BY <2>1
<1> HIDE DEF S
<1>3. n \in S
  BY <1>1, <1>2, UpTo
<1> QED
  BY <1>3 DEF S

-----------------------------------------------------------------------------
(* Brackets                                                                 *)

\* The pairings of round r of a bracket of n rounds.
Numbers(n, r) == 1 .. Pow2(n - r)

IsMatch(m) == m = [f \in {"p1", "p2", "winner"} |-> m[f]]

Shape(b, n) ==
    /\ b = [r \in 1 .. n |-> b[r]]
    /\ \A r \in 1 .. n : /\ DOMAIN b[r] = Numbers(n, r)
                         /\ \A i \in Numbers(n, r) : IsMatch(b[r][i])

\* Who wins a match plays in it.
WinnersPlay(b, n) ==
    \A r \in 1 .. n : \A i \in Numbers(n, r) :
        b[r][i].winner \in {NoPlayer, b[r][i].p1, b[r][i].p2}

FedFrom(b, n) ==
    \A r \in 1 .. n : r >= 2 => \A i \in Numbers(n, r) :
        /\ b[r][i].p1 \in {NoPlayer, b[r - 1][2 * i - 1].winner}
        /\ b[r][i].p2 \in {NoPlayer, b[r - 1][2 * i].winner}

\* No player has two places in the round.
OncePlaced(round, places) ==
    \A i, j \in places :
        /\ round[i].p1 = round[j].p1 => round[i].p1 = NoPlayer \/ i = j
        /\ round[i].p2 = round[j].p2 => round[i].p2 = NoPlayer \/ i = j
        /\ round[i].p1 = round[j].p2 => round[i].p1 = NoPlayer

FullStart(b, n) == \A i \in Numbers(n, 1) : b[1][i].p1 # NoPlayer /\ b[1][i].p2 # NoPlayer

\* Without byes a later match waits for both its players.
WaitsForBoth(b, n) ==
    \A r \in 1 .. n : r >= 2 => \A i \in Numbers(n, r) :
        b[r][i].p1 = NoPlayer <=> b[r][i].p2 = NoPlayer

\* Those who start are registered.
StartIn(reg, b, n) ==
    \A i \in Numbers(n, 1) : b[1][i].p1 \in reg \cup {NoPlayer}
                             /\ b[1][i].p2 \in reg \cup {NoPlayer}

\* What a bracket is whatever results are reported.
Started(reg, b, n) ==
    /\ n \in Nat \ {0}
    /\ Shape(b, n) /\ OncePlaced(b[1], Numbers(n, 1)) /\ StartIn(reg, b, n)

\* What it is when each result is one that a match waits for.
Sound(b, n) ==
    /\ n \in Nat \ {0}
    /\ Shape(b, n) /\ WinnersPlay(b, n) /\ FedFrom(b, n) /\ OncePlaced(b[1], Numbers(n, 1))
    /\ FullStart(b, n) => WaitsForBoth(b, n)

\* Each match of a round has two that feed it, and each match feeds one.
LEMMA Feeders ==
    ASSUME NEW n \in Nat, NEW r \in 1 .. n, r < n
    PROVE  /\ Pow2(n - r) = 2 * Pow2(n - (r + 1)) /\ Pow2(n - (r + 1)) \in Nat
           /\ r + 1 \in 1 .. n /\ r + 1 >= 2 /\ (r + 1) - 1 = r
           /\ \A i \in Numbers(n, r + 1) : 2 * i - 1 \in Numbers(n, r) /\ 2 * i \in Numbers(n, r)
           /\ \A j \in Numbers(n, r) : \E i \in Numbers(n, r + 1) : j = 2 * i - 1 \/ j = 2 * i
<1> DEFINE k == n - (r + 1)
<1>1. k \in Nat /\ n - r = k + 1
  OBVIOUS
<1>2. Pow2(k + 1) = 2 * Pow2(k) /\ Pow2(k) \in Nat
  BY <1>1, Pow2Next, Pow2Type
<1> DEFINE p == Pow2(k)
<1>3. Numbers(n, r) = 1 .. 2 * p /\ Numbers(n, r + 1) = 1 .. p /\ p \in Nat
  BY <1>1, <1>2 DEF Numbers
<1>4. Pow2(n - r) = 2 * p
  BY <1>1, <1>2
<1> HIDE DEF p
<1>5. \A i \in 1 .. p : 2 * i - 1 \in 1 .. 2 * p /\ 2 * i \in 1 .. 2 * p
  BY <1>3
<1>6. \A j \in 1 .. 2 * p : \E i \in 1 .. p : j = 2 * i - 1 \/ j = 2 * i
  <2> TAKE j \in 1 .. 2 * p
  <2> DEFINE i == (j + 1) \div 2
  <2>1. i \in 1 .. p /\ (j = 2 * i - 1 \/ j = 2 * i)
    BY <1>3
  <2> QED
    BY <2>1
<1>7. r + 1 \in 1 .. n /\ r + 1 >= 2 /\ (r + 1) - 1 = r
  OBVIOUS
<1> QED
  BY <1>3, <1>4, <1>5, <1>6, <1>7 DEF p

\* The length of a bracket is the number of its rounds.
LEMMA LenIs ==
    ASSUME NEW n \in Nat, NEW s, s = [i \in 1 .. n |-> s[i]]
    PROVE  Len(s) = n
<1> DEFINE T == {s[i] : i \in 1 .. n}
<1>1. s \in [1 .. n -> T]
  OBVIOUS
<1> HIDE DEF T
<1>2. s \in Seq(T) /\ DOMAIN s = 1 .. n
  BY <1>1
<1>3. Len(s) \in Nat /\ DOMAIN s = 1 .. Len(s)
  BY <1>2
<1> QED
  BY <1>2, <1>3

LEMMA FinalIs ==
    ASSUME NEW n \in Nat \ {0}
    PROVE  n \in 1 .. n /\ Numbers(n, n) = {1}
<1>1. n - n = 0 /\ 1 .. 1 = {1}
  OBVIOUS
<1> QED
  BY <1>1, Pow2Zero DEF Numbers

LEMMA ShapeIs ==
    ASSUME NEW b, NEW n \in Nat \ {0}, Shape(b, n)
    PROVE  /\ Len(b) = n /\ DOMAIN b = 1 .. n /\ b # <<>>
           /\ FinalMatch(b) = b[n][1]
<1>1. n \in Nat \ {0} /\ b = [r \in 1 .. n |-> b[r]]
  BY DEF Shape
<1>2. Len(b) = n /\ DOMAIN b = 1 .. n
  BY <1>1, LenIs
<1>3. 1 \in DOMAIN b
  BY <1>1, <1>2
<1> QED
  BY <1>1, <1>2, <1>3 DEF FinalMatch

LEMMA SoundIs ==
    ASSUME NEW b, NEW n, Sound(b, n)
    PROVE  /\ n \in Nat \ {0} /\ Len(b) = n /\ DOMAIN b = 1 .. n /\ b # <<>>
           /\ FinalMatch(b) = b[n][1]
BY ShapeIs DEF Sound

LEMMA StartedIs ==
    ASSUME NEW reg, NEW b, NEW n, Started(reg, b, n)
    PROVE  /\ n \in Nat \ {0} /\ Len(b) = n /\ DOMAIN b = 1 .. n /\ b # <<>>
           /\ FinalMatch(b) = b[n][1]
BY ShapeIs DEF Started

\* Registrations stay.
LEMMA StartedMore ==
    ASSUME NEW reg, NEW more, reg \subseteq more, NEW b, NEW n, Started(reg, b, n)
    PROVE  Started(more, b, n)
BY DEF Started, StartIn

-----------------------------------------------------------------------------
(* Results                                                                  *)

\* Two brackets of one shape, of which the second is further on: a match keeps its
\* winner, and a match of the first round its players.
Further(b, c, n) ==
    /\ \A r \in 1 .. n : \A i \in Numbers(n, r) :
         b[r][i].winner # NoPlayer => c[r][i].winner = b[r][i].winner
    /\ \A i \in Numbers(n, 1) : c[1][i].p1 = b[1][i].p1 /\ c[1][i].p2 = b[1][i].p2

\* The matches of a round fed as before.
LEMMA StillFed ==
    ASSUME NEW n \in Nat, NEW b, NEW c, FedFrom(b, n), Further(b, c, n),
           NEW r \in 1 .. n, r >= 2, NEW i \in Numbers(n, r),
           c[r][i].p1 = b[r][i].p1, c[r][i].p2 = b[r][i].p2
    PROVE  /\ c[r][i].p1 \in {NoPlayer, c[r - 1][2 * i - 1].winner}
           /\ c[r][i].p2 \in {NoPlayer, c[r - 1][2 * i].winner}
<1> DEFINE q == r - 1
<1>1. q \in 1 .. n /\ q < n /\ q + 1 = r
  OBVIOUS
<1>2. 2 * i - 1 \in Numbers(n, q) /\ 2 * i \in Numbers(n, q)
  <2> HIDE DEF q
  <2> QED
    BY <1>1, Feeders
<1>3. /\ b[r][i].p1 \in {NoPlayer, b[q][2 * i - 1].winner}
      /\ b[r][i].p2 \in {NoPlayer, b[q][2 * i].winner}
  BY DEF FedFrom
<1> DEFINE j == 2 * i - 1
           k == 2 * i
<1> HIDE DEF q, j, k
<1>4. j \in Numbers(n, q) /\ k \in Numbers(n, q)
  BY <1>2 DEF j, k
<1>5. /\ b[q][j].winner # NoPlayer => c[q][j].winner = b[q][j].winner
      /\ b[q][k].winner # NoPlayer => c[q][k].winner = b[q][k].winner
  BY <1>1, <1>4 DEF Further
<1>6. /\ b[r][i].p1 \in {NoPlayer, b[q][j].winner}
      /\ b[r][i].p2 \in {NoPlayer, b[q][k].winner}
  BY <1>3 DEF j, k
<1> QED
  BY <1>5, <1>6 DEF q, j, k

LEMMA StillOncePlaced ==
    ASSUME NEW n, NEW b, NEW c, Further(b, c, n), OncePlaced(b[1], Numbers(n, 1))
    PROVE  OncePlaced(c[1], Numbers(n, 1))
BY DEF Further, OncePlaced

\* Whatever is reported, the first round keeps its players.
LEMMA ResultsStarted ==
    ASSUME NEW reg, NEW b, NEW n, Started(reg, b, n), NEW results
    PROVE  Started(reg, WithResults(b, results), n)
<1> DEFINE c == WithResults(b, results)
           match(r, i) == IF <<r, i>> \in DOMAIN results
                          THEN [b[r][i] EXCEPT !.winner = results[<<r, i>>]] ELSE b[r][i]
<1>1. /\ n \in Nat \ {0} /\ b = [r \in 1 .. n |-> b[r]] /\ 1 \in 1 .. n
      /\ \A r \in 1 .. n : /\ DOMAIN b[r] = Numbers(n, r)
                           /\ \A i \in Numbers(n, r) : IsMatch(b[r][i])
  BY DEF Started, Shape
<1>2. c = [r \in 1 .. n |-> [i \in Numbers(n, r) |-> match(r, i)]]
  BY <1>1 DEF WithResults
<1>3. \A r \in 1 .. n : DOMAIN c[r] = Numbers(n, r)
                        /\ \A i \in Numbers(n, r) : c[r][i] = match(r, i)
  BY <1>2
<1>4. c = [r \in 1 .. n |-> c[r]]
  BY <1>2
<1> HIDE DEF c
<1>5. ASSUME NEW r \in 1 .. n, NEW i \in Numbers(n, r)
      PROVE  IsMatch(c[r][i]) /\ c[r][i].p1 = b[r][i].p1 /\ c[r][i].p2 = b[r][i].p2
  <2> DEFINE w == results[<<r, i>>]
             m == b[r][i]
  <2>1. c[r][i] = [m EXCEPT !.winner = w] \/ c[r][i] = m
    BY <1>3
  <2>2. IsMatch(m)
    BY <1>1
  <2> HIDE DEF w, m
  <2>3. IsMatch(c[r][i]) /\ c[r][i].p1 = m.p1 /\ c[r][i].p2 = m.p2
    BY <2>1, <2>2 DEF IsMatch
  <2> QED
    BY <2>3 DEF m
<1>6. Shape(c, n)
  BY <1>3, <1>4, <1>5 DEF Shape
<1>7. OncePlaced(c[1], Numbers(n, 1)) /\ StartIn(reg, c, n)
  BY <1>1, <1>5 DEF Started, OncePlaced, StartIn
<1> QED
  BY <1>1, <1>6, <1>7 DEF Started, c

\* Results are given to matches that have two players and no winner.
MayReport(b, n, results) ==
    \A m \in DOMAIN results :
        \E r \in 1 .. n : \E i \in Numbers(n, r) :
            m = <<r, i>> /\ b[r][i].winner = NoPlayer
                         /\ results[m] \in {b[r][i].p1, b[r][i].p2}

LEMMA ResultsSound ==
    ASSUME NEW b, NEW n, Sound(b, n), NEW results, MayReport(b, n, results)
    PROVE  Sound(WithResults(b, results), n)
<1> DEFINE c == WithResults(b, results)
           match(r, i) == IF <<r, i>> \in DOMAIN results
                          THEN [b[r][i] EXCEPT !.winner = results[<<r, i>>]] ELSE b[r][i]
<1>1. /\ n \in Nat \ {0} /\ b = [r \in 1 .. n |-> b[r]]
      /\ \A r \in 1 .. n : /\ DOMAIN b[r] = Numbers(n, r)
                           /\ \A i \in Numbers(n, r) : IsMatch(b[r][i])
  BY DEF Sound, Shape
<1>2. c = [r \in 1 .. n |-> [i \in Numbers(n, r) |-> match(r, i)]]
  BY <1>1 DEF WithResults
<1>3. \A r \in 1 .. n : DOMAIN c[r] = Numbers(n, r)
                        /\ \A i \in Numbers(n, r) : c[r][i] = match(r, i)
  BY <1>2
<1>4. c = [r \in 1 .. n |-> c[r]]
  BY <1>2
<1> HIDE DEF c
<1>5. ASSUME NEW r \in 1 .. n, NEW i \in Numbers(n, r)
      PROVE  /\ IsMatch(c[r][i]) /\ c[r][i].p1 = b[r][i].p1 /\ c[r][i].p2 = b[r][i].p2
             /\ c[r][i].winner \in {NoPlayer, c[r][i].p1, c[r][i].p2}
             /\ b[r][i].winner # NoPlayer => c[r][i].winner = b[r][i].winner
  <2>1. c[r][i] = match(r, i) /\ IsMatch(b[r][i])
        /\ b[r][i].winner \in {NoPlayer, b[r][i].p1, b[r][i].p2}
    BY <1>1, <1>3 DEF Sound, WinnersPlay
  <2>2. CASE <<r, i>> \in DOMAIN results
    <3>1. /\ b[r][i].winner = NoPlayer
          /\ results[<<r, i>>] \in {b[r][i].p1, b[r][i].p2}
      BY <2>2 DEF MayReport
    <3>2. c[r][i] = [b[r][i] EXCEPT !.winner = results[<<r, i>>]]
      BY <2>1, <2>2
    <3> DEFINE w == results[<<r, i>>]
               m == b[r][i]
    <3> HIDE DEF w, m
    <3>3. c[r][i] = [m EXCEPT !.winner = w] /\ IsMatch(m) /\ m.winner = NoPlayer
          /\ w \in {m.p1, m.p2}
      BY <2>1, <3>1, <3>2 DEF w, m
    <3>4. IsMatch(c[r][i]) /\ c[r][i].p1 = m.p1 /\ c[r][i].p2 = m.p2 /\ c[r][i].winner = w
      BY <3>3 DEF IsMatch
    <3> QED
      BY <3>3, <3>4 DEF m
  <2>3. CASE <<r, i>> \notin DOMAIN results
    BY <2>1, <2>3
  <2> QED
    BY <2>2, <2>3
<1>6. 1 \in 1 .. n
  BY <1>1
<1>7. Further(b, c, n)
  BY <1>5, <1>6 DEF Further
<1>8. Shape(c, n)
  BY <1>3, <1>4, <1>5 DEF Shape
<1>9. WinnersPlay(c, n)
  BY <1>5 DEF WinnersPlay
<1>10. FedFrom(c, n)
  <2>1. ASSUME NEW r \in 1 .. n, r >= 2, NEW i \in Numbers(n, r)
        PROVE  /\ c[r][i].p1 \in {NoPlayer, c[r - 1][2 * i - 1].winner}
               /\ c[r][i].p2 \in {NoPlayer, c[r - 1][2 * i].winner}
    <3>1. FedFrom(b, n) /\ n \in Nat
      BY <1>1 DEF Sound
    <3> QED
      BY <1>5, <1>7, <2>1, <3>1, StillFed
  <2> QED
    BY <2>1 DEF FedFrom
<1>11. OncePlaced(c[1], Numbers(n, 1))
  BY <1>7, StillOncePlaced DEF Sound
<1>12. FullStart(c, n) => WaitsForBoth(c, n)
  BY <1>5, <1>6 DEF Sound, FullStart, WaitsForBoth
<1> QED
  BY <1>1, <1>8, <1>9, <1>10, <1>11, <1>12 DEF Sound, c

\* The winner of a report is final.
LEMMA ResultsFinal ==
    ASSUME NEW b, NEW n, Sound(b, n), NEW results
    PROVE  Len(WithResults(b, results)) = n
<1>1. n \in Nat /\ b = [r \in 1 .. n |-> b[r]]
  BY DEF Sound, Shape
<1>2. WithResults(b, results) = [r \in 1 .. n |-> WithResults(b, results)[r]]
  BY <1>1 DEF WithResults
<1> QED
  BY <1>1, <1>2, LenIs

-----------------------------------------------------------------------------
(* Advancing                                                                *)

\* A complete round fills the next one.
LEMMA PopulateSound ==
    ASSUME NEW b, NEW n, Sound(b, n), NEW q \in 1 .. n, q < n, Complete(b[q])
    PROVE  Sound([b EXCEPT ![q + 1] = Populate(b[q], b[q + 1])], n)
<1> DEFINE t == q + 1
           round == Populate(b[q], b[t])
           c == [b EXCEPT ![t] = round]
<1>1. /\ n \in Nat \ {0} /\ b = [r \in 1 .. n |-> b[r]]
      /\ \A r \in 1 .. n : /\ DOMAIN b[r] = Numbers(n, r)
                           /\ \A i \in Numbers(n, r) : IsMatch(b[r][i])
  BY DEF Sound, Shape
<1>2. /\ t \in 1 .. n /\ t >= 2 /\ t - 1 = q
      /\ \A i \in Numbers(n, t) : 2 * i - 1 \in Numbers(n, q) /\ 2 * i \in Numbers(n, q)
  BY <1>1, Feeders
<1> DEFINE a(i) == b[q][2 * i - 1].winner
           z(i) == b[q][2 * i].winner
<1>3. \A j \in Numbers(n, q) : b[q][j].winner # NoPlayer
  BY <1>1 DEF Complete, Range
<1>4. \A i \in Numbers(n, t) : a(i) # NoPlayer /\ z(i) # NoPlayer
  BY <1>2, <1>3
<1>5. round = [i \in Numbers(n, t) |->
                 Pairing(a(i), z(i), IF ByeWinner(a(i), z(i)) = NoPlayer
                                     THEN b[t][i].winner ELSE ByeWinner(a(i), z(i)))]
  BY <1>1, <1>2 DEF Populate
<1>6. \A i \in Numbers(n, t) : round[i] = Pairing(a(i), z(i), b[t][i].winner)
  BY <1>4, <1>5 DEF ByeWinner
<1>7. DOMAIN round = Numbers(n, t)
  BY <1>5
<1> HIDE DEF round
<1>8. /\ c = [r \in 1 .. n |-> c[r]] /\ c[t] = round
      /\ \A r \in 1 .. n : r # t => c[r] = b[r]
  BY <1>1, <1>2
<1> HIDE DEF c
<1>9. ASSUME NEW i \in Numbers(n, t)
      PROVE  /\ IsMatch(c[t][i]) /\ c[t][i].p1 = a(i) /\ c[t][i].p2 = z(i)
             /\ c[t][i].winner = b[t][i].winner
             /\ c[t][i].winner \in {NoPlayer, a(i), z(i)}
  <2>1. c[t][i] = Pairing(a(i), z(i), b[t][i].winner)
    BY <1>6, <1>8
  <2>2. /\ b[t][i].winner \in {NoPlayer, b[t][i].p1, b[t][i].p2}
        /\ b[t][i].p1 \in {NoPlayer, a(i)} /\ b[t][i].p2 \in {NoPlayer, z(i)}
    BY <1>2 DEF Sound, WinnersPlay, FedFrom
  <2> HIDE DEF t
  <2> QED
    BY <2>1, <2>2 DEF Pairing, IsMatch
<1> HIDE DEF t
<1>10. Further(b, c, n)
  <2>1. 1 \in 1 .. n /\ 1 # t
    BY <1>1, <1>2
  <2>2. ASSUME NEW r \in 1 .. n, NEW i \in Numbers(n, r)
        PROVE  c[r][i].winner = b[r][i].winner
    BY <1>8, <1>9, <2>2
  <2> QED
    BY <1>8, <2>1, <2>2 DEF Further
<1>11. Shape(c, n)
  BY <1>1, <1>7, <1>8, <1>9 DEF Shape
<1>12. WinnersPlay(c, n)
  BY <1>8, <1>9 DEF Sound, WinnersPlay
<1>13. FedFrom(c, n)
  <2>1. ASSUME NEW r \in 1 .. n, r >= 2, NEW i \in Numbers(n, r)
        PROVE  /\ c[r][i].p1 \in {NoPlayer, c[r - 1][2 * i - 1].winner}
               /\ c[r][i].p2 \in {NoPlayer, c[r - 1][2 * i].winner}
    <3>1. CASE r = t
      <4>1. c[q] = b[q]
        BY <1>2, <1>8
      <4>2. c[t][i].p1 = c[q][2 * i - 1].winner /\ c[t][i].p2 = c[q][2 * i].winner
        BY <1>9, <3>1, <4>1
      <4> QED
        BY <1>2, <3>1, <4>2
    <3>2. CASE r # t
      <4>1. FedFrom(b, n) /\ n \in Nat /\ c[r] = b[r]
        BY <1>1, <1>8, <3>2 DEF Sound
      <4> QED
        BY <1>10, <2>1, <4>1, StillFed
    <3> QED
      BY <3>1, <3>2
  <2> QED
    BY <2>1 DEF FedFrom
<1>14. OncePlaced(c[1], Numbers(n, 1))
  BY <1>10, StillOncePlaced DEF Sound
<1>15. FullStart(c, n) => WaitsForBoth(c, n)
  <2>1. FullStart(c, n) => FullStart(b, n)
    BY <1>1, <1>10 DEF Further, FullStart
  <2>2. ASSUME WaitsForBoth(b, n), NEW r \in 1 .. n, r >= 2, NEW i \in Numbers(n, r)
        PROVE  c[r][i].p1 = NoPlayer <=> c[r][i].p2 = NoPlayer
    <3>1. CASE r = t
      BY <1>4, <1>9, <3>1
    <3>2. CASE r # t
      BY <1>8, <2>2, <3>2 DEF WaitsForBoth
    <3> QED
      BY <3>1, <3>2
  <2> QED
    BY <2>1, <2>2 DEF Sound, WaitsForBoth
<1> QED
  BY <1>1, <1>11, <1>12, <1>13, <1>14, <1>15 DEF Sound, c, round, t

LEMMA PopulateStarted ==
    ASSUME NEW reg, NEW b, NEW n, Started(reg, b, n), NEW q \in 1 .. n, q < n
    PROVE  Started(reg, [b EXCEPT ![q + 1] = Populate(b[q], b[q + 1])], n)
<1> DEFINE t == q + 1
           round == Populate(b[q], b[t])
           c == [b EXCEPT ![t] = round]
<1>1. /\ n \in Nat \ {0} /\ b = [r \in 1 .. n |-> b[r]]
      /\ \A r \in 1 .. n : /\ DOMAIN b[r] = Numbers(n, r)
                           /\ \A i \in Numbers(n, r) : IsMatch(b[r][i])
  BY DEF Started, Shape
<1>2. t \in 1 .. n /\ 1 \in 1 .. n /\ t # 1
  BY <1>1
<1>3. DOMAIN round = Numbers(n, t)
  BY <1>1, <1>2 DEF Populate
<1>4. \A a, d, w : IsMatch(Pairing(a, d, w))
  BY DEF Pairing, IsMatch
<1>5. \A i \in Numbers(n, t) : IsMatch(round[i])
  BY <1>1, <1>2, <1>4 DEF Populate
<1> HIDE DEF round
<1>6. /\ c = [r \in 1 .. n |-> c[r]] /\ c[t] = round
      /\ \A r \in 1 .. n : r # t => c[r] = b[r]
  BY <1>1, <1>2
<1> HIDE DEF c
<1>7. Shape(c, n)
  BY <1>1, <1>2, <1>3, <1>5, <1>6 DEF Shape
<1>8. c[1] = b[1]
  BY <1>2, <1>6
<1> QED
  BY <1>1, <1>7, <1>8 DEF Started, StartIn, c, round, t

\* The rounds in order, as the loop of the code: after k of them.
Advanced(c, k) ==
    IF Complete(c[k]) THEN [c EXCEPT ![k + 1] = Populate(c[k], @)] ELSE c

IsAdvance(g, b) ==
    g = [i \in 0 .. Len(b) - 1 |-> IF i = 0 THEN b ELSE Advanced(g[i - 1], i)]

Advance(b) == CHOOSE g : IsAdvance(g, b)

LEMMA AdvanceDef == \A b : advanceWinnersToNextRound(b) = Advance(b)[Len(b) - 1]
BY Zenon DEF advanceWinnersToNextRound, Advance, IsAdvance, Advanced

LEMMA AdvancedSound ==
    ASSUME NEW c, NEW n, Sound(c, n), NEW k \in 1 .. n, k < n
    PROVE  Sound(Advanced(c, k), n)
<1>1. CASE Complete(c[k])
  <2>1. Advanced(c, k) = [c EXCEPT ![k + 1] = Populate(c[k], c[k + 1])]
    BY <1>1 DEF Advanced
  <2> QED
    BY <1>1, <2>1, PopulateSound
<1>2. CASE ~Complete(c[k])
  BY <1>2 DEF Advanced
<1> QED
  BY <1>1, <1>2

LEMMA AdvancedStarted ==
    ASSUME NEW reg, NEW c, NEW n, Started(reg, c, n), NEW k \in 1 .. n, k < n
    PROVE  Started(reg, Advanced(c, k), n)
<1>1. CASE Complete(c[k])
  <2>1. Advanced(c, k) = [c EXCEPT ![k + 1] = Populate(c[k], c[k + 1])]
    BY <1>1 DEF Advanced
  <2>2. Started(reg, [c EXCEPT ![k + 1] = Populate(c[k], c[k + 1])], n)
    BY PopulateStarted
  <2> QED
    BY <2>1, <2>2
<1>2. CASE ~Complete(c[k])
  BY <1>2 DEF Advanced
<1> QED
  BY <1>1, <1>2

AdvancedTo(g, b, m) == g = [i \in 0 .. m |-> IF i = 0 THEN b ELSE Advanced(g[i - 1], i)]

LEMMA AdvanceGoesOn ==
    ASSUME NEW m \in Nat, NEW b, NEW g, AdvancedTo(g, b, m)
    PROVE  \E h : AdvancedTo(h, b, m + 1)
<1> DEFINE v == Advanced(g[m], m + 1)
           h == [i \in 0 .. m + 1 |-> IF i = m + 1 THEN v ELSE g[i]]
           f == [i \in 0 .. m + 1 |-> IF i = 0 THEN b ELSE Advanced(h[i - 1], i)]
<1>1. ASSUME NEW i \in 0 .. m + 1
      PROVE  h[i] = f[i]
  <2>1. CASE i = 0
    <3>1. h[i] = g[0] /\ g[0] = b /\ f[i] = b
      BY <2>1 DEF AdvancedTo
    <3> QED
      BY <3>1
  <2>2. CASE i = m + 1
    <3>1. i # 0 /\ i - 1 = m /\ m \in 0 .. m + 1 /\ m # m + 1
      BY <2>2
    <3>2. h[m] = g[m] /\ h[i] = v
      BY <2>2, <3>1
    <3>3. f[i] = Advanced(h[i - 1], i)
      BY <3>1
    <3> QED
      BY <2>2, <3>1, <3>2, <3>3
  <2>3. CASE i # 0 /\ i # m + 1
    <3>1. i \in 0 .. m /\ i - 1 \in 0 .. m + 1 /\ i - 1 # m + 1
      BY <2>3
    <3>2. h[i] = g[i] /\ h[i - 1] = g[i - 1]
      BY <2>3, <3>1
    <3>3. g[i] = Advanced(g[i - 1], i)
      BY <2>3, <3>1 DEF AdvancedTo
    <3>4. f[i] = Advanced(h[i - 1], i)
      BY <2>3
    <3> QED
      BY <3>2, <3>3, <3>4
  <2> QED
    BY <2>1, <2>2, <2>3
<1>2. h = [i \in 0 .. m + 1 |-> h[i]] /\ f = [i \in 0 .. m + 1 |-> f[i]]
  OBVIOUS
<1>3. [i \in 0 .. m + 1 |-> h[i]] = [i \in 0 .. m + 1 |-> f[i]]
  <2> HIDE DEF h, f
  <2> QED
    BY <1>1
<1>4. h = f
  <2> HIDE DEF h, f
  <2> QED
    BY <1>2, <1>3
<1>5. AdvancedTo(h, b, m + 1)
  <2> HIDE DEF h
  <2> QED
    BY <1>4 DEF AdvancedTo
<1> QED
  BY <1>5

LEMMA AdvanceIs ==
    ASSUME NEW b, NEW n \in Nat \ {0}, Len(b) = n
    PROVE  AdvancedTo(Advance(b), b, n - 1)
<1> DEFINE S == {m \in 0 .. n - 1 : \E g : AdvancedTo(g, b, m)}
<1>1. 0 \in S
  <2> DEFINE g == [i \in 0 .. 0 |-> b]
  <2>1. g = [i \in 0 .. 0 |-> IF i = 0 THEN b ELSE Advanced(g[i - 1], i)]
    OBVIOUS
  <2>2. AdvancedTo(g, b, 0)
    BY <2>1 DEF AdvancedTo
  <2> HIDE DEF g
  <2> QED
    BY <2>2
<1>2. ASSUME NEW m \in 0 .. n - 1, m \in S, m < n - 1
      PROVE  m + 1 \in S
  <2>1. PICK g : AdvancedTo(g, b, m)
    BY <1>2
  <2>2. m \in Nat /\ m + 1 \in 0 .. n - 1
    BY <1>2
  <2> QED
    BY <2>1, <2>2, AdvanceGoesOn
<1> HIDE DEF S
<1>3. n - 1 \in Nat
  OBVIOUS
<1>4. n - 1 \in S
  BY <1>1, <1>2, <1>3, UpTo
<1>5. PICK g : AdvancedTo(g, b, n - 1)
  BY <1>4 DEF S
<1>6. IsAdvance(g, b)
  BY <1>5 DEF IsAdvance, AdvancedTo
<1>7. IsAdvance(Advance(b), b)
  BY <1>6 DEF Advance
<1> QED
  BY <1>7 DEF IsAdvance, AdvancedTo

\* Advancing leaves a sound bracket.
LEMMA AdvanceSound ==
    ASSUME NEW b, NEW n, Sound(b, n)
    PROVE  Sound(advanceWinnersToNextRound(b), n)
<1> DEFINE g == Advance(b)
<1>1. n \in Nat \ {0} /\ Len(b) = n
  BY SoundIs
<1>2. AdvancedTo(g, b, n - 1)
  BY <1>1, AdvanceIs
<1>3. advanceWinnersToNextRound(b) = g[n - 1]
  BY <1>1, AdvanceDef
<1> HIDE DEF g
<1>4. g[0] = b /\ \A i \in 0 .. n - 1 : i # 0 => g[i] = Advanced(g[i - 1], i)
  BY <1>1, <1>2 DEF AdvancedTo
<1> DEFINE S == {k \in 0 .. n - 1 : Sound(g[k], n)}
<1>5. 0 \in S
  BY <1>1, <1>4
<1>6. ASSUME NEW k \in 0 .. n - 1, k \in S, k < n - 1
      PROVE  k + 1 \in S
  <2>1. /\ k + 1 \in 0 .. n - 1 /\ k + 1 # 0 /\ (k + 1) - 1 = k
        /\ k + 1 \in 1 .. n /\ k + 1 < n
    BY <1>1, <1>6
  <2>2. g[k + 1] = Advanced(g[k], k + 1)
    BY <1>4, <2>1
  <2>3. Sound(g[k], n)
    BY <1>6
  <2>4. Sound(Advanced(g[k], k + 1), n)
    BY <2>1, <2>3, AdvancedSound
  <2> QED
    BY <2>1, <2>2, <2>4
<1>7. n - 1 \in Nat /\ n - 1 \in 0 .. n - 1
  BY <1>1
<1> HIDE DEF S
<1>8. n - 1 \in S
  BY <1>5, <1>6, <1>7, UpTo
<1> QED
  BY <1>3, <1>8 DEF S

LEMMA AdvanceStarted ==
    ASSUME NEW reg, NEW b, NEW n, Started(reg, b, n)
    PROVE  Started(reg, advanceWinnersToNextRound(b), n)
<1> DEFINE g == Advance(b)
<1>1. n \in Nat \ {0} /\ Len(b) = n
  BY StartedIs
<1>2. AdvancedTo(g, b, n - 1)
  BY <1>1, AdvanceIs
<1>3. advanceWinnersToNextRound(b) = g[n - 1]
  BY <1>1, AdvanceDef
<1> HIDE DEF g
<1>4. g[0] = b /\ \A i \in 0 .. n - 1 : i # 0 => g[i] = Advanced(g[i - 1], i)
  BY <1>1, <1>2 DEF AdvancedTo
<1> DEFINE S == {k \in 0 .. n - 1 : Started(reg, g[k], n)}
<1>5. 0 \in S
  BY <1>1, <1>4
<1>6. ASSUME NEW k \in 0 .. n - 1, k \in S, k < n - 1
      PROVE  k + 1 \in S
  <2>1. /\ k + 1 \in 0 .. n - 1 /\ k + 1 # 0 /\ (k + 1) - 1 = k
        /\ k + 1 \in 1 .. n /\ k + 1 < n
    BY <1>1, <1>6
  <2>2. g[k + 1] = Advanced(g[k], k + 1)
    BY <1>4, <2>1
  <2>3. Started(reg, g[k], n)
    BY <1>6
  <2>4. Started(reg, Advanced(g[k], k + 1), n)
    BY <2>1, <2>3, AdvancedStarted
  <2> QED
    BY <2>1, <2>2, <2>4
<1>7. n - 1 \in Nat /\ n - 1 \in 0 .. n - 1
  BY <1>1
<1> HIDE DEF S
<1>8. n - 1 \in S
  BY <1>5, <1>6, <1>7, UpTo
<1> QED
  BY <1>3, <1>8 DEF S

-----------------------------------------------------------------------------
(* Generation                                                               *)

RoundOf(slots) ==
    [i \in 1 .. Len(slots) \div 2 |->
       Pairing(slots[2 * i - 1], slots[2 * i], ByeWinner(slots[2 * i - 1], slots[2 * i]))]

Slots(seeds, n, g, r) ==
    IF r = 1 THEN [i \in 1 .. Pow2(n) |-> IF i <= Len(seeds) THEN seeds[i] ELSE NoPlayer]
             ELSE [i \in DOMAIN g[r - 1] |-> g[r - 1][i].winner]

RoundsTo(g, seeds, n, m) == g = [r \in 1 .. m |-> RoundOf(Slots(seeds, n, g, r))]

Rounds(seeds, n) == CHOOSE g : RoundsTo(g, seeds, n, n)

LEMMA GenerateDef ==
    \A seeds : generateBracketStructure(seeds)
                 = [r \in 1 .. numRounds(Len(seeds)) |->
                      Rounds(seeds, numRounds(Len(seeds)))[r]]
BY Zenon DEF generateBracketStructure, Rounds, RoundsTo, RoundOf, Slots

LEMMA numRoundsIs ==
    ASSUME NEW k \in Nat, k >= 2
    PROVE  numRounds(k) \in Nat \ {0}
<1> DEFINE S == {j \in 0 .. k : Pow2(j) >= k}
<1>1. k \in S
  BY Pow2Type
<1>2. S \in SUBSET Nat
  OBVIOUS
<1>3. Min(S) \in S
  <2> HIDE DEF S
  <2> QED
    BY <1>1, <1>2, MinOfNaturals
<1>4. 0 \notin S
  BY Pow2Zero
<1> QED
  BY <1>3, <1>4 DEF numRounds

LEMMA RoundsGoOn ==
    ASSUME NEW m \in Nat, NEW n, NEW seeds, NEW g, RoundsTo(g, seeds, n, m)
    PROVE  \E h : RoundsTo(h, seeds, n, m + 1)
<1> DEFINE v == RoundOf(Slots(seeds, n, g, m + 1))
           h == [r \in 1 .. m + 1 |-> IF r = m + 1 THEN v ELSE g[r]]
           f == [r \in 1 .. m + 1 |-> RoundOf(Slots(seeds, n, h, r))]
<1>1. ASSUME NEW r \in 1 .. m + 1
      PROVE  Slots(seeds, n, h, r) = Slots(seeds, n, g, r)
  <2>1. CASE r = 1
    BY <2>1 DEF Slots
  <2>2. CASE r # 1
    <3>1. r - 1 \in 1 .. m + 1 /\ r - 1 # m + 1
      BY <2>2
    <3>2. h[r - 1] = g[r - 1]
      BY <3>1
    <3> HIDE DEF h
    <3> QED
      BY <2>2, <3>2 DEF Slots
  <2> QED
    BY <2>1, <2>2
<1>2. ASSUME NEW r \in 1 .. m + 1
      PROVE  h[r] = f[r]
  <2>1. f[r] = RoundOf(Slots(seeds, n, g, r))
    <3>1. f[r] = RoundOf(Slots(seeds, n, h, r))
      OBVIOUS
    <3> QED
      BY <1>1, <3>1
  <2>2. CASE r = m + 1
    <3>1. h[r] = v
      BY <2>2
    <3> QED
      BY <2>1, <2>2, <3>1
  <2>3. CASE r # m + 1
    <3>1. r \in 1 .. m /\ h[r] = g[r]
      BY <2>3
    <3>2. g[r] = RoundOf(Slots(seeds, n, g, r))
      BY <3>1 DEF RoundsTo
    <3> QED
      BY <2>1, <3>1, <3>2
  <2> QED
    BY <2>2, <2>3
<1>3. h = [r \in 1 .. m + 1 |-> h[r]] /\ f = [r \in 1 .. m + 1 |-> f[r]]
  OBVIOUS
<1>4. [r \in 1 .. m + 1 |-> h[r]] = [r \in 1 .. m + 1 |-> f[r]]
  <2> HIDE DEF h, f
  <2> QED
    BY <1>2
<1>5. h = f
  <2> HIDE DEF h, f
  <2> QED
    BY <1>3, <1>4
<1>6. RoundsTo(h, seeds, n, m + 1)
  <2> HIDE DEF h
  <2> QED
    BY <1>5 DEF RoundsTo
<1> QED
  BY <1>6

LEMMA RoundsAre ==
    ASSUME NEW n \in Nat, NEW seeds
    PROVE  RoundsTo(Rounds(seeds, n), seeds, n, n)
<1> DEFINE S == {m \in 0 .. n : \E g : RoundsTo(g, seeds, n, m)}
<1>1. 0 \in S
  <2> DEFINE g == [r \in 1 .. 0 |-> 0]
  <2>1. 1 .. 0 = {}
    OBVIOUS
  <2>2. g = [r \in 1 .. 0 |-> RoundOf(Slots(seeds, n, g, r))]
    BY <2>1
  <2>3. RoundsTo(g, seeds, n, 0)
    BY <2>2 DEF RoundsTo
  <2> HIDE DEF g
  <2> QED
    BY <2>3
<1>2. ASSUME NEW m \in 0 .. n, m \in S, m < n
      PROVE  m + 1 \in S
  <2>1. PICK g : RoundsTo(g, seeds, n, m)
    BY <1>2
  <2>2. m \in Nat /\ m + 1 \in 0 .. n
    BY <1>2
  <2> QED
    BY <2>1, <2>2, RoundsGoOn
<1> HIDE DEF S
<1>3. n \in S
  BY <1>1, <1>2, UpTo
<1>4. PICK g : RoundsTo(g, seeds, n, n)
  BY <1>3 DEF S
<1> QED
  BY <1>4 DEF Rounds

LEMMA ByeWinnerIs ==
    /\ \A a, b : ByeWinner(a, b) \in {NoPlayer, a, b}
    /\ \A a, b : a # NoPlayer /\ b # NoPlayer => ByeWinner(a, b) = NoPlayer
    /\ ByeWinner(NoPlayer, NoPlayer) = NoPlayer
BY DEF ByeWinner

\* The round of 2k slots.
Byed(m) == IsMatch(m) /\ m.winner = ByeWinner(m.p1, m.p2)

RoundIs(round, k, slots) ==
    /\ DOMAIN round = 1 .. k
    /\ \A i \in 1 .. k : /\ Byed(round[i])
                         /\ round[i].p1 = slots[2 * i - 1] /\ round[i].p2 = slots[2 * i]

LEMMA RoundOfIs ==
    ASSUME NEW k \in Nat, NEW slots, slots = [i \in 1 .. 2 * k |-> slots[i]]
    PROVE  RoundIs(RoundOf(slots), k, slots)
<1>1. 2 * k \in Nat
  OBVIOUS
<1>2. Len(slots) = 2 * k
  BY <1>1, LenIs
<1>3. Len(slots) \div 2 = k
  BY <1>2
<1>4. RoundOf(slots)
        = [i \in 1 .. k |-> Pairing(slots[2 * i - 1], slots[2 * i],
                                    ByeWinner(slots[2 * i - 1], slots[2 * i]))]
  BY <1>3 DEF RoundOf
<1>5. ASSUME NEW m, NEW a, NEW b, m = Pairing(a, b, ByeWinner(a, b))
      PROVE  Byed(m) /\ m.p1 = a /\ m.p2 = b
  <2>1. m.p1 = a /\ m.p2 = b /\ m.winner = ByeWinner(a, b) /\ IsMatch(m)
    BY <1>5 DEF Pairing, IsMatch
  <2> QED
    BY <2>1 DEF Byed
<1>6. ASSUME NEW i \in 1 .. k
      PROVE  /\ Byed(RoundOf(slots)[i])
             /\ RoundOf(slots)[i].p1 = slots[2 * i - 1]
             /\ RoundOf(slots)[i].p2 = slots[2 * i]
  <2>1. RoundOf(slots)[i] = Pairing(slots[2 * i - 1], slots[2 * i],
                                    ByeWinner(slots[2 * i - 1], slots[2 * i]))
    BY <1>4
  <2> QED
    BY <1>5, <2>1
<1>7. DOMAIN RoundOf(slots) = 1 .. k
  BY <1>4
<1> QED
  BY <1>6, <1>7 DEF RoundIs

\* What is generated: the first round from the seeds, each later one from the
\* winners of the one before.
Seed(seeds, i) == IF i <= Len(seeds) THEN seeds[i] ELSE NoPlayer

FirstFrom(round, places, seeds) ==
    /\ DOMAIN round = places
    /\ \A i \in places : /\ Byed(round[i])
                         /\ round[i].p1 = Seed(seeds, 2 * i - 1)
                         /\ round[i].p2 = Seed(seeds, 2 * i)

NextFrom(round, next, places) ==
    /\ DOMAIN next = places
    /\ \A i \in places : /\ Byed(next[i])
                         /\ next[i].p1 = round[2 * i - 1].winner
                         /\ next[i].p2 = round[2 * i].winner

Generated(b, n, seeds) ==
    /\ b = [r \in 1 .. n |-> b[r]]
    /\ FirstFrom(b[1], Numbers(n, 1), seeds)
    /\ \A q \in 1 .. n : q < n => NextFrom(b[q], b[q + 1], Numbers(n, q + 1))

LEMMA FirstRoundIs ==
    ASSUME NEW n \in Nat \ {0}, NEW seeds, NEW g, RoundsTo(g, seeds, n, n)
    PROVE  FirstFrom(g[1], Numbers(n, 1), seeds)
<1> DEFINE p == Pow2(n - 1)
           slots == [i \in 1 .. 2 * p |-> Seed(seeds, i)]
<1>1. n - 1 \in Nat /\ (n - 1) + 1 = n /\ 1 \in 1 .. n
  OBVIOUS
<1>2. p \in Nat /\ Pow2(n) = 2 * p
  BY <1>1, Pow2Next, Pow2Type
<1>3. Slots(seeds, n, g, 1) = slots
  BY <1>2 DEF Slots, Seed
<1>4. g[1] = RoundOf(slots)
  BY <1>1, <1>3 DEF RoundsTo
<1>5. slots = [i \in 1 .. 2 * p |-> slots[i]]
  OBVIOUS
<1>6. RoundIs(g[1], p, slots)
  <2> HIDE DEF slots, p
  <2> QED
    BY <1>2, <1>4, <1>5, RoundOfIs
<1> HIDE DEF p
<1>7. \A i \in 1 .. p : 2 * i - 1 \in 1 .. 2 * p /\ 2 * i \in 1 .. 2 * p
  BY <1>2
<1>8. \A i \in 1 .. p : slots[2 * i - 1] = Seed(seeds, 2 * i - 1)
                        /\ slots[2 * i] = Seed(seeds, 2 * i)
  BY <1>7
<1> HIDE DEF slots
<1>9. Numbers(n, 1) = 1 .. p
  BY DEF p, Numbers
<1> QED
  BY <1>6, <1>8, <1>9 DEF RoundIs, FirstFrom

LEMMA LaterRoundIs ==
    ASSUME NEW n \in Nat \ {0}, NEW seeds, NEW g, RoundsTo(g, seeds, n, n),
           NEW q \in 1 .. n, q < n, DOMAIN g[q] = Numbers(n, q)
    PROVE  NextFrom(g[q], g[q + 1], Numbers(n, q + 1))
<1> DEFINE r == q + 1
           p == Pow2(n - r)
           slots == [i \in 1 .. 2 * p |-> g[q][i].winner]
<1>1. /\ r \in 1 .. n /\ r # 1 /\ r - 1 = q /\ p \in Nat /\ Pow2(n - q) = 2 * p
      /\ \A i \in Numbers(n, r) : 2 * i - 1 \in Numbers(n, q) /\ 2 * i \in Numbers(n, q)
  <2>1. n \in Nat
    OBVIOUS
  <2>2. /\ Pow2(n - q) = 2 * Pow2(n - r) /\ Pow2(n - r) \in Nat /\ r \in 1 .. n
        /\ \A i \in Numbers(n, r) : 2 * i - 1 \in Numbers(n, q) /\ 2 * i \in Numbers(n, q)
    BY <2>1, Feeders
  <2> HIDE DEF p, slots
  <2>3. r # 1 /\ r - 1 = q
    OBVIOUS
  <2> QED
    BY <2>2, <2>3 DEF p
<1>2. Numbers(n, q) = 1 .. 2 * p /\ Numbers(n, r) = 1 .. p
  BY <1>1 DEF Numbers
<1>3. Slots(seeds, n, g, r) = slots
  BY <1>1, <1>2 DEF Slots
<1>4. g[r] = RoundOf(slots)
  BY <1>1, <1>3 DEF RoundsTo
<1> HIDE DEF p, r
<1>5. slots = [i \in 1 .. 2 * p |-> slots[i]]
  OBVIOUS
<1>6. RoundIs(g[r], p, slots)
  <2> HIDE DEF slots
  <2> QED
    BY <1>1, <1>4, <1>5, RoundOfIs
<1>7. \A i \in 1 .. p : /\ slots[2 * i - 1] = g[q][2 * i - 1].winner
                        /\ slots[2 * i] = g[q][2 * i].winner
  BY <1>1, <1>2
<1> HIDE DEF slots
<1> QED
  BY <1>2, <1>6, <1>7 DEF r, RoundIs, NextFrom

LEMMA GeneratedIs ==
    ASSUME NEW seeds, NEW n \in Nat \ {0}, numRounds(Len(seeds)) = n
    PROVE  Generated(generateBracketStructure(seeds), n, seeds)
<1> DEFINE g == Rounds(seeds, n)
           b == generateBracketStructure(seeds)
<1>1. RoundsTo(g, seeds, n, n)
  BY RoundsAre
<1>2. b = [r \in 1 .. n |-> g[r]]
  BY GenerateDef
<1> HIDE DEF g, b
<1>3. g = [r \in 1 .. n |-> g[r]]
  BY <1>1 DEF RoundsTo
<1>4. b = g
  BY <1>2, <1>3
<1> DEFINE S == {k \in 0 .. n - 1 : DOMAIN g[k + 1] = Numbers(n, k + 1)}
<1>5. FirstFrom(g[1], Numbers(n, 1), seeds)
  BY <1>1, FirstRoundIs
<1>6. 0 \in S
  BY <1>5 DEF FirstFrom
<1>7. ASSUME NEW k \in 0 .. n - 1, k \in S, k < n - 1
      PROVE  k + 1 \in S
  <2> DEFINE q == k + 1
  <2>1. q \in 1 .. n /\ q < n /\ q \in 0 .. n - 1 /\ DOMAIN g[q] = Numbers(n, q)
    BY <1>7
  <2> HIDE DEF q
  <2>2. DOMAIN g[q + 1] = Numbers(n, q + 1)
    BY <1>1, <2>1, LaterRoundIs DEF NextFrom
  <2>3. q \in S
    BY <2>1, <2>2
  <2> QED
    BY <2>3 DEF q
<1>8. n - 1 \in Nat
  OBVIOUS
<1>9. ASSUME NEW q \in 1 .. n, q < n
      PROVE  NextFrom(g[q], g[q + 1], Numbers(n, q + 1))
  <2> DEFINE k == q - 1
  <2>1. k \in 0 .. n - 1 /\ k + 1 = q
    OBVIOUS
  <2> HIDE DEF k
  <2>2. k \in S
    <3> HIDE DEF S
    <3> QED
      BY <1>6, <1>7, <1>8, <2>1, UpTo
  <2>3. DOMAIN g[k + 1] = Numbers(n, k + 1)
    BY <2>2
  <2>4. DOMAIN g[q] = Numbers(n, q)
    BY <2>1, <2>3
  <2> QED
    BY <1>1, <1>9, <2>4, LaterRoundIs
<1>10. Generated(g, n, seeds)
  BY <1>3, <1>5, <1>9 DEF Generated
<1> QED
  BY <1>4, <1>10 DEF b

\* Round by round.
LEMMA RoundGenerated ==
    ASSUME NEW b, NEW n \in Nat \ {0}, NEW seeds, Generated(b, n, seeds),
           NEW r \in 1 .. n
    PROVE  /\ DOMAIN b[r] = Numbers(n, r) /\ \A i \in Numbers(n, r) : Byed(b[r][i])
           /\ r >= 2 => \A i \in Numbers(n, r) :
                /\ b[r][i].p1 = b[r - 1][2 * i - 1].winner
                /\ b[r][i].p2 = b[r - 1][2 * i].winner
<1>1. CASE r = 1
  BY <1>1 DEF Generated, FirstFrom
<1>2. CASE r # 1
  <2> DEFINE q == r - 1
  <2>1. q \in 1 .. n /\ q < n /\ q + 1 = r
    BY <1>2
  <2> HIDE DEF q
  <2>2. NextFrom(b[q], b[r], Numbers(n, r))
    BY <2>1 DEF Generated
  <2> QED
    BY <2>2 DEF NextFrom, q
<1> QED
  BY <1>1, <1>2

\* Without byes nobody has won in a generated bracket.
LEMMA NobodyWon ==
    ASSUME NEW b, NEW n \in Nat \ {0}, NEW seeds, Generated(b, n, seeds), FullStart(b, n)
    PROVE  \A r \in 1 .. n : \A i \in Numbers(n, r) : b[r][i].winner = NoPlayer
<1> DEFINE S == {k \in 0 .. n - 1 :
                   \A i \in Numbers(n, k + 1) : b[k + 1][i].winner = NoPlayer}
<1>1. 0 \in S
  <2>1. 1 \in 1 .. n
    OBVIOUS
  <2>2. \A i \in Numbers(n, 1) : b[1][i].winner = ByeWinner(b[1][i].p1, b[1][i].p2)
    BY <2>1, RoundGenerated DEF Byed
  <2>3. \A i \in Numbers(n, 1) : b[1][i].winner = NoPlayer
    BY <2>2, ByeWinnerIs DEF FullStart
  <2> QED
    BY <2>3
<1>2. ASSUME NEW k \in 0 .. n - 1, k \in S, k < n - 1
      PROVE  k + 1 \in S
  <2> DEFINE q == k + 1
             r == q + 1
  <2>1. q \in 1 .. n /\ q < n /\ q \in 0 .. n - 1
        /\ \A i \in Numbers(n, q) : b[q][i].winner = NoPlayer
    BY <1>2
  <2> HIDE DEF q
  <2>2. /\ r \in 1 .. n /\ r >= 2 /\ r - 1 = q
        /\ \A i \in Numbers(n, r) : 2 * i - 1 \in Numbers(n, q) /\ 2 * i \in Numbers(n, q)
    BY <2>1, Feeders
  <2> HIDE DEF r
  <2>3. \A i \in Numbers(n, r) :
          /\ b[r][i].p1 = b[r - 1][2 * i - 1].winner
          /\ b[r][i].p2 = b[r - 1][2 * i].winner
          /\ b[r][i].winner = ByeWinner(b[r][i].p1, b[r][i].p2)
    BY <2>2, RoundGenerated DEF Byed
  <2>4. \A i \in Numbers(n, r) : b[r][i].p1 = NoPlayer /\ b[r][i].p2 = NoPlayer
    BY <2>1, <2>2, <2>3
  <2>5. \A i \in Numbers(n, r) : b[r][i].winner = NoPlayer
    BY <2>3, <2>4, ByeWinnerIs
  <2>6. q \in S
    BY <2>1, <2>5 DEF r
  <2> QED
    BY <2>6 DEF q
<1>3. n - 1 \in Nat
  OBVIOUS
<1>4. ASSUME NEW r \in 1 .. n
      PROVE  \A i \in Numbers(n, r) : b[r][i].winner = NoPlayer
  <2> DEFINE k == r - 1
  <2>1. k \in 0 .. n - 1 /\ k + 1 = r
    OBVIOUS
  <2> HIDE DEF k
  <2>2. k \in S
    <3> HIDE DEF S
    <3> QED
      BY <1>1, <1>2, <1>3, <2>1, UpTo
  <2>3. \A i \in Numbers(n, k + 1) : b[k + 1][i].winner = NoPlayer
    BY <2>2
  <2> QED
    BY <2>1, <2>3
<1> QED
  BY <1>4

\* A generated bracket of distinct players is sound.
LEMMA GeneratedSound ==
    ASSUME NEW seeds, Len(seeds) \in Nat, Len(seeds) >= 2,
           \A i \in 1 .. Len(seeds) : seeds[i] # NoPlayer,
           \A i, j \in 1 .. Len(seeds) : seeds[i] = seeds[j] => i = j
    PROVE  Sound(generateBracketStructure(seeds), numRounds(Len(seeds)))
<1> DEFINE b == generateBracketStructure(seeds)
           n == numRounds(Len(seeds))
<1>1. n \in Nat \ {0}
  BY numRoundsIs
<1>2. Generated(b, n, seeds)
  BY <1>1, GeneratedIs
<1> HIDE DEF b, n
<1>3. Shape(b, n)
  BY <1>1, <1>2, RoundGenerated DEF Generated, Shape, Byed
<1>4. WinnersPlay(b, n)
  <2>1. ASSUME NEW r \in 1 .. n, NEW i \in Numbers(n, r)
        PROVE  b[r][i].winner = ByeWinner(b[r][i].p1, b[r][i].p2)
    BY <1>1, <1>2, RoundGenerated DEF Byed
  <2> QED
    BY <2>1, ByeWinnerIs DEF WinnersPlay
<1>5. FedFrom(b, n)
  BY <1>1, <1>2, RoundGenerated DEF FedFrom
<1>6. OncePlaced(b[1], Numbers(n, 1))
  <2>1. \A i \in Numbers(n, 1) : /\ b[1][i].p1 = Seed(seeds, 2 * i - 1)
                                 /\ b[1][i].p2 = Seed(seeds, 2 * i)
    BY <1>2 DEF Generated, FirstFrom
  <2>2. n - 1 \in Nat
    BY <1>1
  <2>3. Pow2(n - 1) \in Nat
    BY <2>2, Pow2Type
  <2>4. \A i \in Numbers(n, 1) : i \in Nat /\ i >= 1
    BY <2>3 DEF Numbers
  <2>5. \A k \in Nat : k >= 1 /\ Seed(seeds, k) # NoPlayer
                         => k \in 1 .. Len(seeds) /\ Seed(seeds, k) = seeds[k]
    BY DEF Seed
  <2>6. ASSUME NEW i \in Numbers(n, 1), NEW j \in Numbers(n, 1)
        PROVE  /\ b[1][i].p1 = b[1][j].p1 => b[1][i].p1 = NoPlayer \/ i = j
               /\ b[1][i].p2 = b[1][j].p2 => b[1][i].p2 = NoPlayer \/ i = j
               /\ b[1][i].p1 = b[1][j].p2 => b[1][i].p1 = NoPlayer
    <3> DEFINE o(k) == 2 * k - 1
               e(k) == 2 * k
    <3>1. i \in Nat /\ j \in Nat /\ i >= 1 /\ j >= 1
      BY <2>4
    <3>2. /\ o(i) \in Nat /\ o(j) \in Nat /\ e(i) \in Nat /\ e(j) \in Nat
          /\ o(i) >= 1 /\ o(j) >= 1 /\ e(i) >= 1 /\ e(j) >= 1
          /\ o(i) # e(j) /\ (o(i) = o(j) => i = j) /\ (e(i) = e(j) => i = j)
      BY <3>1
    <3>3. /\ b[1][i].p1 = Seed(seeds, o(i)) /\ b[1][i].p2 = Seed(seeds, e(i))
          /\ b[1][j].p1 = Seed(seeds, o(j)) /\ b[1][j].p2 = Seed(seeds, e(j))
      BY <2>1
    <3> HIDE DEF o, e
    <3>4. \A k, m \in Nat : k >= 1 /\ m >= 1 /\ Seed(seeds, k) = Seed(seeds, m)
                              => Seed(seeds, k) = NoPlayer \/ k = m
      <4> SUFFICES ASSUME NEW k \in Nat, NEW m \in Nat, k >= 1, m >= 1,
                          Seed(seeds, k) = Seed(seeds, m), Seed(seeds, k) # NoPlayer
                   PROVE  k = m
        OBVIOUS
      <4>1. k \in 1 .. Len(seeds) /\ m \in 1 .. Len(seeds) /\ seeds[k] = seeds[m]
        BY <2>5
      <4> QED
        BY <4>1
    <3> QED
      BY <3>2, <3>3, <3>4
  <2> QED
    BY <2>6 DEF OncePlaced
<1>7. FullStart(b, n) => WaitsForBoth(b, n)
  <2> SUFFICES ASSUME FullStart(b, n), NEW r \in 1 .. n, r >= 2, NEW i \in Numbers(n, r)
               PROVE  b[r][i].p1 = NoPlayer <=> b[r][i].p2 = NoPlayer
    BY DEF WaitsForBoth
  <2> DEFINE q == r - 1
  <2>1. q \in 1 .. n /\ q < n /\ q + 1 = r
    BY <1>1
  <2> HIDE DEF q
  <2>2. 2 * i - 1 \in Numbers(n, q) /\ 2 * i \in Numbers(n, q)
    BY <1>1, <2>1, Feeders
  <2>3. \A j \in Numbers(n, q) : b[q][j].winner = NoPlayer
    BY <1>1, <1>2, <2>1, NobodyWon
  <2>4. b[r][i].p1 = b[q][2 * i - 1].winner /\ b[r][i].p2 = b[q][2 * i].winner
    BY <1>1, <1>2, RoundGenerated DEF q
  <2> QED
    BY <2>2, <2>3, <2>4
<1> QED
  BY <1>1, <1>3, <1>4, <1>5, <1>6, <1>7 DEF Sound, b, n

LEMMA GeneratedStarted ==
    ASSUME NEW reg, NEW seeds, Len(seeds) \in Nat, Len(seeds) >= 2,
           \A i \in 1 .. Len(seeds) : seeds[i] \in reg,
           Sound(generateBracketStructure(seeds), numRounds(Len(seeds)))
    PROVE  Started(reg, generateBracketStructure(seeds), numRounds(Len(seeds)))
<1> DEFINE b == generateBracketStructure(seeds)
           n == numRounds(Len(seeds))
<1>1. n \in Nat \ {0}
  BY numRoundsIs
<1>2. Generated(b, n, seeds)
  BY <1>1, GeneratedIs
<1> HIDE DEF b, n
<1>3. StartIn(reg, b, n)
  <2>1. \A i \in Numbers(n, 1) : /\ b[1][i].p1 = Seed(seeds, 2 * i - 1)
                                 /\ b[1][i].p2 = Seed(seeds, 2 * i)
    BY <1>2 DEF Generated, FirstFrom
  <2>2. n - 1 \in Nat
    BY <1>1
  <2>3. Pow2(n - 1) \in Nat
    BY <2>2, Pow2Type
  <2>4. \A i \in Numbers(n, 1) : 2 * i - 1 \in Nat \ {0} /\ 2 * i \in Nat \ {0}
    BY <2>3 DEF Numbers
  <2>5. \A k \in Nat \ {0} : Seed(seeds, k) \in reg \cup {NoPlayer}
    BY DEF Seed
  <2> QED
    BY <2>1, <2>4, <2>5 DEF StartIn
<1>4. Sound(b, n)
  BY DEF b, n
<1> QED
  BY <1>3, <1>4 DEF Started, Sound, b, n

-----------------------------------------------------------------------------
(* What a sound bracket decides                                             *)

Starting(b) == UNION {Entrants(m) : m \in Range(b[1])}

LEMMA SoundFed ==
    ASSUME NEW b, NEW n, Sound(b, n)
    PROVE  Fed(b)
<1>1. n \in Nat \ {0} /\ Len(b) = n
  BY SoundIs
<1>2. \A r \in 2 .. Len(b) : r \in 1 .. n /\ r >= 2
  BY <1>1
<1>3. \A r \in 1 .. n : DOMAIN b[r] = Numbers(n, r)
  BY DEF Sound, Shape
<1>4. FedFrom(b, n)
  BY DEF Sound
<1> QED
  BY <1>2, <1>3, <1>4 DEF Fed, FedFrom

\* Who starts is registered.
LEMMA StartersIn ==
    ASSUME NEW reg, NEW b, NEW n, Started(reg, b, n)
    PROVE  Starting(b) \subseteq reg
<1>1. n \in Nat \ {0} /\ 1 \in 1 .. n
  BY StartedIs
<1>2. DOMAIN b[1] = Numbers(n, 1)
  BY <1>1 DEF Started, Shape
<1>3. Range(b[1]) = {b[1][i] : i \in Numbers(n, 1)}
  BY <1>2 DEF Range
<1> QED
  BY <1>3 DEF Starting, Entrants, Started, StartIn

LEMMA StartersAre ==
    ASSUME NEW b, NEW n \in Nat \ {0}, Shape(b, n)
    PROVE  /\ DOMAIN b[1] = Numbers(n, 1)
           /\ \A p : p \in Starting(b)
                       <=> p # NoPlayer /\ \E i \in Numbers(n, 1) : p \in {b[1][i].p1, b[1][i].p2}
<1>1. n \in Nat \ {0} /\ 1 \in 1 .. n
  OBVIOUS
<1>2. DOMAIN b[1] = Numbers(n, 1)
  BY <1>1 DEF Shape
<1>3. Range(b[1]) = {b[1][i] : i \in Numbers(n, 1)}
  BY <1>2 DEF Range
<1> QED
  BY <1>2, <1>3 DEF Starting, Entrants

LEMMA StartedSeededOnce ==
    ASSUME NEW reg, NEW b, NEW n, Started(reg, b, n)
    PROVE  SeededOnce(b, Starting(b))
<1> SUFFICES ASSUME NEW p \in Starting(b)
             PROVE  Cardinality({i \in DOMAIN b[1] : p \in Entrants(b[1][i])}) = 1
  BY DEF SeededOnce
<1>1. DOMAIN b[1] = Numbers(n, 1) /\ p # NoPlayer
      /\ \E i \in Numbers(n, 1) : p \in {b[1][i].p1, b[1][i].p2}
  BY StartersAre DEF Started
<1>2. PICK i \in Numbers(n, 1) : p \in {b[1][i].p1, b[1][i].p2}
  BY <1>1
<1>3. OncePlaced(b[1], Numbers(n, 1))
  BY DEF Started
<1>4. \A j \in Numbers(n, 1) : p \in {b[1][j].p1, b[1][j].p2} => j = i
  BY <1>1, <1>2, <1>3 DEF OncePlaced
<1>5. {j \in DOMAIN b[1] : p \in Entrants(b[1][j])} = {i}
  BY <1>1, <1>2, <1>4 DEF Entrants
<1> QED
  BY <1>5, FS_Singleton

\* At most k players hold a place of k matches.
LEMMA PlacesHold ==
    ASSUME NEW k \in Nat, NEW f, DOMAIN f = 1 .. k
    PROVE  LET T == {f[i] : i \in 1 .. k}
           IN  IsFiniteSet(T) /\ Cardinality(T) \in Nat /\ Cardinality(T) <= k
<1> DEFINE T == {f[i] : i \in 1 .. k}
           h == [i \in 1 .. k |-> f[i]]
<1>1. h \in Surjection(1 .. k, T)
  BY DEF Surjection
<1>2. IsFiniteSet(1 .. k) /\ Cardinality(1 .. k) = k
  BY FS_Interval
<1> HIDE DEF T, h
<1>3. IsFiniteSet(T) /\ Cardinality(T) <= k
  BY <1>1, <1>2, FS_Surjection
<1>4. Cardinality(T) \in Nat
  BY <1>3, FS_CardinalityType
<1> QED
  BY <1>3, <1>4 DEF T

\* As many players as places: no place is empty.
LEMMA CountFull ==
    ASSUME NEW b, NEW n, Sound(b, n), Cardinality(Starting(b)) = Pow2(n)
    PROVE  FullStart(b, n)
<1> DEFINE k == Pow2(n - 1)
           f == [i \in 1 .. k |-> b[1][i].p1]
           g == [i \in 1 .. k |-> b[1][i].p2]
           A == {f[i] : i \in 1 .. k}
           B == {g[i] : i \in 1 .. k}
<1>1. n \in Nat \ {0}
  BY SoundIs
<1>2. n - 1 \in Nat /\ (n - 1) + 1 = n
  BY <1>1
<1>3. k \in Nat /\ Pow2(n) = 2 * k
  BY <1>2, Pow2Next, Pow2Type
<1>4. Numbers(n, 1) = 1 .. k
  BY DEF Numbers
<1> HIDE DEF k
<1>5. DOMAIN f = 1 .. k /\ DOMAIN g = 1 .. k
  OBVIOUS
<1>6. /\ \A i \in 1 .. k : f[i] = b[1][i].p1 /\ g[i] = b[1][i].p2
  OBVIOUS
<1> HIDE DEF f, g
<1>7. /\ IsFiniteSet(A) /\ Cardinality(A) \in Nat /\ Cardinality(A) <= k
      /\ IsFiniteSet(B) /\ Cardinality(B) \in Nat /\ Cardinality(B) <= k
  BY <1>3, <1>5, PlacesHold
<1>8. Starting(b) = (A \cup B) \ {NoPlayer}
  <2>1. \A p : p \in A \cup B <=> \E i \in 1 .. k : p \in {b[1][i].p1, b[1][i].p2}
    BY <1>6
  <2>2. \A p : p \in Starting(b)
                 <=> p # NoPlayer /\ \E i \in 1 .. k : p \in {b[1][i].p1, b[1][i].p2}
    BY <1>4, StartersAre DEF Sound
  <2> QED
    BY <2>1, <2>2
<1>9. FullStart(b, n) \/ NoPlayer \in A \cup B
  BY <1>4, <1>6 DEF FullStart
<1> HIDE DEF A, B
<1>10. IsFiniteSet(A \cap B)
  BY <1>7, FS_Intersection
<1>11. /\ IsFiniteSet(A \cup B) /\ Cardinality(A \cap B) \in Nat
       /\ Cardinality(A \cup B) = Cardinality(A) + Cardinality(B) - Cardinality(A \cap B)
  BY <1>7, <1>10, FS_Union, FS_CardinalityType
<1>12. NoPlayer \in A \cup B => Cardinality(Starting(b)) = Cardinality(A \cup B) - 1
  BY <1>8, <1>11, FS_RemoveElement
<1>13. Cardinality(A \cup B) <= 2 * k /\ Cardinality(A \cup B) \in Int
  BY <1>3, <1>7, <1>11
<1> QED
  BY <1>3, <1>9, <1>12, <1>13

-----------------------------------------------------------------------------
(* A decided bracket without byes                                           *)

Played(m) == /\ m.p1 # NoPlayer /\ m.p2 # NoPlayer /\ m.winner # NoPlayer
             /\ m.winner \in {m.p1, m.p2}

Decided(b, n) ==
    /\ \A r \in 1 .. n : \A i \in Numbers(n, r) : Played(b[r][i])
    /\ \A r \in 1 .. n : r >= 2 => \A i \in Numbers(n, r) :
         /\ b[r][i].p1 = b[r - 1][2 * i - 1].winner
         /\ b[r][i].p2 = b[r - 1][2 * i].winner

LEMMA WonIsPlayed ==
    ASSUME NEW b, NEW n, Sound(b, n), FullStart(b, n),
           NEW r \in 1 .. n, NEW i \in Numbers(n, r), b[r][i].winner # NoPlayer
    PROVE  /\ Played(b[r][i])
           /\ r >= 2 => /\ b[r][i].p1 = b[r - 1][2 * i - 1].winner
                        /\ b[r][i].p2 = b[r - 1][2 * i].winner
<1>1. b[r][i].winner \in {b[r][i].p1, b[r][i].p2}
  BY DEF Sound, WinnersPlay
<1>2. b[r][i].p1 # NoPlayer /\ b[r][i].p2 # NoPlayer
  <2>1. CASE r = 1
    BY <2>1 DEF FullStart
  <2>2. CASE r # 1
    <3>1. r >= 2
      BY <2>2, SoundIs
    <3>2. b[r][i].p1 = NoPlayer <=> b[r][i].p2 = NoPlayer
      BY <3>1 DEF Sound, WaitsForBoth
    <3> QED
      BY <1>1, <3>2
  <2> QED
    BY <2>1, <2>2
<1>3. r >= 2 => /\ b[r][i].p1 \in {NoPlayer, b[r - 1][2 * i - 1].winner}
                /\ b[r][i].p2 \in {NoPlayer, b[r - 1][2 * i].winner}
  BY DEF Sound, FedFrom
<1> QED
  BY <1>1, <1>2, <1>3 DEF Played

LEMMA FinalDecides ==
    ASSUME NEW b, NEW n, Sound(b, n), FullStart(b, n), b[n][1].winner # NoPlayer
    PROVE  Decided(b, n)
<1> DEFINE S == {k \in 0 .. n - 1 : \A i \in Numbers(n, n - k) : b[n - k][i].winner # NoPlayer}
<1>1. n \in Nat \ {0}
  BY SoundIs
<1>2. 0 \in S
  <2>1. \A i \in Numbers(n, n) : b[n][i].winner # NoPlayer
    BY <1>1, FinalIs
  <2>2. n - 0 = n /\ 0 \in 0 .. n - 1
    BY <1>1
  <2> QED
    BY <2>1, <2>2
<1>3. ASSUME NEW k \in 0 .. n - 1, k \in S, k < n - 1
      PROVE  k + 1 \in S
  <2> DEFINE q == n - (k + 1)
             r == n - k
  <2>1. q \in 1 .. n /\ q < n /\ r = q + 1 /\ k + 1 \in 0 .. n - 1
        /\ \A i \in Numbers(n, r) : b[r][i].winner # NoPlayer
    BY <1>1, <1>3
  <2> HIDE DEF q, r
  <2>2. /\ r \in 1 .. n /\ r >= 2 /\ r - 1 = q
        /\ \A j \in Numbers(n, q) : \E i \in Numbers(n, r) : j = 2 * i - 1 \/ j = 2 * i
    BY <1>1, <2>1, Feeders
  <2>3. \A i \in Numbers(n, r) : /\ Played(b[r][i])
                                 /\ b[r][i].p1 = b[q][2 * i - 1].winner
                                 /\ b[r][i].p2 = b[q][2 * i].winner
    BY <2>1, <2>2, WonIsPlayed
  <2>4. \A j \in Numbers(n, q) : b[q][j].winner # NoPlayer
    BY <2>2, <2>3 DEF Played
  <2> QED
    BY <2>1, <2>4 DEF q
<1>4. n - 1 \in Nat
  BY <1>1
<1>5. ASSUME NEW r \in 1 .. n
      PROVE  \A i \in Numbers(n, r) : b[r][i].winner # NoPlayer
  <2> DEFINE k == n - r
  <2>1. k \in 0 .. n - 1 /\ n - k = r
    BY <1>1
  <2> HIDE DEF k
  <2>2. k \in S
    <3> HIDE DEF S
    <3> QED
      BY <1>2, <1>3, <1>4, <2>1, UpTo
  <2>3. \A i \in Numbers(n, n - k) : b[n - k][i].winner # NoPlayer
    BY <2>2
  <2> QED
    BY <2>1, <2>3
<1> QED
  BY <1>5, WonIsPlayed DEF Decided

\* Then nobody has two places in any round.
LEMMA EachRoundOnce ==
    ASSUME NEW b, NEW n, Sound(b, n), Decided(b, n)
    PROVE  \A r \in 1 .. n : OncePlaced(b[r], Numbers(n, r))
<1> DEFINE S == {k \in 0 .. n - 1 : OncePlaced(b[k + 1], Numbers(n, k + 1))}
<1>1. n \in Nat \ {0}
  BY SoundIs
<1>2. 0 \in S
  <2>1. OncePlaced(b[1], Numbers(n, 1))
    BY DEF Sound
  <2>2. 0 \in 0 .. n - 1 /\ 0 + 1 = 1
    BY <1>1
  <2> QED
    BY <2>1, <2>2
<1>3. ASSUME NEW k \in 0 .. n - 1, k \in S, k < n - 1
      PROVE  k + 1 \in S
  <2> DEFINE q == k + 1
             r == q + 1
             o(i) == 2 * i - 1
             e(i) == 2 * i
  <2>1. q \in 1 .. n /\ q < n /\ q \in 0 .. n - 1 /\ OncePlaced(b[q], Numbers(n, q))
    BY <1>1, <1>3
  <2> HIDE DEF q
  <2>2. /\ r \in 1 .. n /\ r >= 2 /\ r - 1 = q /\ Pow2(n - r) \in Nat
        /\ \A i \in Numbers(n, r) : o(i) \in Numbers(n, q) /\ e(i) \in Numbers(n, q)
    BY <1>1, <2>1, Feeders
  <2>3. \A i, j \in Numbers(n, r) : (o(i) = o(j) => i = j) /\ (e(i) = e(j) => i = j)
                                    /\ o(i) # e(j)
    <3> HIDE DEF r
    <3> QED
      BY <2>2 DEF Numbers
  <2>4. \A i \in Numbers(n, r) : b[r][i].p1 = b[q][o(i)].winner /\ b[r][i].p2 = b[q][e(i)].winner
    BY <2>2 DEF Decided
  <2>5. \A i \in Numbers(n, q) : Played(b[q][i])
    BY <2>1 DEF Decided
  <2> HIDE DEF r, o, e
  <2>6. ASSUME NEW i \in Numbers(n, q), NEW j \in Numbers(n, q), b[q][i].winner = b[q][j].winner
        PROVE  i = j
    BY <2>1, <2>5, <2>6 DEF Played, OncePlaced
  <2>7. OncePlaced(b[r], Numbers(n, r))
    <3>1. ASSUME NEW i \in Numbers(n, r), NEW j \in Numbers(n, r)
          PROVE  /\ b[r][i].p1 = b[r][j].p1 => i = j
                 /\ b[r][i].p2 = b[r][j].p2 => i = j
                 /\ b[r][i].p1 # b[r][j].p2
      <4>1. /\ o(i) \in Numbers(n, q) /\ e(i) \in Numbers(n, q)
            /\ o(j) \in Numbers(n, q) /\ e(j) \in Numbers(n, q)
        BY <2>2
      <4> QED
        BY <2>3, <2>4, <2>6, <4>1
    <3> QED
      BY <3>1 DEF OncePlaced
  <2>8. q \in S
    BY <2>1, <2>7 DEF r
  <2> QED
    BY <2>8 DEF q
<1>4. n - 1 \in Nat
  BY <1>1
<1>5. ASSUME NEW r \in 1 .. n
      PROVE  OncePlaced(b[r], Numbers(n, r))
  <2> DEFINE k == r - 1
  <2>1. k \in 0 .. n - 1 /\ k + 1 = r
    BY <1>1
  <2> HIDE DEF k
  <2>2. k \in S
    <3> HIDE DEF S
    <3> QED
      BY <1>2, <1>3, <1>4, <2>1, UpTo
  <2>3. OncePlaced(b[k + 1], Numbers(n, k + 1))
    BY <2>2
  <2> QED
    BY <2>1, <2>3
<1> QED
  BY <1>5

LEMMA LoserIs ==
    ASSUME NEW m, Played(m), m.p1 # m.p2
    PROVE  /\ Loser(m) # m.winner
           /\ \A p \in {m.p1, m.p2} : p = m.winner \/ p = Loser(m)
           /\ Loser(m) \in {m.p1, m.p2}
BY DEF Played, Loser

LEMMA LostIs ==
    ASSUME NEW b, NEW n, Sound(b, n), Decided(b, n), NEW p
    PROVE  RoundsLost(b, p) = {} <=> \A r \in 1 .. n : \A i \in Numbers(n, r) : Loser(b[r][i]) # p
<1>1. DOMAIN b = 1 .. n /\ \A r \in 1 .. n : DOMAIN b[r] = Numbers(n, r)
  BY SoundIs DEF Sound, Shape
<1>2. \A r \in 1 .. n : Range(b[r]) = {b[r][i] : i \in Numbers(n, r)}
  BY <1>1 DEF Range
<1>3. \A r \in 1 .. n : \A i \in Numbers(n, r) : b[r][i].winner # NoPlayer
  BY DEF Decided, Played
<1>4. \A r \in 1 .. n : (\E m \in Range(b[r]) : m.winner # NoPlayer /\ Loser(m) = p)
                           <=> \E i \in Numbers(n, r) : Loser(b[r][i]) = p
  BY <1>2, <1>3
<1>5. \A r : r \in RoundsLost(b, p)
               <=> r \in 1 .. n /\ \E m \in Range(b[r]) : m.winner # NoPlayer /\ Loser(m) = p
  BY <1>1 DEF RoundsLost
<1> QED
  BY <1>4, <1>5

\* Who has not lost plays in every round, and wins the final.
LEMMA UndefeatedWins ==
    ASSUME NEW b, NEW n, Sound(b, n), Decided(b, n),
           NEW p \in Starting(b), RoundsLost(b, p) = {}
    PROVE  p = b[n][1].winner
<1> DEFINE S == {k \in 0 .. n - 1 : \E i \in Numbers(n, k + 1) : b[k + 1][i].winner = p}
<1>1. n \in Nat \ {0}
  BY SoundIs
<1>2. ASSUME NEW r \in 1 .. n, NEW i \in Numbers(n, r), p \in {b[r][i].p1, b[r][i].p2}
      PROVE  b[r][i].winner = p
  <2>1. Loser(b[r][i]) # p
    BY LostIs
  <2>2. OncePlaced(b[r], Numbers(n, r)) /\ Played(b[r][i])
    BY EachRoundOnce DEF Decided
  <2>3. b[r][i].p1 # b[r][i].p2
    BY <2>2 DEF OncePlaced, Played
  <2> QED
    BY <1>2, <2>1, <2>2, <2>3, LoserIs
<1>3. 0 \in S
  <2>1. \E i \in Numbers(n, 1) : p \in {b[1][i].p1, b[1][i].p2}
    BY StartersAre DEF Sound
  <2>2. 1 \in 1 .. n /\ 0 + 1 = 1 /\ 0 \in 0 .. n - 1
    BY <1>1
  <2>3. \E i \in Numbers(n, 1) : b[1][i].winner = p
    BY <1>2, <2>1, <2>2
  <2> QED
    BY <2>2, <2>3
<1>4. ASSUME NEW k \in 0 .. n - 1, k \in S, k < n - 1
      PROVE  k + 1 \in S
  <2> DEFINE q == k + 1
             r == q + 1
  <2>1. q \in 1 .. n /\ q < n /\ q \in 0 .. n - 1
        /\ \E j \in Numbers(n, q) : b[q][j].winner = p
    BY <1>1, <1>4
  <2> HIDE DEF q
  <2>2. /\ r \in 1 .. n /\ r >= 2 /\ r - 1 = q
        /\ \A j \in Numbers(n, q) : \E i \in Numbers(n, r) : j = 2 * i - 1 \/ j = 2 * i
    BY <1>1, <2>1, Feeders
  <2> HIDE DEF r
  <2>3. PICK j \in Numbers(n, q) : b[q][j].winner = p
    BY <2>1
  <2>4. PICK i \in Numbers(n, r) : j = 2 * i - 1 \/ j = 2 * i
    BY <2>2
  <2>5. b[r][i].p1 = b[q][2 * i - 1].winner /\ b[r][i].p2 = b[q][2 * i].winner
    BY <2>2 DEF Decided
  <2>6. p \in {b[r][i].p1, b[r][i].p2}
    BY <2>3, <2>4, <2>5
  <2>7. b[r][i].winner = p
    BY <1>2, <2>2, <2>6
  <2>8. q \in S
    BY <2>1, <2>7 DEF r
  <2> QED
    BY <2>8 DEF q
<1>5. n - 1 \in Nat /\ n - 1 \in 0 .. n - 1 /\ (n - 1) + 1 = n
  BY <1>1
<1>6. n - 1 \in S
  <2> HIDE DEF S
  <2> QED
    BY <1>3, <1>4, <1>5, UpTo
<1>7. \E i \in Numbers(n, n) : b[n][i].winner = p
  BY <1>5, <1>6
<1> QED
  BY <1>1, <1>7, FinalIs

\* Who wins the final has won a match of every round.
LEMMA ChampionWins ==
    ASSUME NEW b, NEW n, Sound(b, n), Decided(b, n)
    PROVE  \A r \in 1 .. n : \E i \in Numbers(n, r) : b[r][i].winner = b[n][1].winner
<1> DEFINE p == b[n][1].winner
           S == {k \in 0 .. n - 1 : \E i \in Numbers(n, n - k) : b[n - k][i].winner = p}
<1>1. n \in Nat \ {0}
  BY SoundIs
<1>2. 0 \in S
  <2>1. 1 \in Numbers(n, n) /\ n - 0 = n /\ 0 \in 0 .. n - 1
    BY <1>1, FinalIs
  <2> QED
    BY <2>1
<1> HIDE DEF p
<1>3. ASSUME NEW k \in 0 .. n - 1, k \in S, k < n - 1
      PROVE  k + 1 \in S
  <2> DEFINE q == n - (k + 1)
             r == n - k
  <2>1. q \in 1 .. n /\ q < n /\ r = q + 1 /\ k + 1 \in 0 .. n - 1
        /\ \E i \in Numbers(n, r) : b[r][i].winner = p
    BY <1>1, <1>3
  <2> HIDE DEF q, r
  <2>2. /\ r \in 1 .. n /\ r >= 2 /\ r - 1 = q
        /\ \A i \in Numbers(n, r) : 2 * i - 1 \in Numbers(n, q) /\ 2 * i \in Numbers(n, q)
    BY <1>1, <2>1, Feeders
  <2>3. PICK i \in Numbers(n, r) : b[r][i].winner = p
    BY <2>1
  <2>4. /\ b[r][i].p1 = b[q][2 * i - 1].winner /\ b[r][i].p2 = b[q][2 * i].winner
        /\ Played(b[r][i])
    BY <2>2 DEF Decided
  <2>5. \E j \in Numbers(n, q) : b[q][j].winner = p
    BY <2>2, <2>3, <2>4 DEF Played
  <2> QED
    BY <2>1, <2>5 DEF q
<1>4. n - 1 \in Nat
  BY <1>1
<1>5. ASSUME NEW r \in 1 .. n
      PROVE  \E i \in Numbers(n, r) : b[r][i].winner = p
  <2> DEFINE k == n - r
  <2>1. k \in 0 .. n - 1 /\ n - k = r
    BY <1>1
  <2> HIDE DEF k
  <2>2. k \in S
    <3> HIDE DEF S
    <3> QED
      BY <1>2, <1>3, <1>4, <2>1, UpTo
  <2>3. \E i \in Numbers(n, n - k) : b[n - k][i].winner = p
    BY <2>2
  <2> QED
    BY <2>1, <2>3
<1> QED
  BY <1>5 DEF p

LEMMA ChampionUndefeated ==
    ASSUME NEW b, NEW n, Sound(b, n), Decided(b, n)
    PROVE  b[n][1].winner \in Starting(b) /\ RoundsLost(b, b[n][1].winner) = {}
<1> DEFINE p == b[n][1].winner
<1>1. n \in Nat \ {0}
  BY SoundIs
<1>2. \A r \in 1 .. n : \E i \in Numbers(n, r) : b[r][i].winner = p
  BY ChampionWins
<1> HIDE DEF p
<1>3. p \in Starting(b)
  <2>1. 1 \in 1 .. n
    BY <1>1
  <2>2. PICK i \in Numbers(n, 1) : b[1][i].winner = p
    BY <1>2, <2>1
  <2>3. Played(b[1][i])
    BY <2>1 DEF Decided
  <2> QED
    BY <2>2, <2>3, StartersAre DEF Played, Sound
<1>4. ASSUME NEW r \in 1 .. n, NEW i \in Numbers(n, r), Loser(b[r][i]) = p
      PROVE  FALSE
  <2>1. PICK j \in Numbers(n, r) : b[r][j].winner = p
    BY <1>2
  <2>2. Played(b[r][i]) /\ Played(b[r][j]) /\ OncePlaced(b[r], Numbers(n, r))
    BY EachRoundOnce DEF Decided
  <2>3. b[r][i].p1 # b[r][i].p2
    BY <2>2 DEF OncePlaced, Played
  <2>4. Loser(b[r][i]) \in {b[r][i].p1, b[r][i].p2} /\ Loser(b[r][i]) # b[r][i].winner
    BY <2>2, <2>3, LoserIs
  <2>5. p \in {b[r][j].p1, b[r][j].p2} /\ p # NoPlayer
    BY <2>1, <2>2 DEF Played
  <2>6. i = j
    BY <1>4, <2>2, <2>4, <2>5 DEF OncePlaced
  <2> QED
    BY <1>4, <2>1, <2>4, <2>6
<1>5. RoundsLost(b, p) = {}
  BY <1>4, LostIs
<1> QED
  BY <1>3, <1>5 DEF p

\* "Single loss eliminates player", for every number of rounds.
LEMMA SoundDecides ==
    ASSUME NEW b, NEW n, Sound(b, n), Cardinality(Starting(b)) = Pow2(n),
           FinalMatch(b).winner # NoPlayer
    PROVE  Undefeated(b, Starting(b)) = {FinalMatch(b).winner}
<1>1. FinalMatch(b) = b[n][1]
  BY SoundIs
<1>2. Decided(b, n)
  BY <1>1, CountFull, FinalDecides
<1>3. /\ b[n][1].winner \in Starting(b)
      /\ RoundsLost(b, b[n][1].winner) = {}
  BY <1>2, ChampionUndefeated
<1>4. \A p \in Starting(b) : RoundsLost(b, p) = {} => p = b[n][1].winner
  BY <1>2, UndefeatedWins
<1> QED
  BY <1>1, <1>3, <1>4 DEF Undefeated

===============================================================================
