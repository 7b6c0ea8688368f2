----------------------------- MODULE TotalsProofs -----------------------------
(***************************************************************************)
(* What the sums of Totals do, for any finite set of rows and any amounts. *)
(***************************************************************************)
EXTENDS Totals, FiniteSetTheorems, WellFoundedInduction, TLAPS

\* A number as it counts in a sum.
Positive(n) == IF n > 0 THEN n ELSE 0

\* The units of one row.
LEMMA UnitsOfOne ==
    ASSUME NEW x, NEW n \in Int
    PROVE  /\ IsFiniteSet({x} \X (1 .. n))
           /\ Cardinality({x} \X (1 .. n)) = Positive(n)
<1>1. IsFiniteSet({x}) /\ Cardinality({x}) = 1
  BY FS_Singleton
<1>2. /\ IsFiniteSet(1 .. n)
      /\ Cardinality(1 .. n) = IF 1 > n THEN 0 ELSE n - 1 + 1
  BY FS_Interval
<1>3. Cardinality(1 .. n) = Positive(n)
  BY <1>2 DEF Positive
<1>4. /\ IsFiniteSet({x} \X (1 .. n))
      /\ Cardinality({x} \X (1 .. n)) = Cardinality({x}) * Cardinality(1 .. n)
  BY <1>1, <1>2, FS_Product
<1> QED
  BY <1>1, <1>3, <1>4 DEF Positive

LEMMA InUnits ==
    ASSUME NEW f, NEW x, NEW k
    PROVE  <<x, k>> \in Units(f) <=> x \in DOMAIN f /\ k \in 1 .. f[x]
  BY DEF Units

\* A sum is a natural number.
LEMMA TotalType ==
    ASSUME NEW S, IsFiniteSet(S), NEW f \in [S -> Int]
    PROVE  IsFiniteSet(Units(f)) /\ Total(f) \in Nat
<1> DEFINE parts == {{x} \X (1 .. f[x]) : x \in S}
<1>1. IsFiniteSet(parts)
  <2> DEFINE part == [x \in S |-> {x} \X (1 .. f[x])]
  <2>1. part \in Surjection(S, parts)
    BY DEF Surjection
  <2> QED
    BY <2>1, FS_Surjection
<1>2. ASSUME NEW T \in parts
      PROVE  IsFiniteSet(T)
  <2>1. PICK x \in S : T = {x} \X (1 .. f[x])
    BY <1>2
  <2>2. f[x] \in Int
    OBVIOUS
  <2> QED
    BY <2>1, <2>2, UnitsOfOne
<1>3. IsFiniteSet(UNION parts)
  BY <1>1, <1>2, FS_UNION
<1>4. Units(f) = UNION parts
  BY DEF Units
<1> QED
  BY <1>3, <1>4, FS_CardinalityType DEF Total

\* A sum in which nothing counts is zero, and no other is.
LEMMA TotalZero ==
    ASSUME NEW S, IsFiniteSet(S), NEW f \in [S -> Int]
    PROVE  Total(f) = 0 <=> \A x \in S : f[x] <= 0
<1>1. IsFiniteSet(Units(f))
  BY TotalType
<1>2. Total(f) = 0 <=> Units(f) = {}
  BY <1>1, FS_EmptySet DEF Total
<1>3. ASSUME Units(f) = {}, NEW x \in S
      PROVE  f[x] <= 0
  <2>1. <<x, 1>> \notin Units(f)
    BY <1>3
  <2>2. 1 \notin 1 .. f[x]
    BY <2>1, InUnits
  <2> QED
    BY <2>2
<1>4. ASSUME \A x \in S : f[x] <= 0
      PROVE  Units(f) = {}
  <2>1. \A x \in S : 1 .. f[x] = {}
    BY <1>4
  <2> QED
    BY <2>1 DEF Units
<1> QED
  BY <1>2, <1>3, <1>4

\* Larger values, or more of them, have the larger sum.
LEMMA TotalMonotone ==
    ASSUME NEW S, NEW T, IsFiniteSet(T), S \subseteq T,
           NEW f \in [S -> Int], NEW g \in [T -> Int],
           \A x \in S : f[x] <= g[x]
    PROVE  Total(f) <= Total(g)
<1>1. IsFiniteSet(Units(g))
  BY TotalType
<1>2. Units(f) \subseteq Units(g)
  <2>1. \A x \in S : 1 .. f[x] \subseteq 1 .. g[x]
    OBVIOUS
  <2> QED
    BY <2>1 DEF Units
<1> QED
  BY <1>1, <1>2, FS_Subset DEF Total

\* A value that changes changes the sum by as much.
LEMMA TotalUpdate ==
    ASSUME NEW S, IsFiniteSet(S), NEW f \in [S -> Int], NEW g \in [S -> Int],
           NEW x \in S, \A y \in S \ {x} : g[y] = f[y]
    PROVE  Total(g) = Total(f) - Positive(f[x]) + Positive(g[x])
<1> DEFINE rest == UNION {{y} \X (1 .. f[y]) : y \in S \ {x}}
           own(n) == {x} \X (1 .. n)
<1>1. ASSUME NEW h \in [S -> Int], \A y \in S \ {x} : h[y] = f[y]
      PROVE  Total(h) = Cardinality(rest) + Positive(h[x])
  <2>1. Units(h) = rest \cup own(h[x])
    BY <1>1 DEF Units
  <2>2. IsFiniteSet(Units(h))
    BY TotalType
  <2>3. IsFiniteSet(rest) /\ IsFiniteSet(own(h[x])) /\ Cardinality(own(h[x])) = Positive(h[x])
    BY <2>1, <2>2, UnitsOfOne, FS_Subset
  <2>4. rest \cap own(h[x]) = {}
    OBVIOUS
  <2>5. Cardinality(rest \cap own(h[x])) = 0
    BY <2>4, FS_EmptySet
  <2>6. Cardinality(rest) \in Nat /\ Cardinality(own(h[x])) \in Nat
    BY <2>3, FS_CardinalityType
  <2> HIDE DEF rest, own
  <2>7. Cardinality(rest \cup own(h[x]))
          = Cardinality(rest) + Cardinality(own(h[x])) - Cardinality(rest \cap own(h[x]))
    BY <2>3, FS_Union
  <2> QED
    BY <2>1, <2>3, <2>5, <2>6, <2>7 DEF Total
<1>2. Cardinality(rest) \in Nat
  <2>1. IsFiniteSet(Units(f))
    BY TotalType
  <2>2. rest \subseteq Units(f)
    BY DEF Units
  <2> QED
    BY <2>1, <2>2, FS_Subset, FS_CardinalityType
<1> HIDE DEF rest
<1>3. Total(f) = Cardinality(rest) + Positive(f[x])
  BY <1>1
<1>4. Total(g) = Cardinality(rest) + Positive(g[x])
  BY <1>1
<1> QED
  BY <1>2, <1>3, <1>4 DEF Positive

\* A sum is at most the number of values that count, times the largest.
LEMMA TotalBounded ==
    ASSUME NEW S, IsFiniteSet(S), NEW T \in SUBSET S, NEW f \in [S -> Int], NEW c \in Nat,
           \A x \in T : f[x] <= c, \A x \in S \ T : f[x] <= 0
    PROVE  Total(f) <= Cardinality(T) * c
<1>1. IsFiniteSet(T)
  BY FS_Subset
<1>2. IsFiniteSet(1 .. c) /\ Cardinality(1 .. c) = c
  BY FS_Interval
<1>3. IsFiniteSet(T \X (1 .. c)) /\ Cardinality(T \X (1 .. c)) = Cardinality(T) * c
  BY <1>1, <1>2, FS_Product
<1>4. Units(f) \subseteq T \X (1 .. c)
  <2>1. \A x \in S \ T : 1 .. f[x] = {}
    OBVIOUS
  <2>2. \A x \in T : 1 .. f[x] \subseteq 1 .. c
    OBVIOUS
  <2> QED
    BY <2>1, <2>2 DEF Units
<1> QED
  BY <1>3, <1>4, FS_Subset DEF Total

\* No value is larger than the sum.
LEMMA TotalBoundsEach ==
    ASSUME NEW S, IsFiniteSet(S), NEW f \in [S -> Int], NEW x \in S
    PROVE  f[x] <= Total(f)
<1>1. IsFiniteSet(Units(f)) /\ Total(f) \in Nat
  BY TotalType
<1>2. {x} \X (1 .. f[x]) \subseteq Units(f)
  BY DEF Units
<1>3. Cardinality({x} \X (1 .. f[x])) = Positive(f[x])
  BY UnitsOfOne
<1>4. Cardinality({x} \X (1 .. f[x])) <= Cardinality(Units(f))
  BY <1>1, <1>2, FS_Subset
<1> QED
  BY <1>1, <1>3, <1>4 DEF Positive, Total

\* What two sums make up together is at most both.
LEMMA TotalAtMostBoth ==
    ASSUME NEW S, IsFiniteSet(S), NEW f \in [S -> Int], NEW g \in [S -> Int],
           NEW h \in [S -> Int], \A x \in S : h[x] <= Positive(f[x]) + Positive(g[x])
    PROVE  Total(h) <= Total(f) + Total(g)
<1> DEFINE shift == [u \in Units(g) |-> <<u[1], u[2] + Positive(f[u[1]])>>]
           shifted == {shift[u] : u \in Units(g)}
<1>1. /\ IsFiniteSet(Units(f)) /\ Total(f) \in Nat
      /\ IsFiniteSet(Units(g)) /\ Total(g) \in Nat
      /\ IsFiniteSet(Units(h)) /\ Total(h) \in Nat
  BY TotalType
<1>2. shift \in Surjection(Units(g), shifted)
  BY DEF Surjection
<1>3. IsFiniteSet(shifted) /\ Cardinality(shifted) <= Total(g)
  <2> HIDE DEF shift, shifted
  <2> QED
    BY <1>1, <1>2, FS_Surjection DEF Total
<1>4. Units(h) \subseteq Units(f) \cup shifted
  <2> SUFFICES ASSUME NEW u \in Units(h), u \notin Units(f)
               PROVE  u \in shifted
    OBVIOUS
  <2>a. PICK x \in S : u \in {x} \X (1 .. h[x])
    BY DEF Units
  <2>0. PICK k \in 1 .. h[x] : u = <<x, k>>
    BY <2>a
  <2>1. f[x] \in Int /\ g[x] \in Int /\ h[x] \in Int
    OBVIOUS
  <2>2. k > f[x]
    BY <2>0, <2>1, InUnits
  <2> DEFINE j == k - Positive(f[x])
  <2>3. j \in 1 .. g[x] /\ j + Positive(f[x]) = k
    BY <2>1, <2>2 DEF Positive
  <2> HIDE DEF j
  <2>4. <<x, j>> \in Units(g)
    BY <2>3, InUnits
  <2>5. shift[<<x, j>>] = <<x, k>>
    BY <2>3, <2>4
  <2> QED
    BY <2>0, <2>4, <2>5
<1>5. /\ IsFiniteSet(Units(f) \cup shifted)
      /\ Cardinality(Units(f) \cup shifted) <= Cardinality(Units(f)) + Cardinality(shifted)
  <2> HIDE DEF shift, shifted
  <2>1. /\ IsFiniteSet(Units(f) \cup shifted)
        /\ Cardinality(Units(f) \cup shifted)
              = Cardinality(Units(f)) + Cardinality(shifted) - Cardinality(Units(f) \cap shifted)
    BY <1>1, <1>3, FS_Union
  <2>2. IsFiniteSet(Units(f) \cap shifted)
    BY <1>3, FS_Subset
  <2>3. /\ Cardinality(Units(f)) \in Nat /\ Cardinality(shifted) \in Nat
        /\ Cardinality(Units(f) \cap shifted) \in Nat
    BY <1>1, <1>3, <2>2, FS_CardinalityType
  <2> QED
    BY <2>1, <2>3
<1>6. Cardinality(Units(h)) <= Cardinality(Units(f) \cup shifted)
  <2> HIDE DEF shift, shifted
  <2> QED
    BY <1>4, <1>5, FS_Subset
<1>7. Cardinality(shifted) \in Nat /\ Cardinality(Units(f) \cup shifted) \in Nat
  <2> HIDE DEF shift, shifted
  <2> QED
    BY <1>3, <1>5, FS_CardinalityType
<1> QED
  <2> HIDE DEF shift, shifted
  <2> QED
    BY <1>1, <1>3, <1>5, <1>6, <1>7 DEF Total

-----------------------------------------------------------------------------

\* Numbers have a smallest one.
LEMMA SmallestOf ==
    ASSUME NEW T, T \subseteq Nat, T # {}
    PROVE  \E n \in T : \A k \in T : n <= k
<1>1. PICK n \in T : \A k \in T : <<k, n>> \notin OpToRel(<, Nat)
  BY NatLessThanWellFounded, WFMin, Zenon
<1>2. \A k \in T : ~ (k < n)
  BY <1>1 DEF OpToRel
<1> QED
  BY <1>2
=============================================================================
