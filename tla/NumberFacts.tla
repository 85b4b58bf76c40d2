---------------------------- MODULE NumberFacts ----------------------------
(***************************************************************************)
(* Facts about numbers that several of the proofs need: minima, induction  *)
(* stated for a set of numbers, and sums over finite sets.                 *)
(***************************************************************************)
EXTENDS Integers, FiniteSetsExt, WellFoundedInduction, FiniteSetTheorems, TLAPS

-----------------------------------------------------------------------------
(***************************************************************************)
(* Minima and induction.                                                   *)
(***************************************************************************)
LEMMA MinExists ==
  ASSUME NEW S, S \subseteq Nat, S # {}
  PROVE  Min(S) \in S /\ \A x \in S : Min(S) <= x
<1> DEFINE R == {ss \in Nat \X Nat : ss[1] < ss[2]}
<1>1. IsWellFoundedOn(R, Nat)
  BY NatLessThanWellFounded, Zenon DEF OpToRel
<1>2. PICK x \in S : \A y \in S : ~ (<<y, x>> \in R)
  <2> HIDE DEF R
  <2> QED
    BY <1>1, WFMin
<1>3. ASSUME NEW y \in S PROVE x <= y
  <2>1. x \in Nat /\ y \in Nat /\ ~ (<<y, x>> \in R)
    BY <1>2
  <2> QED
    BY <2>1
<1> QED
  BY <1>3 DEF Min

\* A bounded set of numbers has a largest one.
LEMMA MaxExists ==
  ASSUME NEW n \in Nat, NEW S, S \subseteq 0 .. n, S # {}
  PROVE  Max(S) \in S /\ \A x \in S : x <= Max(S)
<1> DEFINE T == {n - x : x \in S}
<1>1. T \subseteq Nat /\ T # {}
  OBVIOUS
<1>2. Min(T) \in T /\ \A t \in T : Min(T) <= t
  <2> HIDE DEF T
  <2> QED
    BY <1>1, MinExists
<1>3. PICK m \in S : Min(T) = n - m
  BY <1>2
<1>4. ASSUME NEW x \in S PROVE x <= m
  <2>1. n - m <= n - x
    BY <1>2, <1>3
  <2>2. m \in Nat /\ x \in Nat
    OBVIOUS
  <2> QED
    BY <2>1, <2>2
<1> QED
  BY <1>4 DEF Max

\* A set with 0 and the successor of each of its numbers has all of them.
LEMMA InductionOverSet ==
  ASSUME NEW S, 0 \in S, \A n \in S \cap Nat : n + 1 \in S
  PROVE  Nat \subseteq S
<1> DEFINE T == Nat \ S
<1>1. ASSUME T # {} PROVE FALSE
  <2>1. Min(T) \in T /\ \A x \in T : Min(T) <= x
    BY <1>1, MinExists
  <2> DEFINE m == Min(T)
  <2>2. m \in Nat /\ m \notin S
    BY <2>1
  <2> HIDE DEF m
  <2>3. m # 0 /\ m - 1 \in Nat
    BY <2>2
  <2>4. m - 1 \in S
    BY <2>1, <2>2, <2>3 DEF m
  <2>5. (m - 1) + 1 \in S
    BY <2>3, <2>4
  <2>6. (m - 1) + 1 = m
    BY <2>2
  <2> QED
    BY <2>2, <2>5, <2>6
<1> QED
  BY <1>1

-----------------------------------------------------------------------------
(***************************************************************************)
(* Sums.  MapThenSumSet adds the elements in an order of its own; what it  *)
(* adds up to is the number of Shares, in which x has f[x] of them.        *)
(***************************************************************************)
Shares(f, S) == {c \in S \X Nat : c[2] \in 1 .. f[c[1]]}

LEMMA SharesOfOne ==
  ASSUME NEW f, NEW x, f[x] \in Nat
  PROVE  /\ IsFiniteSet({x} \X (1 .. f[x])) /\ Cardinality({x} \X (1 .. f[x])) = f[x]
<1>1. IsFiniteSet({x}) /\ Cardinality({x}) = 1
  BY FS_Singleton
<1>2. IsFiniteSet(1 .. f[x]) /\ Cardinality(1 .. f[x]) = f[x]
  BY FS_Interval
<1>3. /\ IsFiniteSet({x} \X (1 .. f[x]))
      /\ Cardinality({x} \X (1 .. f[x])) = Cardinality({x}) * Cardinality(1 .. f[x])
  BY <1>1, <1>2, FS_Product
<1> QED
  BY <1>1, <1>2, <1>3

LEMMA SharesFinite ==
  ASSUME NEW S, IsFiniteSet(S), NEW f, \A x \in S : f[x] \in Nat
  PROVE  IsFiniteSet(Shares(f, S)) /\ Cardinality(Shares(f, S)) \in Nat
<1> DEFINE h == [x \in S |-> {x} \X (1 .. f[x])]
           T == {h[x] : x \in S}
<1>1. h \in Surjection(S, T)
  BY DEF Surjection
<1>2. IsFiniteSet(T)
  <2> HIDE DEF h, T
  <2> QED
    BY <1>1, FS_Surjection
<1>3. \A t \in T : IsFiniteSet(t)
  BY SharesOfOne
<1>4. Shares(f, S) = UNION T
  BY DEF Shares
<1> HIDE DEF T
<1>5. IsFiniteSet(UNION T)
  BY <1>2, <1>3, FS_UNION
<1> QED
  BY <1>4, <1>5, FS_CardinalityType

LEMMA SharesAdded ==
  ASSUME NEW S, IsFiniteSet(S), NEW f, NEW x, x \notin S,
         \A y \in S \cup {x} : f[y] \in Nat
  PROVE  Cardinality(Shares(f, S \cup {x})) = Cardinality(Shares(f, S)) + f[x]
<1> DEFINE A == Shares(f, S)
           B == {x} \X (1 .. f[x])
<1>1. IsFiniteSet(A) /\ Cardinality(A) \in Nat
  BY SharesFinite
<1>2. IsFiniteSet(B) /\ Cardinality(B) = f[x]
  BY SharesOfOne
<1>3. Shares(f, S \cup {x}) = A \cup B /\ A \cap B = {}
  BY DEF Shares
<1> HIDE DEF A, B
<1>4. Cardinality(A \cup B) = Cardinality(A) + Cardinality(B) - Cardinality(A \cap B)
  BY <1>1, <1>2, FS_Union
<1>5. f[x] \in Nat /\ Cardinality(A \cap B) = 0
  BY <1>3, FS_EmptySet
<1>6. Cardinality(A \cup B) = Cardinality(A) + f[x]
  BY <1>1, <1>2, <1>4, <1>5
<1> QED
  BY <1>3, <1>6 DEF A

LEMMA SharesRemoved ==
  ASSUME NEW S, IsFiniteSet(S), NEW f, NEW x \in S, \A y \in S : f[y] \in Nat
  PROVE  Cardinality(Shares(f, S)) = f[x] + Cardinality(Shares(f, S \ {x}))
<1> DEFINE R == S \ {x}
<1>1. IsFiniteSet(R)
  BY FS_RemoveElement
<1>2. S = R \cup {x} /\ x \notin R
  OBVIOUS
<1> HIDE DEF R
<1>3. Cardinality(Shares(f, R \cup {x})) = Cardinality(Shares(f, R)) + f[x]
  BY <1>1, <1>2, SharesAdded
<1>4. Cardinality(Shares(f, R)) \in Nat
  BY <1>1, <1>2, SharesFinite
<1>5. f[x] \in Nat
  OBVIOUS
<1>6. Cardinality(Shares(f, S)) = f[x] + Cardinality(Shares(f, R))
  BY <1>2, <1>3, <1>4, <1>5
<1> QED
  BY <1>6 DEF R

\* Whatever the order in which the elements are taken.
LEMMA SumFromBase ==
  ASSUME NEW S, IsFiniteSet(S), NEW f, \A x \in S : f[x] \in Nat, NEW g,
         NEW base \in Int, g[{}] = base,
         \A s \in SUBSET S : s # {} =>
           \E x \in s : g[s \ {x}] \in Int => g[s] = g[s \ {x}] + f[x]
  PROVE  g[S] = base + Cardinality(Shares(f, S))
<1> DEFINE Bad == {s \in SUBSET S : g[s] # base + Cardinality(Shares(f, s))}
           sizes == {Cardinality(s) : s \in Bad}
<1>1. \A s \in SUBSET S : IsFiniteSet(s) /\ Cardinality(s) \in Nat
  BY FS_Subset, FS_CardinalityType
<1>2. ASSUME Bad # {} PROVE FALSE
  <2>1. sizes \subseteq Nat /\ sizes # {}
    BY <1>1, <1>2
  <2>2. Min(sizes) \in sizes /\ \A n \in sizes : Min(sizes) <= n
    <3> HIDE DEF sizes
    <3> QED
      BY <2>1, MinExists
  <2>3. PICK s \in Bad : Min(sizes) = Cardinality(s)
    BY <2>2
  <2>4. \A r \in Bad : Cardinality(s) <= Cardinality(r)
    BY <2>2, <2>3
  <2>5. s # {}
    <3>1. Cardinality(Shares(f, {})) = 0
      <4> Shares(f, {}) = {}
        BY DEF Shares
      <4> QED
        BY FS_EmptySet
    <3>2. g[{}] = base + Cardinality(Shares(f, {}))
      BY <3>1
    <3> QED
      BY <2>3, <3>2
  <2>6. PICK x \in s : g[s \ {x}] \in Int => g[s] = g[s \ {x}] + f[x]
    BY <2>5
  <2>7. s \ {x} \notin Bad
    <3>1. Cardinality(s \ {x}) = Cardinality(s) - 1 /\ Cardinality(s) \in Nat
      BY <1>1, FS_RemoveElement
    <3> HIDE DEF Bad
    <3> QED
      BY <2>4, <3>1
  <2>8. g[s \ {x}] = base + Cardinality(Shares(f, s \ {x}))
    BY <2>7
  <2>9. Cardinality(Shares(f, s)) = f[x] + Cardinality(Shares(f, s \ {x}))
    BY <1>1, SharesRemoved
  <2>10. Cardinality(Shares(f, s \ {x})) \in Nat /\ f[x] \in Nat
    BY <1>1, SharesFinite
  <2>11. g[s] = base + Cardinality(Shares(f, s))
    BY <2>6, <2>8, <2>9, <2>10
  <2> QED
    BY <2>3, <2>11
<1> QED
  BY <1>2

LEMMA SumIsShares ==
  ASSUME NEW S, IsFiniteSet(S), NEW f, \A x \in S : f[x] \in Nat, NEW g,
         g[{}] = 0,
         \A s \in SUBSET S : s # {} => \E x \in s : g[s] = f[x] + g[s \ {x}]
  PROVE  g[S] = Cardinality(Shares(f, S))
<1>1. \A s \in SUBSET S : s # {} =>
        \E x \in s : g[s \ {x}] \in Int => g[s] = g[s \ {x}] + f[x]
  <2> SUFFICES ASSUME NEW s \in SUBSET S, s # {}
               PROVE  \E x \in s : g[s \ {x}] \in Int => g[s] = g[s \ {x}] + f[x]
    OBVIOUS
  <2>1. PICK x \in s : g[s] = f[x] + g[s \ {x}]
    OBVIOUS
  <2>2. f[x] \in Int
    OBVIOUS
  <2> QED
    BY <2>1, <2>2
<1>2. g[S] = 0 + Cardinality(Shares(f, S))
  <2> 0 \in Int
    OBVIOUS
  <2> QED
    BY <1>1, SumFromBase
<1>3. Cardinality(Shares(f, S)) \in Nat
  BY SharesFinite
<1> QED
  BY <1>2, <1>3
=============================================================================
