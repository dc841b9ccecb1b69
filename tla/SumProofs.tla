---- MODULE SumProofs ----
(***************************************************************************)
(* What the proofs of SendPath and Budget need to know of a sum over a     *)
(* finite set (SumFunctionOnSet of the community modules): it is a natural *)
(* number, it depends on the terms alone, and it grows by one when one of  *)
(* its terms does.                                                         *)
(*                                                                         *)
(* A sum is defined by recursion.  Induction is done here on a set of      *)
(* numbers instead of a predicate: a set that has 0 and the successor of   *)
(* each of its members is Nat (NatSet).                                    *)
(***************************************************************************)
EXTENDS Naturals, FiniteSets, Functions, FiniteSetTheorems, WellFoundedInduction, TLAPS

\* A nonempty set of natural numbers has a least element.
LEMMA LeastElement ==
  ASSUME NEW N \in SUBSET Nat, N # {}
  PROVE  \E n \in N : \A m \in N : n <= m
<1> DEFINE R == OpToRel(<, Nat)
<1>1. \E x \in N : \A y \in N : ~(<<y, x>> \in R)
  <2>1. IsWellFoundedOn(R, Nat)
    BY NatLessThanWellFounded
  <2> QED
    BY <2>1, WFMin
<1>2. \A x, y \in Nat : y < x => <<y, x>> \in R
  BY DEF OpToRel
<1> HIDE DEF R
<1>3. PICK x \in N : \A y \in N : ~(<<y, x>> \in R)
  BY <1>1
<1>4. ASSUME NEW y \in N PROVE x <= y
  <2>1. ~(<<y, x>> \in R)
    BY <1>3
  <2>2. ~(y < x)
    BY <2>1, <1>2
  <2> QED
    BY <2>2
<1> QED
  BY <1>4

\* Induction on a set of natural numbers.
LEMMA NatSet ==
  ASSUME NEW N \in SUBSET Nat, 0 \in N, \A n \in N : n + 1 \in N
  PROVE  N = Nat
<1> SUFFICES ASSUME N # Nat PROVE FALSE
  OBVIOUS
<1>1. PICK n \in Nat \ N : \A m \in Nat \ N : n <= m
  BY LeastElement
<1>2. n # 0 /\ n - 1 \in Nat /\ n - 1 \in N
  BY <1>1
<1> QED
  BY <1>1, <1>2

----------------------------------------------------------------------------
\* The element that the recursion takes out of T, and one level of the recursion.
First(T) == CHOOSE x \in T : TRUE

Unrolled(f, h, T) == IF T = {} THEN 0 ELSE f[First(T)] + h[T \ {First(T)}]

\* h is the table of the sums of f over the subsets of S.
Sums(f, S, h) ==
    /\ h \in [SUBSET S -> Nat]
    /\ \A T \in SUBSET S : h[T] = Unrolled(f, h, T)

\* A nonempty finite set loses one element with its first.
LEMMA FirstRemoved ==
  ASSUME NEW S, IsFiniteSet(S), NEW T \in SUBSET S, T # {}
  PROVE  /\ First(T) \in T /\ First(T) \in S
         /\ T \ {First(T)} \in SUBSET S
         /\ Cardinality(T) \in Nat \ {0}
         /\ Cardinality(T \ {First(T)}) = Cardinality(T) - 1
<1>1. First(T) \in T
  BY DEF First
<1>2. IsFiniteSet(T) /\ Cardinality(T) \in Nat
  BY FS_Subset, FS_CardinalityType
<1>3. Cardinality(T) # 0
  BY <1>2, FS_EmptySet
<1> QED
  BY <1>1, <1>2, <1>3, FS_RemoveElement

\* A subset of size zero is empty, and a table sums its elements to zero.
LEMMA EmptySubset ==
  ASSUME NEW S, IsFiniteSet(S), NEW T \in SUBSET S, Cardinality(T) <= 0
  PROVE  T = {}
<1> SUFFICES ASSUME T # {} PROVE FALSE
  OBVIOUS
<1>1. Cardinality(T) \in Nat \ {0}
  BY FirstRemoved
<1> QED
  BY <1>1

\* One level of the recursion, with the rest of the sum known.
LEMMA UnrolledType ==
  ASSUME NEW S, IsFiniteSet(S), NEW f, \A x \in S : f[x] \in Nat, NEW h, NEW T \in SUBSET S,
         T # {} => h[T \ {First(T)}] \in Nat
  PROVE  Unrolled(f, h, T) \in Nat
<1>1. CASE T = {}
  BY <1>1 DEF Unrolled
<1>2. CASE T # {}
  <2>1. f[First(T)] \in Nat /\ h[T \ {First(T)}] \in Nat
    BY <1>2, FirstRemoved
  <2> QED
    BY <1>2, <2>1 DEF Unrolled
<1> QED
  BY <1>1, <1>2

\* The table exists: it is filled in the order of the size of the subsets.
LEMMA SumsExist ==
  ASSUME NEW S, IsFiniteSet(S), NEW f, \A x \in S : f[x] \in Nat
  PROVE  \E h : Sums(f, S, h)
<1> DEFINE Filled(n) == \E h \in [SUBSET S -> Nat] :
             \A T \in SUBSET S : Cardinality(T) <= n => h[T] = Unrolled(f, h, T)
           N == {n \in Nat : Filled(n)}
<1>1. 0 \in N
  <2> DEFINE z == [T \in SUBSET S |-> 0]
  <2>1. ASSUME NEW T \in SUBSET S, Cardinality(T) <= 0 PROVE T = {}
    BY <2>1, EmptySubset
  <2>2. z \in [SUBSET S -> Nat] /\ \A T \in SUBSET S : Cardinality(T) <= 0 => z[T] = Unrolled(f, z, T)
    BY <2>1 DEF Unrolled
  <2> QED
    BY <2>2
<1>2. ASSUME NEW n \in N PROVE n + 1 \in N
  <2>1. PICK h \in [SUBSET S -> Nat] :
          \A T \in SUBSET S : Cardinality(T) <= n => h[T] = Unrolled(f, h, T)
    OBVIOUS
  <2> DEFINE g == [T \in SUBSET S |-> IF Cardinality(T) <= n THEN h[T] ELSE Unrolled(f, h, T)]
  <2>2. ASSUME NEW T \in SUBSET S PROVE Unrolled(f, h, T) \in Nat
    BY UnrolledType
  <2>3. g \in [SUBSET S -> Nat]
    BY <2>2
  <2>4. ASSUME NEW T \in SUBSET S, Cardinality(T) <= n + 1
        PROVE  g[T] = Unrolled(f, g, T)
    <3>1. g[T] = Unrolled(f, h, T)
      BY <2>1
    <3>2. CASE T = {}
      BY <3>1, <3>2 DEF Unrolled
    <3>3. CASE T # {}
      <4>1. T \ {First(T)} \in SUBSET S /\ Cardinality(T \ {First(T)}) <= n
        BY <2>4, <3>3, FirstRemoved
      <4>2. g[T \ {First(T)}] = h[T \ {First(T)}]
        BY <4>1
      <4> HIDE DEF g
      <4> QED
        BY <3>1, <3>3, <4>2 DEF Unrolled
    <3> QED
      BY <3>2, <3>3
  <2> HIDE DEF g
  <2> QED
    BY <2>3, <2>4
<1>3. N = Nat
  <2> HIDE DEF Filled
  <2>1. N \in SUBSET Nat
    OBVIOUS
  <2> HIDE DEF N
  <2> QED
    BY <1>1, <1>2, <2>1, NatSet
<1>4. Cardinality(S) \in Nat /\ \A T \in SUBSET S : Cardinality(T) <= Cardinality(S)
  BY FS_Subset, FS_CardinalityType
<1>5. Filled(Cardinality(S))
  BY <1>3, <1>4
<1> QED
  BY <1>4, <1>5 DEF Sums

\* A sum is read off that table.
LEMMA SumTable ==
  ASSUME NEW S, IsFiniteSet(S), NEW f, \A x \in S : f[x] \in Nat
  PROVE  \E h : Sums(f, S, h) /\ SumFunctionOnSet(f, S) = h[S]
<1> DEFINE h == CHOOSE h : h = [T \in SUBSET S |-> Unrolled(f, h, T)]
<1>1. SumFunctionOnSet(f, S) = h[S]
  BY DEF SumFunctionOnSet, FoldFunctionOnSet, MapThenFoldSet, Unrolled, First
<1>2. h = [T \in SUBSET S |-> Unrolled(f, h, T)]
  <2>1. PICK k : Sums(f, S, k)
    BY SumsExist
  <2>2. k = [T \in SUBSET S |-> Unrolled(f, k, T)]
    BY <2>1 DEF Sums
  <2> QED
    BY <2>2
<1> HIDE DEF h
<1>3. \A T \in SUBSET S : h[T] = Unrolled(f, h, T)
  BY <1>2
<1> DEFINE N == {n \in Nat : \A T \in SUBSET S : Cardinality(T) = n => h[T] \in Nat}
<1>4. 0 \in N
  <2>1. ASSUME NEW T \in SUBSET S, Cardinality(T) = 0 PROVE h[T] \in Nat
    <3>1. T = {}
      BY <2>1, EmptySubset
    <3>2. h[T] = Unrolled(f, h, T)
      BY <1>3
    <3> QED
      BY <3>1, <3>2, UnrolledType
  <2> QED
    BY <2>1
<1>5. ASSUME NEW n \in N PROVE n + 1 \in N
  <2>1. ASSUME NEW T \in SUBSET S, Cardinality(T) = n + 1 PROVE h[T] \in Nat
    <3>1. h[T] = Unrolled(f, h, T)
      BY <1>3
    <3>2. T # {} => h[T \ {First(T)}] \in Nat
      BY <2>1, FirstRemoved
    <3>3. Unrolled(f, h, T) \in Nat
      BY <3>2, UnrolledType
    <3> QED
      BY <3>1, <3>3
  <2> QED
    BY <2>1
<1>6. N = Nat
  <2>1. N \in SUBSET Nat
    OBVIOUS
  <2> HIDE DEF N
  <2> QED
    BY <1>4, <1>5, <2>1, NatSet
<1>7. \A T \in SUBSET S : h[T] \in Nat
  BY <1>6, FS_Subset, FS_CardinalityType
<1>8. Sums(f, S, h)
  BY <1>2, <1>3, <1>7 DEF Sums
<1> QED
  BY <1>1, <1>8

----------------------------------------------------------------------------
\* A sum of natural numbers is one.
LEMMA SumType ==
  ASSUME NEW S, IsFiniteSet(S), NEW f, \A x \in S : f[x] \in Nat
  PROVE  SumFunctionOnSet(f, S) \in Nat
<1>1. PICK h : Sums(f, S, h) /\ SumFunctionOnSet(f, S) = h[S]
  BY SumTable
<1> QED
  BY <1>1 DEF Sums

\* Terms that agree everywhere but at x, where the second is greater by d, have sums that
\* differ by d when x is in the set and are equal when it is not.
LEMMA SumChanged ==
  ASSUME NEW S, IsFiniteSet(S), NEW f, \A y \in S : f[y] \in Nat,
         NEW g, NEW x, NEW d \in Nat,
         \A y \in S : g[y] = f[y] + (IF y = x THEN d ELSE 0)
  PROVE  SumFunctionOnSet(g, S) = SumFunctionOnSet(f, S) + (IF x \in S THEN d ELSE 0)
<1>0. \A y \in S : g[y] \in Nat
  OBVIOUS
<1>1. PICK h : Sums(f, S, h) /\ SumFunctionOnSet(f, S) = h[S]
  BY SumTable
<1>2. PICK k : Sums(g, S, k) /\ SumFunctionOnSet(g, S) = k[S]
  BY <1>0, SumTable
<1> DEFINE More(T) == IF x \in T THEN d ELSE 0
           N == {n \in Nat : \A T \in SUBSET S : Cardinality(T) = n => k[T] = h[T] + More(T)}
<1>3. 0 \in N
  <2>1. ASSUME NEW T \in SUBSET S, Cardinality(T) = 0 PROVE k[T] = h[T] + More(T)
    <3>1. T = {}
      BY <2>1, EmptySubset
    <3>2. h[T] = 0 /\ k[T] = 0
      BY <1>1, <1>2, <3>1 DEF Sums, Unrolled
    <3> QED
      BY <3>1, <3>2
  <2> QED
    BY <2>1
<1>4. ASSUME NEW n \in N PROVE n + 1 \in N
  <2>1. ASSUME NEW T \in SUBSET S, Cardinality(T) = n + 1 PROVE k[T] = h[T] + More(T)
    <3> DEFINE y == First(T)
               R == T \ {y}
    <3>1. T # {}
      <4>1. Cardinality({}) = 0
        BY FS_EmptySet
      <4>2. Cardinality(T) # 0
        <5>1. n \in Nat
          OBVIOUS
        <5> QED
          BY <2>1, <5>1
      <4> QED
        BY <4>1, <4>2, Zenon
    <3>2. y \in T /\ y \in S /\ R \in SUBSET S /\ Cardinality(R) = n
      BY <2>1, <3>1, FirstRemoved
    <3>3. k[R] = h[R] + More(R)
      BY <3>2
    <3>4. h[T] = f[y] + h[R] /\ k[T] = g[y] + k[R]
      BY <1>1, <1>2, <3>1 DEF Sums, Unrolled
    <3>5. f[y] \in Nat /\ h[R] \in Nat /\ g[y] = f[y] + (IF y = x THEN d ELSE 0)
      BY <1>1, <3>2 DEF Sums
    <3>6. More(T) = (IF y = x THEN d ELSE 0) + More(R)
      BY <3>2
    <3> HIDE DEF y, R, More
    <3>7. More(R) \in Nat
      BY DEF More
    <3> QED
      BY <3>3, <3>4, <3>5, <3>6, <3>7
  <2> QED
    BY <2>1
<1>5. N = Nat
  <2>1. N \in SUBSET Nat
    OBVIOUS
  <2> HIDE DEF N
  <2> QED
    BY <1>3, <1>4, <2>1, NatSet
<1>6. Cardinality(S) \in N /\ S \in SUBSET S
  BY <1>5, FS_CardinalityType
<1> QED
  BY <1>1, <1>2, <1>6

\* A sum depends on its terms alone.
LEMMA SumSame ==
  ASSUME NEW S, IsFiniteSet(S), NEW f, \A y \in S : f[y] \in Nat,
         NEW g, \A y \in S : g[y] = f[y]
  PROVE  SumFunctionOnSet(g, S) = SumFunctionOnSet(f, S)
<1>1. \A y \in S : g[y] = f[y] + (IF y = S THEN 0 ELSE 0)
  OBVIOUS
<1>2. SumFunctionOnSet(g, S) = SumFunctionOnSet(f, S) + (IF S \in S THEN 0 ELSE 0)
  <2>1. 0 \in Nat
    OBVIOUS
  <2> QED
    BY <1>1, <2>1, SumChanged
<1>3. SumFunctionOnSet(f, S) \in Nat
  BY SumType
<1> QED
  BY <1>2, <1>3

\* One term more makes the sum one more.
LEMMA SumIncremented ==
  ASSUME NEW S, IsFiniteSet(S), NEW f, \A y \in S : f[y] \in Nat,
         NEW g, NEW x \in S, \A y \in S : g[y] = IF y = x THEN f[y] + 1 ELSE f[y]
  PROVE  SumFunctionOnSet(g, S) = SumFunctionOnSet(f, S) + 1
<1>1. \A y \in S : g[y] = f[y] + (IF y = x THEN 1 ELSE 0)
  OBVIOUS
<1> QED
  BY <1>1, SumChanged

\* Smaller terms have a smaller sum.
LEMMA SumMonotone ==
  ASSUME NEW S, IsFiniteSet(S), NEW f, \A y \in S : f[y] \in Nat,
         NEW g, \A y \in S : g[y] \in Nat /\ g[y] <= f[y]
  PROVE  SumFunctionOnSet(g, S) <= SumFunctionOnSet(f, S)
<1>1. PICK h : Sums(f, S, h) /\ SumFunctionOnSet(f, S) = h[S]
  BY SumTable
<1>2. PICK k : Sums(g, S, k) /\ SumFunctionOnSet(g, S) = k[S]
  BY SumTable
<1> DEFINE N == {n \in Nat : \A T \in SUBSET S : Cardinality(T) = n => k[T] <= h[T]}
<1>3. 0 \in N
  <2>1. ASSUME NEW T \in SUBSET S, Cardinality(T) = 0 PROVE k[T] <= h[T]
    <3>1. T = {}
      BY <2>1, EmptySubset
    <3>2. h[T] = 0 /\ k[T] = 0
      BY <1>1, <1>2, <3>1 DEF Sums, Unrolled
    <3> QED
      BY <3>2
  <2> QED
    BY <2>1
<1>4. ASSUME NEW n \in N PROVE n + 1 \in N
  <2>1. ASSUME NEW T \in SUBSET S, Cardinality(T) = n + 1 PROVE k[T] <= h[T]
    <3>1. CASE T = {}
      <4>1. h[T] = 0 /\ k[T] = 0
        BY <1>1, <1>2, <3>1 DEF Sums, Unrolled
      <4> QED
        BY <4>1
    <3>2. CASE T # {}
      <4> DEFINE y == First(T)
                 R == T \ {y}
      <4>1. y \in S /\ R \in SUBSET S /\ k[R] <= h[R]
        BY <2>1, <3>2, FirstRemoved
      <4>2. h[T] = f[y] + h[R] /\ k[T] = g[y] + k[R]
        BY <1>1, <1>2, <3>2 DEF Sums, Unrolled
      <4>3. /\ f[y] \in Nat /\ g[y] \in Nat /\ g[y] <= f[y]
            /\ h[R] \in Nat /\ k[R] \in Nat
        BY <1>1, <1>2, <4>1 DEF Sums
      <4> HIDE DEF y, R
      <4> QED
        BY <4>1, <4>2, <4>3
    <3> QED
      BY <3>1, <3>2
  <2> QED
    BY <2>1
<1>5. N = Nat
  <2>1. N \in SUBSET Nat
    OBVIOUS
  <2> HIDE DEF N
  <2> QED
    BY <1>3, <1>4, <2>1, NatSet
<1>6. Cardinality(S) \in N /\ S \in SUBSET S
  BY <1>5, FS_CardinalityType
<1> QED
  BY <1>1, <1>2, <1>6

\* A sum of zeros is zero.
LEMMA SumZero ==
  ASSUME NEW S, IsFiniteSet(S), NEW f, \A y \in S : f[y] = 0
  PROVE  SumFunctionOnSet(f, S) = 0
<1>1. PICK h : Sums(f, S, h) /\ SumFunctionOnSet(f, S) = h[S]
  <2>1. \A y \in S : f[y] \in Nat
    OBVIOUS
  <2> QED
    BY <2>1, SumTable
<1> DEFINE N == {n \in Nat : \A T \in SUBSET S : Cardinality(T) = n => h[T] = 0}
<1>2. 0 \in N
  <2>1. ASSUME NEW T \in SUBSET S, Cardinality(T) = 0 PROVE h[T] = 0
    <3>1. T = {}
      BY <2>1, EmptySubset
    <3> QED
      BY <1>1, <3>1 DEF Sums, Unrolled
  <2> QED
    BY <2>1
<1>3. ASSUME NEW n \in N PROVE n + 1 \in N
  <2>1. ASSUME NEW T \in SUBSET S, Cardinality(T) = n + 1 PROVE h[T] = 0
    <3>1. CASE T = {}
      BY <1>1, <3>1 DEF Sums, Unrolled
    <3>2. CASE T # {}
      <4>1. f[First(T)] = 0 /\ h[T \ {First(T)}] = 0
        BY <2>1, <3>2, FirstRemoved
      <4> QED
        BY <1>1, <3>2, <4>1 DEF Sums, Unrolled
    <3> QED
      BY <3>1, <3>2
  <2> QED
    BY <2>1
<1>4. N = Nat
  <2>1. N \in SUBSET Nat
    OBVIOUS
  <2> HIDE DEF N
  <2> QED
    BY <1>2, <1>3, <2>1, NatSet
<1> QED
  BY <1>1, <1>4, FS_CardinalityType
====
