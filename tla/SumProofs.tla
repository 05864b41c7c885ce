------------------------------- MODULE SumProofs -------------------------------
(***************************************************************************)
(* Facts that the proofs about the counters and the channel maps share: a  *)
(* set of natural numbers has a least one, and the sum of a function over  *)
(* a finite set (MapThenSumSet of the community modules) grows by what one *)
(* of its values grows by.  The sum is a recursive function on sets, so    *)
(* that such a function exists has to be shown first: the least number of  *)
(* members for which it would not is no such number.                       *)
(***************************************************************************)
EXTENDS Integers, FiniteSets, FiniteSetsExt, FiniteSetTheorems, WellFoundedInduction, TLAPS

(* A set of natural numbers that is not empty has a least one: x has the       *)
(* smallest 0 .. x - 1.                                                        *)
LEMMA LeastNatural ==
  ASSUME NEW X \in SUBSET Nat, X # {}
  PROVE  \E x \in X : \A y \in X : x <= y
<1> DEFINE Below(x) == 0 .. x - 1
           T == {Below(x) : x \in X}
<1>1. T # {}
  OBVIOUS
<1>2. T \subseteq FiniteSubsetsOf(Nat)
  <2> SUFFICES ASSUME NEW x \in X PROVE Below(x) \in FiniteSubsetsOf(Nat)
    OBVIOUS
  <2>1. Below(x) \in SUBSET Nat
    OBVIOUS
  <2>2. IsFiniteSet(0 .. x - 1)
    BY FS_Interval, x - 1 \in Int
  <2> QED
    BY <2>1, <2>2 DEF FiniteSubsetsOf
<1>3. IsWellFoundedOn(StrictSubsetOrdering(Nat), FiniteSubsetsOf(Nat))
  BY FS_StrictSubsetOrderingWellFounded
<1>4. PICK S \in T : \A R \in T : <<R, S>> \notin StrictSubsetOrdering(Nat)
  <2> HIDE DEF T
  <2> QED
    BY <1>1, <1>2, <1>3, WFMin
<1>5. PICK x \in X : S = Below(x)
  BY <1>4
<1>6. ASSUME NEW y \in X, y < x PROVE FALSE
  <2>1. Below(y) \in T
    OBVIOUS
  <2>2. Below(y) \in SUBSET Nat /\ Below(x) \in SUBSET Nat
    OBVIOUS
  <2>3. Below(y) \subseteq Below(x) /\ y \in Below(x) /\ y \notin Below(y)
    BY <1>6
  <2>4. <<Below(y), Below(x)>> \in StrictSubsetOrdering(Nat)
    BY <2>2, <2>3 DEF StrictSubsetOrdering
  <2> QED
    BY <1>4, <1>5, <2>1, <2>4
<1> QED
  BY <1>6

-----------------------------------------------------------------------------
(* The member of a set that the sum takes first. *)
First(s) == CHOOSE x \in s : TRUE

(* The sums of f over the subsets of D, as MapThenSumSet computes them. *)
IsSum(h, f, s) == h[s] = IF s = {} THEN 0 ELSE f[First(s)] + h[s \ {First(s)}]

Sums(f, D) ==
  CHOOSE h : h = [s \in SUBSET D |-> IF s = {} THEN 0 ELSE f[First(s)] + h[s \ {First(s)}]]

SumOver(f, D) == Sums(f, D)[D]

(* The sum of the community modules is the last of these sums. *)
LEMMA SumIsSumOver ==
  ASSUME NEW f, NEW D
  PROVE  MapThenSumSet(LAMBDA x : f[x], D) = SumOver(f, D)
  BY DEF MapThenSumSet, MapThenFoldSet, SumOver, Sums, First

(* What is left of a subset without its first member. *)
LEMMA RestFacts ==
  ASSUME NEW D, IsFiniteSet(D), NEW s \in SUBSET D, s # {}
  PROVE  /\ First(s) \in s /\ First(s) \in D /\ s \ {First(s)} \in SUBSET D
         /\ Cardinality(s) \in Nat /\ Cardinality(s \ {First(s)}) \in Nat
         /\ Cardinality(s \ {First(s)}) = Cardinality(s) - 1
<1>1. First(s) \in s
  BY DEF First
<1>2. IsFiniteSet(s) /\ IsFiniteSet(s \ {First(s)})
  BY FS_Subset
<1>3. Cardinality(s \ {First(s)}) = Cardinality(s) - 1
  BY <1>1, <1>2, FS_RemoveElement
<1> QED
  BY <1>1, <1>2, <1>3, FS_CardinalityType

(* There are sums of the subsets of up to n members, for every n. *)
LEMMA SumsExistUpTo ==
  ASSUME NEW D, IsFiniteSet(D), NEW f \in [D -> Nat], NEW n \in Nat
  PROVE  \E h \in [SUBSET D -> Nat] : \A s \in SUBSET D : Cardinality(s) <= n => IsSum(h, f, s)
<1> DEFINE Fits(h, k) == \A s \in SUBSET D : Cardinality(s) <= k => IsSum(h, f, s)
           Bad == {k \in Nat : \A h \in [SUBSET D -> Nat] : ~Fits(h, k)}
<1> SUFFICES ASSUME Bad # {} PROVE FALSE
  OBVIOUS
<1>1. PICK k \in Bad : \A m \in Bad : k <= m
  BY LeastNatural, Bad \in SUBSET Nat
<1>2. CASE k = 0
  <2> DEFINE z == [s \in SUBSET D |-> 0]
  <2>1. ASSUME NEW s \in SUBSET D, Cardinality(s) <= 0 PROVE IsSum(z, f, s)
    <3>1. s = {}
      <4>1. IsFiniteSet(s)
        BY FS_Subset
      <4>2. Cardinality(s) = 0
        BY <2>1, <4>1, FS_CardinalityType
      <4> QED
        BY <4>1, <4>2, FS_EmptySet
    <3> QED
      BY <3>1 DEF IsSum
  <2>2. z \in [SUBSET D -> Nat]
    OBVIOUS
  <2> HIDE DEF z
  <2> QED
    BY <1>1, <1>2, <2>1, <2>2
<1>3. CASE k > 0
  <2>1. k \in Nat /\ k - 1 \in Nat /\ k - 1 \notin Bad
    <3>1. k \in Nat
      BY <1>1
    <3>2. k - 1 \in Nat /\ ~(k <= k - 1)
      BY <1>3, <3>1
    <3> HIDE DEF Bad
    <3> QED
      BY <1>1, <3>1, <3>2
  <2>2. PICK h \in [SUBSET D -> Nat] : Fits(h, k - 1)
    BY <2>1
  <2> DEFINE g == [s \in SUBSET D |-> IF Cardinality(s) = k
                                      THEN f[First(s)] + h[s \ {First(s)}] ELSE h[s]]
  <2>3. g \in [SUBSET D -> Nat]
    <3> SUFFICES ASSUME NEW s \in SUBSET D
                 PROVE  (IF Cardinality(s) = k THEN f[First(s)] + h[s \ {First(s)}] ELSE h[s]) \in Nat
      OBVIOUS
    <3>1. CASE Cardinality(s) = k
      <4>1. s # {}
        <5>1. Cardinality(s) # 0
          BY <1>3, <3>1
        <5>2. IsFiniteSet(s)
          BY FS_Subset
        <5> QED
          BY <5>1, <5>2, FS_EmptySet
      <4>2. First(s) \in D /\ s \ {First(s)} \in SUBSET D
        BY <4>1, RestFacts
      <4>3. f[First(s)] \in Nat /\ h[s \ {First(s)}] \in Nat
        BY <4>2
      <4> QED
        BY <3>1, <4>3
    <3>2. CASE Cardinality(s) # k
      BY <3>2
    <3> QED
      BY <3>1, <3>2
  <2>4. ASSUME NEW s \in SUBSET D, Cardinality(s) <= k PROVE IsSum(g, f, s)
    <3>1. CASE s = {}
      <4>1. Cardinality(s) = 0
        BY <3>1, FS_EmptySet
      <4>2. g[s] = h[s]
        BY <1>3, <4>1
      <4>3. IsSum(h, f, s)
        BY <2>1, <2>2, <4>1
      <4> QED
        BY <3>1, <4>2, <4>3 DEF IsSum
    <3>2. CASE s # {}
      <4> DEFINE r == s \ {First(s)}
      <4>1. r \in SUBSET D /\ Cardinality(s) \in Nat /\ Cardinality(r) = Cardinality(s) - 1
        BY <3>2, RestFacts
      <4>2. g[r] = h[r]
        BY <2>1, <2>4, <4>1
      <4>3. g[s] = f[First(s)] + h[r]
        <5>1. CASE Cardinality(s) = k
          BY <5>1
        <5>2. CASE Cardinality(s) # k
          <6>1. Cardinality(s) <= k - 1
            BY <2>1, <2>4, <4>1, <5>2
          <6>2. IsSum(h, f, s)
            BY <2>2, <6>1
          <6> QED
            BY <3>2, <5>2, <6>2 DEF IsSum
        <5> QED
          BY <5>1, <5>2
      <4> HIDE DEF g
      <4> QED
        BY <3>2, <4>2, <4>3 DEF IsSum
    <3> QED
      BY <3>1, <3>2
  <2> HIDE DEF g
  <2>5. Fits(g, k)
    BY <2>4
  <2> QED
    BY <1>1, <2>3, <2>5
<1> QED
  BY <1>1, <1>2, <1>3

(* The sums are natural numbers and satisfy their equation. *)
LEMMA SumsFacts ==
  ASSUME NEW D, IsFiniteSet(D), NEW f \in [D -> Nat]
  PROVE  Sums(f, D) \in [SUBSET D -> Nat] /\ \A s \in SUBSET D : IsSum(Sums(f, D), f, s)
<1>1. Cardinality(D) \in Nat
  BY FS_CardinalityType
<1>2. PICK h \in [SUBSET D -> Nat] : \A s \in SUBSET D : Cardinality(s) <= Cardinality(D) => IsSum(h, f, s)
  <2>1. \A n \in Nat : \E h \in [SUBSET D -> Nat] :
          \A s \in SUBSET D : Cardinality(s) <= n => IsSum(h, f, s)
    BY SumsExistUpTo
  <2> QED
    BY <1>1, <2>1
<1>3. ASSUME NEW s \in SUBSET D PROVE IsSum(h, f, s)
  <2>1. Cardinality(s) <= Cardinality(D)
    BY FS_Subset
  <2> QED
    BY <1>2, <2>1
<1>4. h = [s \in SUBSET D |-> IF s = {} THEN 0 ELSE f[First(s)] + h[s \ {First(s)}]]
  BY <1>3 DEF IsSum
<1> DEFINE IsSums(g) == g = [s \in SUBSET D |-> IF s = {} THEN 0 ELSE f[First(s)] + g[s \ {First(s)}]]
<1>5. IsSums(Sums(f, D))
  <2>1. \E g : IsSums(g)
    BY <1>4
  <2>2. Sums(f, D) = CHOOSE g : IsSums(g)
    BY DEF Sums
  <2> HIDE DEF IsSums
  <2> QED
    BY <2>1, <2>2
<1> DEFINE S == Sums(f, D)
<1>6. \A s \in SUBSET D : IsSum(S, f, s)
  BY <1>5 DEF IsSum
<1>7. S \in [SUBSET D -> Nat]
  <2> DEFINE Differ == {k \in Nat : \E s \in SUBSET D : Cardinality(s) = k /\ S[s] # h[s]}
  <2>1. Differ = {}
    <3> SUFFICES ASSUME Differ # {} PROVE FALSE
      OBVIOUS
    <3>1. PICK k \in Differ : \A m \in Differ : k <= m
      BY LeastNatural, Differ \in SUBSET Nat
    <3>2. PICK s \in SUBSET D : Cardinality(s) = k /\ S[s] # h[s]
      BY <3>1
    <3> HIDE DEF S
    <3>3. s # {}
      BY <1>3, <1>6, <3>2 DEF IsSum
    <3> DEFINE r == s \ {First(s)}
    <3>4. r \in SUBSET D /\ Cardinality(r) \in Nat /\ Cardinality(r) = k - 1
      BY <3>2, <3>3, RestFacts
    <3>5. k - 1 \notin Differ
      BY <3>1
    <3>6. S[r] = h[r]
      BY <3>4, <3>5
    <3> QED
      BY <1>3, <1>6, <3>2, <3>3, <3>6 DEF IsSum
  <2>2. \A s \in SUBSET D : S[s] = h[s]
    <3> SUFFICES ASSUME NEW s \in SUBSET D PROVE S[s] = h[s]
      OBVIOUS
    <3>1. Cardinality(s) \in Nat
      BY FS_Subset, FS_CardinalityType
    <3> HIDE DEF S
    <3> QED
      BY <2>1, <3>1
  <2>3. S = [s \in SUBSET D |-> S[s]]
    BY <1>5
  <2> HIDE DEF S
  <2> QED
    BY <2>2, <2>3
<1> QED
  BY <1>6, <1>7

(* A sum of zeros is zero. *)
LEMMA SumOfZeros ==
  ASSUME NEW D, IsFiniteSet(D)
  PROVE  SumOver([x \in D |-> 0], D) = 0
<1> DEFINE f == [x \in D |-> 0]
           S == Sums(f, D)
           Bad == {k \in Nat : \E s \in SUBSET D : Cardinality(s) = k /\ S[s] # 0}
<1>1. f \in [D -> Nat] /\ \A x \in D : f[x] = 0
  OBVIOUS
<1> HIDE DEF f
<1>2. S \in [SUBSET D -> Nat] /\ \A s \in SUBSET D : IsSum(S, f, s)
  BY <1>1, SumsFacts
<1> HIDE DEF S
<1>3. ASSUME Bad # {} PROVE FALSE
  <2>1. PICK k \in Bad : \A m \in Bad : k <= m
    BY <1>3, LeastNatural, Bad \in SUBSET Nat
  <2>2. PICK s \in SUBSET D : Cardinality(s) = k /\ S[s] # 0
    BY <2>1
  <2>3. s # {}
    BY <1>2, <2>2 DEF IsSum
  <2> DEFINE r == s \ {First(s)}
  <2>4. r \in SUBSET D /\ Cardinality(r) \in Nat /\ Cardinality(r) = k - 1 /\ First(s) \in D
    BY <2>2, <2>3, RestFacts
  <2>5. k - 1 \notin Bad
    BY <2>1
  <2>6. S[r] = 0
    BY <2>4, <2>5
  <2> QED
    BY <1>1, <1>2, <2>2, <2>3, <2>4, <2>6 DEF IsSum
<1>4. Cardinality(D) \in Nat /\ D \in SUBSET D
  BY FS_CardinalityType
<1> QED
  BY <1>3, <1>4 DEF SumOver, S, f

(* When one value grows, the sum grows by as much. *)
LEMMA SumGrows ==
  ASSUME NEW D, IsFiniteSet(D), NEW f \in [D -> Nat], NEW x \in D, NEW n \in Nat
  PROVE  /\ SumOver(f, D) \in Nat
         /\ SumOver([f EXCEPT ![x] = @ + n], D) = SumOver(f, D) + n
<1> DEFINE g == [f EXCEPT ![x] = @ + n]
           S == Sums(f, D)
           T == Sums(g, D)
           Grown(s) == T[s] = S[s] + (IF x \in s THEN n ELSE 0)
           Bad == {k \in Nat : \E s \in SUBSET D : Cardinality(s) = k /\ ~Grown(s)}
<1>1. g \in [D -> Nat] /\ g[x] = f[x] + n /\ \A y \in D : y # x => g[y] = f[y]
  OBVIOUS
<1> HIDE DEF g
<1>2. S \in [SUBSET D -> Nat] /\ \A s \in SUBSET D : IsSum(S, f, s)
  BY SumsFacts
<1>3. T \in [SUBSET D -> Nat] /\ \A s \in SUBSET D : IsSum(T, g, s)
  BY <1>1, SumsFacts
<1> HIDE DEF S, T
<1>4. ASSUME Bad # {} PROVE FALSE
  <2>1. PICK k \in Bad : \A m \in Bad : k <= m
    BY <1>4, LeastNatural, Bad \in SUBSET Nat
  <2>2. PICK s \in SUBSET D : Cardinality(s) = k /\ ~Grown(s)
    BY <2>1
  <2>3. s # {}
    <3> SUFFICES ASSUME s = {} PROVE FALSE
      OBVIOUS
    <3>1. S[s] = 0 /\ T[s] = 0 /\ x \notin s
      BY <1>2, <1>3 DEF IsSum
    <3> QED
      BY <2>2, <3>1
  <2> DEFINE r == s \ {First(s)}
  <2>4. /\ r \in SUBSET D /\ Cardinality(r) \in Nat /\ Cardinality(r) = k - 1
        /\ First(s) \in D /\ First(s) \in s
    BY <2>2, <2>3, RestFacts
  <2>5. k - 1 \notin Bad
    BY <2>1
  <2>6. Grown(r)
    BY <2>4, <2>5
  <2>7. S[s] = f[First(s)] + S[r] /\ T[s] = g[First(s)] + T[r]
    BY <1>2, <1>3, <2>3 DEF IsSum
  <2>8. f[First(s)] \in Nat /\ S[r] \in Nat
    BY <1>2, <2>4
  <2>9. CASE First(s) = x
    <3>1. x \in s /\ x \notin r
      BY <2>4, <2>9
    <3> QED
      BY <1>1, <2>2, <2>6, <2>7, <2>8, <2>9, <3>1
  <2>10. CASE First(s) # x
    <3>1. x \in s <=> x \in r
      BY <2>10
    <3> QED
      BY <1>1, <2>2, <2>4, <2>6, <2>7, <2>8, <2>10, <3>1
  <2> QED
    BY <2>9, <2>10
<1>5. Cardinality(D) \in Nat /\ D \in SUBSET D
  BY FS_CardinalityType
<1>6. Grown(D)
  BY <1>4, <1>5
<1>7. S[D] \in Nat
  BY <1>2, <1>5
<1> QED
  BY <1>6, <1>7 DEF SumOver, S, T, g
=============================================================================
