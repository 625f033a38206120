---------------------------- MODULE DataTheorems ----------------------------
(***************************************************************************)
(* What the proofs need of data: induction over the natural numbers and    *)
(* over the subsets of a finite set, sums, sorting, flattening, partitions *)
(* and grids.  Every step of an induction is stated with a set (of the     *)
(* numbers or subsets for which a formula holds) instead of the formula.   *)
(***************************************************************************)
EXTENDS Integers, SequencesExt, FiniteSetTheorems, SequenceTheorems, WellFoundedInduction, TLAPS

-----------------------------------------------------------------------------
(* Induction over the natural numbers, from well-foundedness.              *)

LEMMA Smallest ==
    ASSUME NEW T, T \subseteq Nat, T # {}
    PROVE  \E x \in T : \A y \in T : x <= y
  <1>1. IsWellFoundedOn(OpToRel(<, Nat), Nat)
    BY NatLessThanWellFounded
  <1>2. PICK x \in T : \A y \in T : ~(<<y, x>> \in OpToRel(<, Nat))
    BY <1>1, WFMin
  <1>3. ASSUME NEW y \in T PROVE x <= y
    <2>1. ~(<<y, x>> \in OpToRel(<, Nat))
      BY <1>2, <1>3
    <2>2. ~(y < x)
      BY <2>1, <1>3 DEF OpToRel
    <2> QED BY <2>2, <1>3
  <1> QED BY <1>2, <1>3

LEMMA Induct ==
    ASSUME NEW S, 0 \in S, \A n \in Nat : n \in S => n + 1 \in S
    PROVE  Nat \subseteq S
  <1> DEFINE T == Nat \ S
  <1> SUFFICES ASSUME T # {} PROVE FALSE
    OBVIOUS
  <1>1. PICK x \in T : \A y \in T : x <= y
    <2>1. T \subseteq Nat
      OBVIOUS
    <2> QED BY <2>1, Smallest
  <1>2. x # 0
    OBVIOUS
  <1>3. x - 1 \in Nat /\ ~(x <= x - 1)
    BY <1>2
  <1>4. x - 1 \in S
    BY <1>1, <1>3
  <1>5. x - 1 + 1 = x
    OBVIOUS
  <1>6. x \in S
    BY <1>3, <1>4, <1>5
  <1> QED BY <1>6

-----------------------------------------------------------------------------
(* The sum of a function with a finite domain.                             *)

Pick(s) == CHOOSE x \in s : TRUE
Without(s) == s \ {Pick(s)}

\* What defines the sums of a function over the subsets of its domain
SumStep(F, g, s) == IF s = {} THEN 0 ELSE F[Pick(s)] + g[Without(s)]
IsIter(F, iter) == iter = [s \in SUBSET DOMAIN F |-> SumStep(F, iter, s)]
Iter(F) == CHOOSE iter : IsIter(F, iter)

LEMMA SumUnfolds ==
    ASSUME NEW F PROVE SumFunction(F) = Iter(F)[DOMAIN F]
  BY DEF SumFunction, SumFunctionOnSet, FoldFunctionOnSet, MapThenFoldSet,
         Iter, IsIter, SumStep, Pick, Without

LEMMA WithoutOne ==
    ASSUME NEW D, IsFiniteSet(D), NEW s \in SUBSET D, NEW k \in s
    PROVE  /\ IsFiniteSet(s) /\ s \ {k} \in SUBSET D
           /\ Cardinality(s) \in Nat \ {0} /\ Cardinality(s \ {k}) = Cardinality(s) - 1
  <1>1. IsFiniteSet(s)
    BY FS_Subset
  <1>2. Cardinality(s) \in Nat /\ Cardinality(s \ {k}) = Cardinality(s) - 1
    BY <1>1, FS_RemoveElement, FS_CardinalityType
  <1>3. IsFiniteSet(s \ {k}) /\ Cardinality(s \ {k}) \in Nat
    BY <1>1, FS_Subset, FS_CardinalityType
  <1> QED BY <1>1, <1>2, <1>3

LEMMA PickIn == \A s : s # {} => Pick(s) \in s
  BY DEF Pick

\* Induction over the subsets of a finite set, by their cardinality.
Small(D, n) == {s \in SUBSET D : Cardinality(s) <= n}

LEMMA SmallSets ==
    ASSUME NEW D, IsFiniteSet(D)
    PROVE  /\ Small(D, 0) = {{}}
           /\ \A n \in Nat : {} \in Small(D, n)
           /\ \A n \in Nat : \A s \in Small(D, n + 1) : \A k \in s : s \ {k} \in Small(D, n)
           /\ \E n \in Nat : SUBSET D = Small(D, n)
  <1>1. Cardinality({}) = 0 
    BY FS_EmptySet
  <1>2. \A s \in SUBSET D : IsFiniteSet(s) /\ Cardinality(s) \in Nat /\ Cardinality(s) <= Cardinality(D)
    BY FS_Subset, FS_CardinalityType
  <1>3. Small(D, 0) = {{}}
    <2>1. ASSUME NEW s \in Small(D, 0) PROVE s = {}
      <3>1. Cardinality(s) = 0 /\ IsFiniteSet(s)
        BY <1>2 DEF Small
      <3> QED BY <3>1, FS_EmptySet
    <2> QED BY <1>1, <2>1 DEF Small
  <1>4. \A n \in Nat : {} \in Small(D, n)
    BY <1>1 DEF Small
  <1>5. ASSUME NEW n \in Nat, NEW s \in Small(D, n + 1), NEW k \in s
        PROVE  s \ {k} \in Small(D, n)
    BY WithoutOne, <1>2 DEF Small
  <1>6. Cardinality(D) \in Nat /\ SUBSET D = Small(D, Cardinality(D))
    BY <1>2, FS_CardinalityType DEF Small
  <1> QED BY <1>3, <1>4, <1>5, <1>6

LEMMA SubsetInduct ==
    ASSUME NEW D, IsFiniteSet(D), NEW P, {} \in P,
           \A s \in SUBSET D : s # {} /\ (\A k \in s : s \ {k} \in P) => s \in P
    PROVE  SUBSET D \subseteq P
  <1> DEFINE S == {n \in Nat : Small(D, n) \subseteq P}
  <1>1. 0 \in S
    BY SmallSets
  <1>2. ASSUME NEW n \in Nat, n \in S PROVE n + 1 \in S
    <2>1. ASSUME NEW s \in Small(D, n + 1) PROVE s \in P
      <3>1. \A k \in s : s \ {k} \in P
        BY <1>2, SmallSets
      <3> QED BY <3>1 DEF Small
    <2> QED BY <2>1
  <1> HIDE DEF S
  <1>3. Nat \subseteq S
    BY <1>1, <1>2, Induct
  <1>4. PICK n \in Nat : SUBSET D = Small(D, n)
    BY SmallSets
  <1> QED BY <1>3, <1>4 DEF S

\* Whichever element is taken first, the sums over the subsets of a finite set
\* can be defined by taking one element after the other.
SumsWith(D, F, pick, g) ==
    g = [s \in SUBSET D |-> IF s = {} THEN 0 ELSE F[pick[s]] + g[s \ {pick[s]}]]

LEMMA SumsExist ==
    ASSUME NEW D, IsFiniteSet(D), NEW F, NEW pick, \A s \in SUBSET D : s # {} => pick[s] \in s
    PROVE  \E g : SumsWith(D, F, pick, g)
  <1> DEFINE Sum(g, s) == IF s = {} THEN 0 ELSE F[pick[s]] + g[s \ {pick[s]}]
             Below(n, g) == g = [s \in Small(D, n) |-> Sum(g, s)]
             S == {n \in Nat : \E g : Below(n, g)}
  <1>1. 0 \in S
    <2> DEFINE g == [s \in {{}} |-> 0]
    <2>1. Small(D, 0) = {{}}
      BY SmallSets
    <2>2. g = [s \in Small(D, 0) |-> Sum(g, s)]
      BY <2>1
    <2> QED BY <2>2
  <1>2. ASSUME NEW n \in Nat, n \in S PROVE n + 1 \in S
    <2>1. PICK g : Below(n, g)
      BY <1>2
    <2> DEFINE h == [s \in Small(D, n + 1) |-> Sum(g, s)]
    <2>2. ASSUME NEW s \in Small(D, n + 1), s # {}
          PROVE  h[s \ {pick[s]}] = g[s \ {pick[s]}]
      <3>0. pick[s] \in s
        BY <2>2 DEF Small
      <3>1. s \ {pick[s]} \in Small(D, n)
        BY <3>0, SmallSets
      <3>2. s \ {pick[s]} \in Small(D, n + 1)
        BY <3>1, FS_Subset, FS_CardinalityType DEF Small
      <3> QED BY <2>1, <3>1, <3>2
    <2>3. ASSUME NEW s \in Small(D, n + 1) PROVE Sum(h, s) = Sum(g, s)
      <3>1. CASE s = {}
        BY <3>1
      <3>2. CASE s # {}
        <4> HIDE DEF h
        <4> QED BY <2>2, <3>2
      <3> QED BY <3>1, <3>2
    <2>4. h = [s \in Small(D, n + 1) |-> Sum(h, s)]
      <3> HIDE DEF Sum
      <3> QED BY <2>3
    <2> HIDE DEF h, Sum
    <2>5. Below(n + 1, h)
      BY <2>4
    <2> QED BY <2>5
  <1> HIDE DEF S
  <1>3. Nat \subseteq S
    BY <1>1, <1>2, Induct
  <1>4. PICK n \in Nat : SUBSET D = Small(D, n)
    BY SmallSets
  <1>5. PICK g : g = [s \in Small(D, n) |-> Sum(g, s)]
    BY <1>3 DEF S
  <1>6. SumsWith(D, F, pick, g)
    BY <1>4, <1>5 DEF SumsWith
  <1> QED BY <1>6

LEMMA IterExists ==
    ASSUME NEW F, IsFiniteSet(DOMAIN F)
    PROVE  IsIter(F, Iter(F))
  <1> DEFINE pick == [s \in SUBSET DOMAIN F |-> Pick(s)]
  <1>1. \A s \in SUBSET DOMAIN F : s # {} => pick[s] \in s
    BY PickIn
  <1>2. \A s \in SUBSET DOMAIN F : pick[s] = Pick(s)
    OBVIOUS
  <1> HIDE DEF pick
  <1>3. PICK g : g = [s \in SUBSET DOMAIN F |->
                       IF s = {} THEN 0 ELSE F[pick[s]] + g[s \ {pick[s]}]]
    <2> DEFINE D == DOMAIN F
    <2>1. IsFiniteSet(D) /\ \A s \in SUBSET D : s # {} => pick[s] \in s
      BY <1>1
    <2> HIDE DEF D
    <2>2. \E g : SumsWith(D, F, pick, g)
      BY <2>1, SumsExist
    <2> QED BY <2>2 DEF D, SumsWith
  <1>4. IsIter(F, g)
    BY <1>2, <1>3 DEF IsIter, SumStep, Without
  <1> QED BY <1>4 DEF Iter

LEMMA IterStep ==
    ASSUME NEW F, IsFiniteSet(DOMAIN F)
    PROVE  /\ Iter(F)[{}] = 0
           /\ \A s \in SUBSET DOMAIN F : s # {} => Iter(F)[s] = F[Pick(s)] + Iter(F)[Without(s)]
  <1>1. \A s \in SUBSET DOMAIN F : Iter(F)[s] = SumStep(F, Iter(F), s)
    BY IterExists DEF IsIter
  <1> QED BY <1>1 DEF SumStep

LEMMA IterInt ==
    ASSUME NEW D, IsFiniteSet(D), NEW F \in [D -> Int]
    PROVE  \A s \in SUBSET D : Iter(F)[s] \in Int
  <1> DEFINE P == {s \in SUBSET D : Iter(F)[s] \in Int}
  <1>1. {} \in P
    BY IterStep
  <1>2. ASSUME NEW s \in SUBSET D, s # {}, \A k \in s : s \ {k} \in P
        PROVE  s \in P
    <2>1. Pick(s) \in s /\ Without(s) \in P
      BY <1>2, PickIn DEF Without
    <2>2. Iter(F)[s] = F[Pick(s)] + Iter(F)[Without(s)]
      BY <1>2, IterStep
    <2> QED BY <2>1, <2>2
  <1> HIDE DEF P
  <1>3. SUBSET D \subseteq P
    BY <1>1, <1>2, SubsetInduct
  <1> QED BY <1>3 DEF P

\* Any element may be taken first.
LEMMA IterAdd ==
    ASSUME NEW D, IsFiniteSet(D), NEW F \in [D -> Int]
    PROVE  \A s \in SUBSET D : \A k \in s : Iter(F)[s] = F[k] + Iter(F)[s \ {k}]
  <1> DEFINE P == {s \in SUBSET D : \A k \in s : Iter(F)[s] = F[k] + Iter(F)[s \ {k}]}
  <1>1. {} \in P
    OBVIOUS
  <1>2. ASSUME NEW s \in SUBSET D, s # {}, \A k \in s : s \ {k} \in P
        PROVE  s \in P
    <2> DEFINE p == Pick(s)
    <2>1. p \in s /\ Without(s) = s \ {p}
      BY <1>2, PickIn DEF Without
    <2> HIDE DEF p
    <2>2. Iter(F)[s] = F[p] + Iter(F)[s \ {p}]
      <3>1. Iter(F)[s] = F[Pick(s)] + Iter(F)[Without(s)]
        BY <1>2, IterStep
      <3> QED BY <2>1, <3>1 DEF p
    <2>3. ASSUME NEW k \in s, k # p PROVE Iter(F)[s] = F[k] + Iter(F)[s \ {k}]
      <3>1. Iter(F)[s \ {p}] = F[k] + Iter(F)[(s \ {p}) \ {k}]
        BY <1>2, <2>1, <2>3
      <3>2. Iter(F)[s \ {k}] = F[p] + Iter(F)[(s \ {k}) \ {p}]
        BY <1>2, <2>1, <2>3
      <3>3. (s \ {k}) \ {p} = (s \ {p}) \ {k}
        OBVIOUS
      <3>4. F[k] \in Int /\ F[p] \in Int
        BY <2>1
      <3>5. Iter(F)[(s \ {p}) \ {k}] \in Int
        BY IterInt
      <3> HIDE DEF P
      <3>6. \A a, b, c \in Int : b + (a + c) = a + (b + c)
        OBVIOUS
      <3>7. Iter(F)[s] = F[p] + (F[k] + Iter(F)[(s \ {p}) \ {k}])
        BY <2>2, <3>1
      <3>8. F[k] + Iter(F)[s \ {k}] = F[k] + (F[p] + Iter(F)[(s \ {p}) \ {k}])
        BY <3>2, <3>3
      <3>9. F[p] + (F[k] + Iter(F)[(s \ {p}) \ {k}]) = F[k] + (F[p] + Iter(F)[(s \ {p}) \ {k}])
        BY <3>4, <3>5, <3>6
      <3> QED BY <3>7, <3>8, <3>9
    <2> QED BY <2>2, <2>3
  <1> HIDE DEF P
  <1>3. SUBSET D \subseteq P
    BY <1>1, <1>2, SubsetInduct
  <1> QED BY <1>3 DEF P

\* The sum over a set depends on the function there only.
LEMMA IterSame ==
    ASSUME NEW D, IsFiniteSet(D), NEW F, NEW G, DOMAIN F = D,
           IsFiniteSet(DOMAIN G), D \subseteq DOMAIN G, \A x \in D : F[x] = G[x]
    PROVE  \A s \in SUBSET D : Iter(F)[s] = Iter(G)[s]
  <1> DEFINE P == {s \in SUBSET D : Iter(F)[s] = Iter(G)[s]}
  <1>1. {} \in P
    BY IterStep
  <1>2. ASSUME NEW s \in SUBSET D, s # {}, \A k \in s : s \ {k} \in P
        PROVE  s \in P
    <2>1. Pick(s) \in s /\ Without(s) \in P
      BY <1>2, PickIn DEF Without
    <2>2. Iter(F)[s] = F[Pick(s)] + Iter(F)[Without(s)]
      BY <1>2, IterStep
    <2>3. s \in SUBSET DOMAIN G
      OBVIOUS
    <2>4. Iter(G)[s] = G[Pick(s)] + Iter(G)[Without(s)]
      BY <1>2, <2>3, IterStep
    <2> QED BY <2>1, <2>2, <2>4
  <1> HIDE DEF P
  <1>3. SUBSET D \subseteq P
    BY <1>1, <1>2, SubsetInduct
  <1> QED BY <1>3 DEF P

\* Sums taken in any order are the sum.
LEMMA SumUnique ==
    ASSUME NEW D, IsFiniteSet(D), NEW F \in [D -> Int], NEW iter, iter[{}] = 0,
           \A s \in SUBSET D : s # {} => \E p \in s : iter[s] = F[p] + iter[s \ {p}]
    PROVE  iter[D] = SumFunction(F)
  <1> DEFINE P == {s \in SUBSET D : iter[s] = Iter(F)[s]}
  <1>1. {} \in P
    BY IterStep
  <1>2. ASSUME NEW s \in SUBSET D, s # {}, \A k \in s : s \ {k} \in P
        PROVE  s \in P
    <2>1. PICK p \in s : iter[s] = F[p] + iter[s \ {p}]
      BY <1>2
    <2>2. Iter(F)[s] = F[p] + Iter(F)[s \ {p}]
      BY IterAdd
    <2> QED BY <1>2, <2>1, <2>2
  <1> HIDE DEF P
  <1>3. SUBSET D \subseteq P
    BY <1>1, <1>2, SubsetInduct
  <1> QED BY <1>3, SumUnfolds DEF P

LEMMA SumIsInt ==
    ASSUME NEW D, IsFiniteSet(D), NEW F \in [D -> Int]
    PROVE  SumFunction(F) \in Int
  BY SumUnfolds, IterInt

LEMMA SumOfNone ==
    ASSUME NEW F, DOMAIN F = {} PROVE SumFunction(F) = 0
  BY SumUnfolds, IterStep, FS_EmptySet

LEMMA SumAdds ==
    ASSUME NEW D, IsFiniteSet(D), NEW F \in [D -> Int], NEW k \in D,
           NEW G, DOMAIN G = D \ {k}, \A x \in D \ {k} : G[x] = F[x]
    PROVE  SumFunction(F) = F[k] + SumFunction(G)
  <1>1. IsFiniteSet(D \ {k}) /\ D \ {k} \in SUBSET D
    BY FS_Subset
  <1>2. Iter(F)[D] = F[k] + Iter(F)[D \ {k}]
    BY IterAdd
  <1>3. Iter(G)[D \ {k}] = Iter(F)[D \ {k}]
    BY <1>1, IterSame
  <1> QED BY <1>2, <1>3, SumUnfolds

----------------------------------------------------------------------------
(* Sorting: the order by up to three keys and by position is total, and     *)
(* counting who comes before gives every element its place.                 *)

\* i comes before j by three keys
KeyLess(a, b, c, i, j) ==
    \/ a[i] < a[j]
    \/ a[i] = a[j] /\ (b[i] < b[j] \/ (b[i] = b[j] /\ c[i] < c[j]))

\* ... or by none of them, and stands further left.
KeyBefore(a, b, c, j, i) == KeyLess(a, b, c, j, i) \/ (~KeyLess(a, b, c, i, j) /\ j < i)

\* Where i goes: after all that come before it
Places(n, a, b, c) ==
    [i \in 1..n |-> 1 + Cardinality({j \in 1..n : KeyBefore(a, b, c, j, i)})]

\* What Sorted does, with the order given by keys of the positions
Arranged(s, a, b, c) ==
    SubSeq([p \in 1..Len(s) |-> s[CHOOSE i \in 1..Len(s) : Places(Len(s), a, b, c)[i] = p]],
           1, Len(s))

\* A sequence that holds every number to n once
IsOrder(s, n) ==
    /\ s \in Seq(1..n) /\ Len(s) = n
    /\ \A i, j \in 1..n : s[i] = s[j] => i = j
    /\ \A x \in 1..n : \E i \in 1..n : s[i] = x

\* t is s in the order at.
Reordered(t, s, at, n) ==
    /\ IsOrder(at, n) /\ Len(t) = n
    /\ \A p \in 1..n : t[p] = s[at[p]]

\* Three keys of n positions
Keys(n, a, b, c) ==
    n \in Nat /\ a \in [1..n -> Int] /\ b \in [1..n -> Int] /\ c \in [1..n -> Int]

\* t is s sorted by keys.
SortedBy(t, s, n, a, b, c) ==
    \E at : /\ Reordered(t, s, at, n)
            /\ \A p, q \in 1..n : p < q => KeyBefore(a, b, c, at[p], at[q])

\* The order by keys and then by position is a strict total order.
LEMMA KeyOrder ==
    ASSUME NEW n \in Nat, NEW a \in [1..n -> Int], NEW b \in [1..n -> Int], NEW c \in [1..n -> Int]
    PROVE  /\ \A i \in 1..n : ~KeyBefore(a, b, c, i, i)
           /\ \A i, j \in 1..n : i # j => KeyBefore(a, b, c, i, j) \/ KeyBefore(a, b, c, j, i)
           /\ \A i, j, l \in 1..n : KeyBefore(a, b, c, i, j) /\ KeyBefore(a, b, c, j, l)
                                       => KeyBefore(a, b, c, i, l)
  <1>1. \A i \in 1..n : i \in Int /\ a[i] \in Int /\ b[i] \in Int /\ c[i] \in Int
    OBVIOUS
  <1>2. ASSUME NEW i \in 1..n, NEW j \in 1..n, NEW l \in 1..n
        PROVE  /\ ~KeyBefore(a, b, c, i, i)
               /\ i # j => KeyBefore(a, b, c, i, j) \/ KeyBefore(a, b, c, j, i)
               /\ KeyBefore(a, b, c, i, j) /\ KeyBefore(a, b, c, j, l) => KeyBefore(a, b, c, i, l)
    <2>1. ~KeyBefore(a, b, c, i, i)
      BY <1>1 DEF KeyBefore, KeyLess
    <2>2. i # j => KeyBefore(a, b, c, i, j) \/ KeyBefore(a, b, c, j, i)
      BY <1>1 DEF KeyBefore, KeyLess
    <2>3. ASSUME KeyBefore(a, b, c, i, j), KeyBefore(a, b, c, j, l)
          PROVE  KeyBefore(a, b, c, i, l)
      <3>1. PICK x \in Int, y \in Int, z \in Int : x = a[i] /\ y = b[i] /\ z = c[i]
        BY <1>1
      <3>2. PICK u \in Int, v \in Int, w \in Int : u = a[j] /\ v = b[j] /\ w = c[j]
        BY <1>1
      <3>3. PICK d \in Int, e \in Int, f \in Int : d = a[l] /\ e = b[l] /\ f = c[l]
        BY <1>1
      <3>4. i \in Int /\ j \in Int /\ l \in Int
        BY <1>1
      <3>5. x < u \/ (x = u /\ (y < v \/ (y = v /\ (z < w \/ (z = w /\ i < j)))))
        <4>1. /\ KeyLess(a, b, c, i, j) <=> x < u \/ (x = u /\ (y < v \/ (y = v /\ z < w)))
              /\ KeyLess(a, b, c, j, i) <=> u < x \/ (u = x /\ (v < y \/ (v = y /\ w < z)))
          BY ONLY <3>1, <3>2 DEF KeyLess
        <4>2. KeyLess(a, b, c, i, j) \/ (~KeyLess(a, b, c, j, i) /\ i < j)
          BY ONLY <2>3 DEF KeyBefore
        <4> QED BY ONLY <4>1, <4>2, x \in Int, y \in Int, z \in Int, u \in Int, v \in Int, w \in Int
      <3>6. u < d \/ (u = d /\ (v < e \/ (v = e /\ (w < f \/ (w = f /\ j < l)))))
        <4>1. /\ KeyLess(a, b, c, j, l) <=> u < d \/ (u = d /\ (v < e \/ (v = e /\ w < f)))
              /\ KeyLess(a, b, c, l, j) <=> d < u \/ (d = u /\ (e < v \/ (e = v /\ f < w)))
          BY ONLY <3>2, <3>3 DEF KeyLess
        <4>2. KeyLess(a, b, c, j, l) \/ (~KeyLess(a, b, c, l, j) /\ j < l)
          BY ONLY <2>3 DEF KeyBefore
        <4> QED BY ONLY <4>1, <4>2, u \in Int, v \in Int, w \in Int, d \in Int, e \in Int, f \in Int
      <3>7. x < d \/ (x = d /\ (y < e \/ (y = e /\ (z < f \/ (z = f /\ i < l)))))
        BY ONLY <3>4, <3>5, <3>6, x \in Int, y \in Int, z \in Int, u \in Int, v \in Int, w \in Int,
           d \in Int, e \in Int, f \in Int
      <3>8. /\ KeyLess(a, b, c, i, l) <=> x < d \/ (x = d /\ (y < e \/ (y = e /\ z < f)))
            /\ KeyLess(a, b, c, l, i) <=> d < x \/ (d = x /\ (e < y \/ (e = y /\ f < z)))
        BY ONLY <3>1, <3>3 DEF KeyLess
      <3>9. KeyLess(a, b, c, i, l) \/ (~KeyLess(a, b, c, l, i) /\ i < l)
        BY ONLY <3>7, <3>8, x \in Int, y \in Int, z \in Int, d \in Int, e \in Int, f \in Int
      <3> QED BY ONLY <3>9 DEF KeyBefore
    <2> QED BY <2>1, <2>2, <2>3
  <1> QED BY <1>2

\* A function from 1..n to itself that takes no value twice takes every value.
LEMMA BijectionFromInjection ==
    ASSUME NEW n \in Nat, NEW f \in [1..n -> 1..n], \A i, j \in 1..n : f[i] = f[j] => i = j
    PROVE  \A p \in 1..n : \E i \in 1..n : f[i] = p
  <1>1. IsFiniteSet(1..n)
    BY FS_Interval
  <1>2. f \in Injection(1..n, 1..n)
    BY DEF Injection, IsInjective
  <1>3. f \in Surjection(1..n, 1..n)
    BY <1>1, <1>2, FS_Injection
  <1> QED BY <1>3 DEF Surjection

\* Counting who comes before gives every position a place of its own, in the order of the keys.
LEMMA SortPlaces ==
    ASSUME NEW n \in Nat, NEW a \in [1..n -> Int], NEW b \in [1..n -> Int], NEW c \in [1..n -> Int]
    PROVE  /\ Places(n, a, b, c) \in [1..n -> 1..n]
           /\ \A i, j \in 1..n : KeyBefore(a, b, c, i, j) =>
                                     Places(n, a, b, c)[i] < Places(n, a, b, c)[j]
           /\ \A p \in 1..n : \E i \in 1..n : Places(n, a, b, c)[i] = p
  <1> DEFINE place == Places(n, a, b, c)
  <1> DEFINE before(i) == {j \in 1..n : KeyBefore(a, b, c, j, i)}
  <1>0. IsFiniteSet(1..n) /\ Cardinality(1..n) = n
    BY FS_Interval
  <1>1. ASSUME NEW i \in 1..n
        PROVE  IsFiniteSet(before(i)) /\ Cardinality(before(i)) \in Nat /\ Cardinality(before(i)) < n
    <2>1. before(i) \in SUBSET (1..n) /\ before(i) # 1..n
      BY KeyOrder
    <2>2. IsFiniteSet(before(i)) /\ Cardinality(before(i)) <= n /\ Cardinality(before(i)) # n
      BY <1>0, <2>1, FS_Subset
    <2>3. Cardinality(before(i)) \in Nat
      BY <2>2, FS_CardinalityType
    <2> QED BY <2>2, <2>3
  <1>2. ASSUME NEW i \in 1..n, NEW j \in 1..n, KeyBefore(a, b, c, i, j)
        PROVE  Cardinality(before(i)) < Cardinality(before(j))
    <2>1. before(i) \in SUBSET before(j)
      BY <1>2, KeyOrder
    <2>2. i \in before(j) /\ i \notin before(i)
      BY <1>2, KeyOrder
    <2>3. before(i) # before(j)
      BY <2>2
    <2>4. Cardinality(before(i)) <= Cardinality(before(j)) /\ Cardinality(before(i)) # Cardinality(before(j))
      BY <1>1, <2>1, <2>3, FS_Subset
    <2>5. Cardinality(before(i)) \in Nat /\ Cardinality(before(j)) \in Nat
      BY <1>1
    <2> QED BY <2>4, <2>5
  <1>3. place = [i \in 1..n |-> 1 + Cardinality(before(i))]
    BY DEF Places
  <1> HIDE DEF place
  <1>4. \A i \in 1..n : Cardinality(before(i)) \in Nat /\ Cardinality(before(i)) < n
    BY <1>1
  <1>5. \A i, j \in 1..n : KeyBefore(a, b, c, i, j) => Cardinality(before(i)) < Cardinality(before(j))
    BY <1>2
  <1> HIDE DEF before
  <1>6. place \in [1..n -> 1..n]
    <2>1. \A i \in 1..n : 1 + Cardinality(before(i)) \in 1..n
      BY ONLY <1>4, n \in Nat
    <2> QED BY <1>3, <2>1
  <1>7. \A i, j \in 1..n : KeyBefore(a, b, c, i, j) => place[i] < place[j]
    <2>1. \A i, j \in 1..n : KeyBefore(a, b, c, i, j)
                                => 1 + Cardinality(before(i)) < 1 + Cardinality(before(j))
      BY ONLY <1>4, <1>5, n \in Nat
    <2> QED BY <1>3, <2>1
  <1>8. \A i, j \in 1..n : place[i] = place[j] => i = j
    <2>1. SUFFICES ASSUME NEW i \in 1..n, NEW j \in 1..n, i # j PROVE place[i] # place[j]
      OBVIOUS
    <2>2. place[i] < place[j] \/ place[j] < place[i]
      BY <2>1, <1>7, KeyOrder
    <2>3. place[i] \in 1..n /\ place[j] \in 1..n
      BY <1>6
    <2> QED BY <2>2, <2>3
  <1>9. \A p \in 1..n : \E i \in 1..n : place[i] = p
    BY <1>6, <1>8, BijectionFromInjection
  <1> QED BY <1>6, <1>7, <1>9, Zenon DEF place

\* Sorting rearranges, and leaves no greater element before a lesser one.
LEMMA SortedByKeys ==
    ASSUME NEW A, NEW s \in Seq(A), NEW n, n = Len(s), NEW a, NEW b, NEW c, Keys(n, a, b, c),
           NEW t, t = Arranged(s, a, b, c)
    PROVE  t \in Seq(A) /\ SortedBy(t, s, n, a, b, c)
  <1>k. n \in Nat /\ a \in [1..n -> Int] /\ b \in [1..n -> Int] /\ c \in [1..n -> Int]
    BY DEF Keys
  <1>0. n \in Nat /\ \A i \in 1..n : s[i] \in A
    OBVIOUS
  <1> DEFINE place == Places(n, a, b, c)
             at == [p \in 1..n |-> CHOOSE i \in 1..n : place[i] = p]
             u == [p \in 1..n |-> s[at[p]]]
  <1>1. /\ place \in [1..n -> 1..n]
        /\ \A i, j \in 1..n : KeyBefore(a, b, c, i, j) => place[i] < place[j]
        /\ \A p \in 1..n : \E i \in 1..n : place[i] = p
    <2> HIDE DEF at, u, place
    <2>0. \A p \in 1..n : \E i \in 1..n : Places(n, a, b, c)[i] = p
      BY ONLY SortPlaces, <1>k
    <2>1. \A p \in 1..n : \E i \in 1..n : place[i] = p
      BY ONLY <2>0 DEF place
    <2>2. place \in [1..n -> 1..n]
      BY SortPlaces, <1>k DEF place
    <2>3. \A i, j \in 1..n : KeyBefore(a, b, c, i, j) => place[i] < place[j]
      BY SortPlaces, <1>k DEF place
    <2> QED BY <2>1, <2>2, <2>3
  <1>2. t = SubSeq([p \in 1..n |-> s[CHOOSE i \in 1..n : place[i] = p]], 1, n)
    BY DEF Arranged
  <1> HIDE DEF place
  <1>3. at \in [1..n -> 1..n] /\ \A p \in 1..n : place[at[p]] = p
    BY <1>1
  <1>4. [p \in 1..n |-> s[CHOOSE i \in 1..n : place[i] = p]] = u
    OBVIOUS
  <1> HIDE DEF at
  <1>5. u \in Seq(A) /\ Len(u) = n
    BY <1>0, <1>3
  <1> HIDE DEF u
  <1>6. t = u
    BY <1>2, <1>4, <1>5, <1>0, SubSeqFull
  <1>7. \A p, q \in 1..n : at[p] = at[q] => p = q
    BY <1>3
  <1>8. \A i \in 1..n : \E p \in 1..n : at[p] = i
    BY ONLY <1>0, <1>3, <1>7, BijectionFromInjection
  <1>9. \A p, q \in 1..n : p < q => KeyBefore(a, b, c, at[p], at[q])
    <2>1. SUFFICES ASSUME NEW p \in 1..n, NEW q \in 1..n, p < q, ~KeyBefore(a, b, c, at[p], at[q])
                   PROVE FALSE
      OBVIOUS
    <2>2. p # q /\ at[p] # at[q] /\ at[p] \in 1..n /\ at[q] \in 1..n
      <3>1. p # q
        BY <1>0, <2>1
      <3> QED BY <3>1, <1>7, <1>3
    <2>3. KeyBefore(a, b, c, at[q], at[p])
      BY <1>0, <1>k, <2>1, <2>2, KeyOrder
    <2>4. place[at[q]] < place[at[p]]
      BY <1>1, <2>2, <2>3
    <2>5. q < p
      BY <1>3, <2>4
    <2> QED BY <1>0, <2>1, <2>5
  <1>10. \A p \in 1..n : t[p] = s[at[p]]
    BY <1>6 DEF u
  <1>11. at \in Seq(1..n) /\ Len(at) = n
    BY <1>0, <1>3
  <1>12. IsOrder(at, n)
    BY <1>7, <1>8, <1>11 DEF IsOrder
  <1>13. Reordered(t, s, at, n)
    BY <1>5, <1>6, <1>10, <1>12 DEF Reordered
  <1> QED BY <1>5, <1>6, <1>9, <1>13 DEF SortedBy

----------------------------------------------------------------------------
(* Flattening, and partitions of the numbers to n.                          *)

\* The recursive function behind FlattenSeq, on the first k parts
FlatRec(parts, k, g) ==
    g = [i \in 1..k |-> IF i = 1 THEN parts[i] ELSE g[i - 1] \o parts[i]]

\* The recursion by which FlattenSeq is defined has a solution.
LEMMA FlatExists ==
    ASSUME NEW parts, NEW m \in Nat PROVE \E g : FlatRec(parts, m, g)
  <1> DEFINE S == {k \in Nat : \E g : FlatRec(parts, k, g)}
  <1>1. 0 \in S
    <2> DEFINE g == [i \in 1..0 |-> parts[i]]
    <2>1. FlatRec(parts, 0, g)
      BY DEF FlatRec
    <2> QED BY <2>1
  <1>2. ASSUME NEW k \in Nat, k \in S PROVE k + 1 \in S
    <2>1. PICK g : FlatRec(parts, k, g)
      BY <1>2
    <2> DEFINE h == [i \in 1..k + 1 |-> IF i = 1 THEN parts[i] ELSE g[i - 1] \o parts[i]]
    <2>2. \A i \in 1..k : h[i] = g[i]
      <3>1. SUFFICES ASSUME NEW i \in 1..k PROVE h[i] = g[i]
        OBVIOUS
      <3>2. i \in 1..k + 1
        OBVIOUS
      <3>3. g[i] = IF i = 1 THEN parts[i] ELSE g[i - 1] \o parts[i]
        BY <2>1 DEF FlatRec
      <3> QED BY <3>2, <3>3
    <2>3. \A i \in 1..k + 1 : h[i] = IF i = 1 THEN parts[i] ELSE h[i - 1] \o parts[i]
      <3>1. SUFFICES ASSUME NEW i \in 1..k + 1
                     PROVE  h[i] = IF i = 1 THEN parts[i] ELSE h[i - 1] \o parts[i]
        OBVIOUS
      <3>2. i # 1 => i - 1 \in 1..k
        OBVIOUS
      <3>3. i # 1 => h[i - 1] = g[i - 1]
        BY <2>2, <3>2
      <3> QED BY <3>3
    <2>4. FlatRec(parts, k + 1, h)
      <3>1. h = [i \in 1..k + 1 |-> h[i]]
        OBVIOUS
      <3> HIDE DEF h
      <3> QED BY <2>3, <3>1 DEF FlatRec
    <2> QED BY <2>4
  <1> HIDE DEF S
  <1>3. m \in S
    BY <1>1, <1>2, Induct
  <1> QED BY <1>3 DEF S

\* Where the parts begin in a flattened sequence
IsOffset(off, parts, m) ==
    /\ off \in [1..m + 1 -> Nat] /\ off[1] = 0
    /\ \A i \in 1..m : off[i + 1] = off[i] + Len(parts[i])

\* The parts one after the other
IsFlat(s, parts, m, off) ==
    /\ Len(s) = off[m + 1]
    /\ \A i \in 1..m : \A j \in 1..Len(parts[i]) :
          /\ off[i] + j \in 1..off[m + 1]
          /\ s[off[i] + j] = parts[i][j]

\* FlattenSeq puts the parts one after the other, each at its offset.
LEMMA FlattenAt ==
    ASSUME NEW A, NEW m \in Nat, NEW parts \in [1..m -> Seq(A)],
           NEW off, IsOffset(off, parts, m)
    PROVE  FlattenSeq(parts) \in Seq(A) /\ IsFlat(FlattenSeq(parts), parts, m, off)
  <1>0. parts \in Seq(Seq(A)) /\ Len(parts) = m
    OBVIOUS
  <1>a. /\ off \in [1..m + 1 -> Nat] /\ off[1] = 0
        /\ \A i \in 1..m : off[i + 1] = off[i] + Len(parts[i])
    BY DEF IsOffset
  <1>1. CASE m = 0
    <2>1. FlattenSeq(parts) = parts /\ parts = <<>>
      BY <1>0, <1>1 DEF FlattenSeq
    <2> QED BY <1>1, <1>a, <2>1 DEF IsFlat
  <1>2. CASE m # 0
    <2> DEFINE g == CHOOSE g : FlatRec(parts, m, g)
               P(k) == /\ g[k] \in Seq(A) /\ Len(g[k]) = off[k + 1]
                       /\ \A i \in 1..k : \A j \in 1..Len(parts[i]) :
                             /\ off[i] + j \in 1..off[k + 1]
                             /\ g[k][off[i] + j] = parts[i][j]
               S == {k \in Nat : k \in 1..m => P(k)}
    <2>1. FlattenSeq(parts) = g[m]
      BY <1>0, <1>2 DEF FlattenSeq, FlatRec
    <2>2. FlatRec(parts, m, g)
      BY FlatExists
    <2> HIDE DEF g
    <2>3. /\ g[1] = parts[1]
          /\ \A k \in 1..m : k # 1 => g[k] = g[k - 1] \o parts[k]
      <3>1. \A k \in 1..m : g[k] = IF k = 1 THEN parts[k] ELSE g[k - 1] \o parts[k]
        BY <2>2 DEF FlatRec
      <3>2. 1 \in 1..m
        BY <1>2
      <3> QED BY <3>1, <3>2
    <2>4. 0 \in S
      OBVIOUS
    <2>5. ASSUME NEW k \in Nat, k \in S PROVE k + 1 \in S
      <3>1. SUFFICES ASSUME k + 1 \in 1..m PROVE P(k + 1)
        <4> HIDE DEF P
        <4> QED OBVIOUS
      <3>2. CASE k = 0
        <4>1. g[1] = parts[1] /\ parts[1] \in Seq(A) /\ off[2] = Len(parts[1]) /\ 1 \in 1..m
          <5>1. 1 \in 1..m /\ 1 + 1 = 2
            BY <1>2
          <5>2. off[2] = off[1] + Len(parts[1]) /\ parts[1] \in Seq(A) /\ Len(parts[1]) \in Nat
            BY <5>1, <1>a
          <5> QED BY <1>a, <2>3, <5>1, <5>2
        <4>2. Len(parts[1]) \in Nat /\ \A i \in 1..1 : i = 1
          BY <4>1
        <4>3. P(1)
          <5>1. 1 + 1 = 2
            OBVIOUS
          <5> QED BY <1>a, <4>1, <4>2, <5>1
        <4> QED BY <3>2, <4>3
      <3>3. CASE k # 0
        <4>1. k \in 1..m /\ P(k)
          BY <2>5, <3>1, <3>3
        <4>2. g[k + 1] = g[k] \o parts[k + 1] /\ parts[k + 1] \in Seq(A)
          <5>1. k + 1 # 1 /\ (k + 1) - 1 = k
            BY <3>3
          <5> QED BY <2>3, <3>1, <5>1
        <4>3. off[k + 2] = off[k + 1] + Len(parts[k + 1]) /\ off[k + 1] \in Nat
              /\ Len(parts[k + 1]) \in Nat
          BY <1>a, <3>1, <4>2
        <4> DEFINE x == g[k]  y == parts[k + 1]  z == g[k + 1]  o == off[k + 1]
        <4>4. /\ z \in Seq(A) /\ Len(z) = o + Len(y)
              /\ \A p \in 1..o : z[p] = x[p]
              /\ \A p \in 1..Len(y) : z[o + p] = y[p]
          <5>1. x \in Seq(A) /\ y \in Seq(A) /\ z = x \o y /\ Len(x) = o
            BY <4>1, <4>2
          <5> HIDE DEF x, y, z, o
          <5> QED BY <5>1
        <4> HIDE DEF x, y, z, o
        <4>5. ASSUME NEW i \in 1..k + 1, NEW j \in 1..Len(parts[i])
              PROVE  off[i] + j \in 1..off[k + 2] /\ z[off[i] + j] = parts[i][j]
          <5>1. CASE i = k + 1
            BY <4>3, <4>4, <5>1 DEF y, o
          <5>2. CASE i # k + 1
            <6>1. i \in 1..k
              BY <5>2
            <6>2. off[i] + j \in 1..o /\ x[off[i] + j] = parts[i][j]
              BY <4>1, <6>1 DEF o, x
            <6>3. off[i] + j \in 1..off[k + 2]
              <7>1. off[k + 2] = o + Len(parts[k + 1]) /\ o \in Nat /\ Len(parts[k + 1]) \in Nat
                BY <4>3 DEF o
              <7> QED BY <6>2, <7>1
            <6> QED BY <4>4, <6>2, <6>3
          <5> QED BY <5>1, <5>2
        <4>6. (k + 1) + 1 = k + 2
          OBVIOUS
        <4> QED BY <4>3, <4>4, <4>5, <4>6 DEF z, o, y
      <3> QED BY <3>2, <3>3
    <2>6. m \in S
      <3> HIDE DEF S
      <3> QED BY <2>4, <2>5, Induct
    <2>7. P(m)
      BY <1>2, <2>6
    <2> QED BY <2>1, <2>7 DEF IsFlat
  <1> QED BY <1>1, <1>2

\* Parts have offsets: the sums of the lengths of those before.
LEMMA OffsetsExist ==
    ASSUME NEW A, NEW m \in Nat, NEW parts \in [1..m -> Seq(A)]
    PROVE  \E off : IsOffset(off, parts, m)
  <1> DEFINE S == {k \in Nat : k <= m => \E off : IsOffset(off, parts, k)}
  <1>1. 0 \in S
    <2> DEFINE off == [i \in 1..1 |-> 0]
    <2>1. off \in [1..0 + 1 -> Nat] /\ off[1] = 0
      OBVIOUS
    <2>2. IsOffset(off, parts, 0)
      <3> HIDE DEF off
      <3> QED BY <2>1 DEF IsOffset
    <2> QED BY <2>2
  <1>2. ASSUME NEW k \in Nat, k \in S PROVE k + 1 \in S
    <2> SUFFICES ASSUME k + 1 <= m PROVE \E off : IsOffset(off, parts, k + 1)
      OBVIOUS
    <2>1. PICK off : IsOffset(off, parts, k)
      BY <1>2
    <2> DEFINE new == off[k + 1] + Len(parts[k + 1])
               h == [i \in 1..k + 2 |-> IF i = k + 2 THEN new ELSE off[i]]
    <2>2. new \in Nat
      <3>1. parts[k + 1] \in Seq(A) /\ off[k + 1] \in Nat
        BY <2>1 DEF IsOffset
      <3>2. Len(parts[k + 1]) \in Nat
        BY <3>1
      <3> QED BY <3>1, <3>2
    <2>3. h \in [1..(k + 1) + 1 -> Nat]
      <3>1. \A i \in 1..k + 2 : i # k + 2 => off[i] \in Nat
        BY <2>1 DEF IsOffset
      <3>2. 1..(k + 1) + 1 = 1..k + 2
        OBVIOUS
      <3> HIDE DEF new
      <3> QED BY <2>2, <3>1, <3>2
    <2>4. h[1] = 0
      BY <2>1 DEF IsOffset
    <2>5. ASSUME NEW i \in 1..k + 1 PROVE h[i + 1] = h[i] + Len(parts[i])
      <3>1. CASE i = k + 1
        BY <3>1
      <3>2. CASE i # k + 1
        <4>1. i \in 1..k /\ i # k + 2 /\ i + 1 # k + 2 /\ i \in 1..k + 2 /\ i + 1 \in 1..k + 2
          BY <3>2
        <4>2. off[i + 1] = off[i] + Len(parts[i])
          BY <2>1, <4>1 DEF IsOffset
        <4> QED BY <4>1, <4>2
      <3> QED BY <3>1, <3>2
    <2>6. IsOffset(h, parts, k + 1)
      <3> HIDE DEF h
      <3> QED BY <2>3, <2>4, <2>5 DEF IsOffset
    <2> QED BY <2>6
  <1> HIDE DEF S
  <1>3. m \in S
    BY <1>1, <1>2, Induct
  <1> QED BY <1>3 DEF S

\* Every position of the flattened sequence is one of a part.
LEMMA OffsetsCover ==
    ASSUME NEW A, NEW m \in Nat, NEW parts \in [1..m -> Seq(A)], NEW off, IsOffset(off, parts, m)
    PROVE  \A q \in 1..off[m + 1] : \E i \in 1..m : \E j \in 1..Len(parts[i]) : q = off[i] + j
  <1> DEFINE P(k) == \A q \in 1..off[k + 1] : \E i \in 1..k : \E j \in 1..Len(parts[i]) : q = off[i] + j
             S == {k \in Nat : k <= m => P(k)}
  <1>1. 0 \in S
    BY DEF IsOffset
  <1>2. ASSUME NEW k \in Nat, k \in S PROVE k + 1 \in S
    <2> SUFFICES ASSUME k + 1 <= m,
                        NEW q \in 1..off[(k + 1) + 1]
                 PROVE \E i \in 1..k + 1 : \E j \in 1..Len(parts[i]) : q = off[i] + j
      OBVIOUS
    <2>1. /\ off[(k + 1) + 1] = off[k + 1] + Len(parts[k + 1]) /\ off[k + 1] \in Nat
          /\ parts[k + 1] \in Seq(A) /\ k + 1 \in 1..k + 1
      <3>1. k + 1 \in 1..m /\ k + 1 \in 1..m + 1
        OBVIOUS
      <3> QED BY <3>1 DEF IsOffset
    <2>2. Len(parts[k + 1]) \in Nat
      BY <2>1
    <2>3. CASE q <= off[k + 1]
      <3>1. q \in 1..off[k + 1]
        BY <2>1, <2>2, <2>3
      <3>2. P(k)
        BY <1>2
      <3>3. PICK i \in 1..k : \E j \in 1..Len(parts[i]) : q = off[i] + j
        BY <3>1, <3>2
      <3>4. i \in 1..k + 1
        OBVIOUS
      <3> QED BY <3>3, <3>4
    <2>4. CASE ~(q <= off[k + 1])
      <3> DEFINE j == q - off[k + 1]
      <3>1. j \in 1..Len(parts[k + 1]) /\ q = off[k + 1] + j
        BY <2>1, <2>2, <2>4
      <3> HIDE DEF j
      <3> QED BY <2>1, <3>1
    <2> QED BY <2>3, <2>4
  <1> HIDE DEF S
  <1>3. m \in S
    BY <1>1, <1>2, Induct
  <1> QED BY <1>3 DEF S

\* m parts with every number to n in one place
IsPartition(parts, m, n) ==
    /\ parts \in [1..m -> Seq(1..n)]
    /\ \A d, e \in 1..m : \A i \in 1..Len(parts[d]), j \in 1..Len(parts[e]) :
          parts[d][i] = parts[e][j] => d = e /\ i = j
    /\ \A x \in 1..n : \E d \in 1..m : \E i \in 1..Len(parts[d]) : parts[d][i] = x

\* The parts of a partition, one after the other, hold every number once.
LEMMA FlattenPermutes ==
    ASSUME NEW m \in Nat, NEW n \in Nat, NEW parts, IsPartition(parts, m, n)
    PROVE  IsOrder(FlattenSeq(parts), n)
  <1>1. parts \in [1..m -> Seq(1..n)]
    BY DEF IsPartition
  <1>2. PICK off : IsOffset(off, parts, m)
    BY <1>1, OffsetsExist
  <1> DEFINE flat == FlattenSeq(parts)
             L == off[m + 1]
  <1>3. /\ flat \in Seq(1..n) /\ Len(flat) = L
        /\ \A i \in 1..m : \A j \in 1..Len(parts[i]) :
              off[i] + j \in 1..L /\ flat[off[i] + j] = parts[i][j]
    <2> HIDE DEF flat, L
    <2>2. FlattenSeq(parts) \in Seq(1..n) /\ IsFlat(FlattenSeq(parts), parts, m, off)
      BY <1>1, <1>2, FlattenAt
    <2> QED BY <2>2 DEF flat, L, IsFlat
  <1>4. \A q \in 1..L : \E i \in 1..m : \E j \in 1..Len(parts[i]) : q = off[i] + j
    BY <1>1, <1>2, OffsetsCover
  <1> HIDE DEF flat, L
  <1>5. ASSUME NEW p \in 1..L, NEW q \in 1..L, flat[p] = flat[q] PROVE p = q
    <2>1. PICK i \in 1..m : \E j \in 1..Len(parts[i]) : p = off[i] + j
      BY <1>4
    <2>2. PICK j \in 1..Len(parts[i]) : p = off[i] + j
      BY <2>1
    <2>3. PICK d \in 1..m : \E e \in 1..Len(parts[d]) : q = off[d] + e
      BY <1>4
    <2>4. PICK e \in 1..Len(parts[d]) : q = off[d] + e
      BY <2>3
    <2>5. parts[i][j] = parts[d][e]
      BY <1>3, <1>5, <2>2, <2>4
    <2>6. i = d /\ j = e
      BY <2>5 DEF IsPartition
    <2> QED BY <2>2, <2>4, <2>6
  <1>6. ASSUME NEW x \in 1..n PROVE \E q \in 1..L : flat[q] = x
    <2>1. PICK d \in 1..m : \E i \in 1..Len(parts[d]) : parts[d][i] = x
      BY DEF IsPartition
    <2>2. PICK i \in 1..Len(parts[d]) : parts[d][i] = x
      BY <2>1
    <2> QED BY <1>3, <2>2
  <1>7. L \in Nat
    BY <1>3
  <1>8. L = n
    <2>1. flat \in [1..L -> 1..n]
      BY <1>3
    <2>2. flat \in Bijection(1..L, 1..n)
      BY <1>5, <1>6, <2>1 DEF Bijection, Injection, Surjection, IsInjective
    <2>3. ExistsBijection(1..L, 1..n)
      BY <2>2 DEF ExistsBijection
    <2>4. IsFiniteSet(1..L) /\ Cardinality(1..L) = L /\ Cardinality(1..n) = n
      <3>1. IsFiniteSet(1..L) /\ Cardinality(1..L) = L
        BY <1>7, FS_Interval
      <3>2. Cardinality(1..n) = n
        BY FS_Interval
      <3> QED BY <3>1, <3>2
    <2> QED BY <2>3, <2>4, FS_Bijection
  <1> QED BY <1>3, <1>5, <1>6, <1>8 DEF IsOrder, flat

----------------------------------------------------------------------------
(* Sums over sets: unions, renaming and intervals.                          *)

\* The sum over the union of disjoint sets is that of their sums.
LEMMA IterUnions ==
    ASSUME NEW D, IsFiniteSet(D), NEW F \in [D -> Int], NEW t \in SUBSET D
    PROVE  \A s \in SUBSET D : s \cap t = {} => Iter(F)[s \cup t] = Iter(F)[s] + Iter(F)[t]
  <1> DEFINE P == {s \in SUBSET D : s \cap t = {} => Iter(F)[s \cup t] = Iter(F)[s] + Iter(F)[t]}
  <1>0. Iter(F)[t] \in Int
    BY IterInt
  <1>1. {} \in P
    <2>1. Iter(F)[{}] = 0
      BY IterStep
    <2>2. {} \cup t = t
      OBVIOUS
    <2> QED BY <1>0, <2>1, <2>2
  <1>2. ASSUME NEW s \in SUBSET D, s # {}, \A k \in s : s \ {k} \in P
        PROVE  s \in P
    <2> SUFFICES ASSUME s \cap t = {} PROVE Iter(F)[s \cup t] = Iter(F)[s] + Iter(F)[t]
      OBVIOUS
    <2>1. PICK k : k \in s
      BY <1>2
    <2>2. Iter(F)[(s \ {k}) \cup t] = Iter(F)[s \ {k}] + Iter(F)[t]
      BY <1>2, <2>1
    <2>3. Iter(F)[s] = F[k] + Iter(F)[s \ {k}]
      BY <2>1, IterAdd
    <2>4. (s \cup t) \ {k} = (s \ {k}) \cup t /\ k \in s \cup t /\ s \cup t \in SUBSET D
      BY <2>1
    <2>5. Iter(F)[s \cup t] = F[k] + Iter(F)[(s \cup t) \ {k}]
      BY <2>4, IterAdd
    <2>6. F[k] \in Int /\ Iter(F)[s \ {k}] \in Int
      BY <2>1, IterInt
    <2> HIDE DEF P
    <2>7. \A a, b, c \in Int : a + (b + c) = (a + b) + c
      OBVIOUS
    <2>8. Iter(F)[s \cup t] = F[k] + (Iter(F)[s \ {k}] + Iter(F)[t])
      BY <2>2, <2>4, <2>5
    <2>9. Iter(F)[s] + Iter(F)[t] = (F[k] + Iter(F)[s \ {k}]) + Iter(F)[t]
      BY <2>3
    <2> QED BY <1>0, <2>6, <2>7, <2>8, <2>9
  <1> HIDE DEF P
  <1>3. SUBSET D \subseteq P
    BY <1>1, <1>2, SubsetInduct
  <1> QED BY <1>3 DEF P

\* A function whose values can be summed, and the sum over a part of its domain
Summable(F, D) == IsFiniteSet(D) /\ F \in [D -> Int]

\* A sum is an integer.
LEMMA SumType ==
    ASSUME NEW D, NEW F, Summable(F, D), NEW s, s \subseteq D
    PROVE  Iter(F)[s] \in Int
  BY IterInt DEF Summable

\* A sum of nothing is 0.
LEMMA SumNone ==
    ASSUME NEW D, NEW F, Summable(F, D)
    PROVE  Iter(F)[{}] = 0
  BY IterStep DEF Summable

\* An element can be taken out of a sum.
LEMMA SumTakes ==
    ASSUME NEW D, NEW F, Summable(F, D), NEW s, s \subseteq D, NEW k, k \in s
    PROVE  Iter(F)[s] = F[k] + Iter(F)[s \ {k}]
  BY IterAdd DEF Summable

\* Sums over disjoint sets are added.
LEMMA SumUnion ==
    ASSUME NEW D, NEW F, Summable(F, D), NEW s, s \subseteq D, NEW t, t \subseteq D, s \cap t = {}
    PROVE  Iter(F)[s \cup t] = Iter(F)[s] + Iter(F)[t]
  <1>1. IsFiniteSet(D) /\ F \in [D -> Int] /\ t \in SUBSET D /\ s \in SUBSET D
    BY DEF Summable
  <1>2. \A r \in SUBSET D : r \cap t = {} => Iter(F)[r \cup t] = Iter(F)[r] + Iter(F)[t]
    BY <1>1, IterUnions
  <1> QED BY <1>1, <1>2

\* G has at h[x] the value of F at x.
Renames(h, F, D, G, E) ==
    /\ Summable(F, D) /\ Summable(G, E) /\ h \in [D -> E]
    /\ \A x, y \in D : h[x] = h[y] => x = y
    /\ \A x \in D : F[x] = G[h[x]]

\* The elements of t, renamed
ImageOf(h, t) == {h[x] : x \in t}

\* Renaming the elements does not change the sum.
LEMMA SumRenamed ==
    ASSUME NEW D, NEW E, NEW F, NEW G, NEW h, Renames(h, F, D, G, E), NEW t, t \subseteq D
    PROVE  Iter(F)[t] = Iter(G)[ImageOf(h, t)]
  <1> DEFINE P == {s \in SUBSET D : Iter(F)[s] = Iter(G)[{h[x] : x \in s}]}
  <1>0. /\ Summable(F, D) /\ Summable(G, E) /\ h \in [D -> E] /\ IsFiniteSet(D)
        /\ \A x, y \in D : h[x] = h[y] => x = y
        /\ \A x \in D : F[x] = G[h[x]]
    BY DEF Renames, Summable
  <1>1. {} \in P
    <2>1. Iter(F)[{}] = 0 /\ Iter(G)[{}] = 0
      BY <1>0, SumNone
    <2>2. {h[x] : x \in {}} = {}
      OBVIOUS
    <2> QED BY <2>1, <2>2
  <1>2. ASSUME NEW s \in SUBSET D, s # {}, \A k \in s : s \ {k} \in P
        PROVE  s \in P
    <2>1. PICK k : k \in s
      BY <1>2
    <2> DEFINE T == {h[x] : x \in s}
    <2>2. Iter(F)[s \ {k}] = Iter(G)[{h[x] : x \in s \ {k}}]
      BY <1>2, <2>1
    <2>3. {h[x] : x \in s \ {k}} = T \ {h[k]}
      BY <1>0, <2>1
    <2>4. T \subseteq E /\ h[k] \in T
      BY <1>0, <2>1
    <2>5. Iter(F)[s] = F[k] + Iter(F)[s \ {k}]
      BY <1>0, <2>1, SumTakes
    <2> HIDE DEF T
    <2>6. Iter(G)[T] = G[h[k]] + Iter(G)[T \ {h[k]}]
      BY <1>0, <2>4, SumTakes
    <2>7. F[k] = G[h[k]]
      BY <1>0, <2>1
    <2> QED BY <2>2, <2>3, <2>5, <2>6, <2>7 DEF T
  <1> HIDE DEF P
  <1>3. SUBSET D \subseteq P
    BY <1>0, <1>1, <1>2, SubsetInduct
  <1> QED BY <1>3 DEF P, ImageOf

\* The sum over t depends on the values there.
Agrees(F, D, G, E, t) ==
    /\ Summable(F, D) /\ Summable(G, E) /\ t \subseteq D /\ t \subseteq E
    /\ \A x \in t : F[x] = G[x]

\* Functions that agree on a set have the same sum over it.
LEMMA SumAgrees ==
    ASSUME NEW D, NEW E, NEW F, NEW G, NEW t, Agrees(F, D, G, E, t)
    PROVE  Iter(F)[t] = Iter(G)[t]
  <1> DEFINE P == {s \in SUBSET t : Iter(F)[s] = Iter(G)[s]}
  <1>0. /\ Summable(F, D) /\ Summable(G, E) /\ t \subseteq D /\ t \subseteq E
        /\ \A x \in t : F[x] = G[x]
    BY DEF Agrees
  <1>1. {} \in P
    BY <1>0, SumNone
  <1>2. ASSUME NEW s \in SUBSET t, s # {}, \A k \in s : s \ {k} \in P
        PROVE  s \in P
    <2>1. PICK k : k \in s
      BY <1>2
    <2>2. Iter(F)[s \ {k}] = Iter(G)[s \ {k}]
      BY <1>2, <2>1
    <2>3. s \subseteq D /\ s \subseteq E
      BY <1>0
    <2>4. Iter(F)[s] = F[k] + Iter(F)[s \ {k}]
      BY <1>0, <2>1, <2>3, SumTakes
    <2>5. Iter(G)[s] = G[k] + Iter(G)[s \ {k}]
      BY <1>0, <2>1, <2>3, SumTakes
    <2>6. F[k] = G[k]
      BY <1>0, <2>1
    <2> QED BY <2>2, <2>4, <2>5, <2>6
  <1> HIDE DEF P
  <1>3. IsFiniteSet(t)
    BY <1>0, FS_Subset DEF Summable
  <1>4. SUBSET t \subseteq P
    BY <1>1, <1>2, <1>3, SubsetInduct
  <1> QED BY <1>4 DEF P

\* A sum of positive numbers is positive, unless it is empty.
LEMMA IterPositive ==
    ASSUME NEW D, IsFiniteSet(D), NEW F \in [D -> Int], \A x \in D : F[x] > 0
    PROVE  \A s \in SUBSET D : Iter(F)[s] >= 0 /\ (s # {} => Iter(F)[s] > 0)
  <1> DEFINE P == {s \in SUBSET D : Iter(F)[s] >= 0 /\ (s # {} => Iter(F)[s] > 0)}
  <1>1. {} \in P
    BY IterStep
  <1>2. ASSUME NEW s \in SUBSET D, s # {}, \A k \in s : s \ {k} \in P
        PROVE  s \in P
    <2>1. PICK k : k \in s
      BY <1>2
    <2>2. Iter(F)[s \ {k}] >= 0
      BY <1>2, <2>1
    <2>3. Iter(F)[s] = F[k] + Iter(F)[s \ {k}]
      BY <2>1, IterAdd
    <2>4. F[k] \in Int /\ F[k] > 0 /\ Iter(F)[s \ {k}] \in Int
      BY <2>1, IterInt
    <2>5. F[k] + Iter(F)[s \ {k}] > 0
      BY ONLY <2>2, <2>4
    <2>6. Iter(F)[s] > 0 /\ Iter(F)[s] >= 0
      BY ONLY <2>3, <2>4, <2>5
    <2> QED BY <2>6
  <1> HIDE DEF P
  <1>3. SUBSET D \subseteq P
    BY <1>1, <1>2, SubsetInduct
  <1> QED BY <1>3 DEF P

\* The same of a part of the domain
LEMMA SumPositive ==
    ASSUME NEW D, NEW F, Summable(F, D), \A x \in D : F[x] > 0, NEW s, s \subseteq D
    PROVE  Iter(F)[s] >= 0 /\ (s # {} => Iter(F)[s] > 0)
  BY IterPositive DEF Summable

\* A sum over an interval in two parts
IsSplit(H, F, m, G, l) ==
    /\ m \in Nat /\ l \in Nat
    /\ Summable(F, 1..m) /\ Summable(G, 1..l) /\ Summable(H, 1..m + l)
    /\ \A i \in 1..m : F[i] = H[i]
    /\ \A i \in 1..l : G[i] = H[m + i]

\* A sum over an interval is that over its beginning and that over its rest.
LEMMA SumSplit ==
    ASSUME NEW m, NEW l, NEW F, NEW G, NEW H, IsSplit(H, F, m, G, l)
    PROVE  Iter(H)[1..m + l] = Iter(F)[1..m] + Iter(G)[1..l]
  <1>0. /\ m \in Nat /\ l \in Nat
        /\ Summable(F, 1..m) /\ Summable(G, 1..l) /\ Summable(H, 1..m + l)
        /\ \A i \in 1..m : F[i] = H[i]
        /\ \A i \in 1..l : G[i] = H[m + i]
    BY DEF IsSplit
  <1> DEFINE left == 1..m
             right == m + 1..m + l
             whole == 1..m + l
             other == 1..l
             h == [i \in other |-> m + i]
  <1>1. left \subseteq whole /\ right \subseteq whole
        /\ left \cap right = {} /\ left \cup right = whole
    BY <1>0
  <1>2. Agrees(F, left, H, whole, left)
    BY <1>0, <1>1 DEF Agrees
  <1>3. Renames(h, G, other, H, whole)
    BY <1>0 DEF Renames
  <1>4. {h[x] : x \in other} = right
    <2>1. ASSUME NEW x \in other PROVE h[x] \in right
      BY <1>0
    <2>2. ASSUME NEW y \in right PROVE \E x \in other : h[x] = y
      <3>1. y - m \in other /\ h[y - m] = y
        BY <1>0
      <3> HIDE DEF h
      <3> QED BY <3>1
    <2> HIDE DEF h, right, other
    <2> QED BY <2>1, <2>2
  <1>5. Summable(H, whole)
    BY <1>0
  <1> HIDE DEF left, right, whole, other, h
  <1>6. Iter(H)[whole] = Iter(H)[left] + Iter(H)[right]
    BY <1>1, <1>5, SumUnion
  <1>7. Iter(F)[left] = Iter(H)[left]
    BY <1>2, SumAgrees
  <1>8. Iter(G)[other] = Iter(H)[right]
    BY <1>3, <1>4, SumRenamed DEF ImageOf
  <1> QED BY <1>6, <1>7, <1>8 DEF left, whole, other

----------------------------------------------------------------------------
(* Sequences as sets, and in another order.                                 *)

\* What a part holds
Members(part) == {part[i] : i \in 1..Len(part)}

\* ... and that it holds nothing twice
NoTwice(part) == \A i, j \in 1..Len(part) : part[i] = part[j] => i = j

\* What a rearrangement says, for one position at a time.
LEMMA ReorderedType ==
    ASSUME NEW n \in Nat, NEW s, NEW t, NEW at, Reordered(t, s, at, n)
    PROVE  /\ Len(t) = n
           /\ \A p \in 1..n : at[p] \in 1..n /\ t[p] = s[at[p]]
           /\ \A p, q \in 1..n : at[p] = at[q] => p = q
           /\ \A x \in 1..n : \E p \in 1..n : at[p] = x
  <1>2. at \in Seq(1..n) /\ Len(at) = n
    BY DEF Reordered, IsOrder
  <1>3. \A p \in 1..n : at[p] \in 1..n
    BY <1>2
  <1>4. Len(t) = n /\ \A p \in 1..n : t[p] = s[at[p]]
    BY DEF Reordered
  <1>5. /\ \A p, q \in 1..n : at[p] = at[q] => p = q
        /\ \A x \in 1..n : \E p \in 1..n : at[p] = x
    BY ONLY Reordered(t, s, at, n) DEF Reordered, IsOrder
  <1> QED BY <1>3, <1>4, <1>5

\* The same, under one name
IsRearrangement(t, s, at, n) ==
    /\ Len(t) = n
    /\ \A p \in 1..n : at[p] \in 1..n /\ t[p] = s[at[p]]
    /\ \A p, q \in 1..n : at[p] = at[q] => p = q
    /\ \A x \in 1..n : \E p \in 1..n : at[p] = x

\* ReorderedType, with its conclusion named.
LEMMA ReorderedFacts ==
    ASSUME NEW n \in Nat, NEW s, NEW t, NEW at, Reordered(t, s, at, n)
    PROVE  IsRearrangement(t, s, at, n)
  BY ReorderedType DEF IsRearrangement

----------------------------------------------------------------------------
(* Numbers in a grid of m rows with k columns.                              *)

\* Numbers to m * k, in m rows of k
LEMMA GridPlace ==
    ASSUME NEW k \in Nat \ {0}, NEW m \in Nat, NEW g \in 0..m - 1, NEW i \in 1..k
    PROVE  g * k + i \in 1..m * k
  <1>1. g * k \in Nat /\ m * k \in Nat
    OBVIOUS
  <1>2. PICK d \in Nat : m = g + 1 + d
    <2>1. m - g - 1 \in Nat
      OBVIOUS
    <2> QED BY <2>1
  <1>3. m * k = g * k + k + d * k /\ d * k \in Nat
    BY <1>2
  <1> QED BY <1>1, <1>3

\* No number is in two places.
LEMMA GridApart ==
    ASSUME NEW k \in Nat \ {0}, NEW g \in Nat, NEW h \in Nat, NEW i \in 1..k, NEW j \in 1..k,
           g * k + i = h * k + j
    PROVE  g = h /\ i = j
  <1>1. ASSUME NEW d \in Nat PROVE (d + 1) * k >= k
    <2>1. d * k \in Nat /\ (d + 1) * k = d * k + k
      OBVIOUS
    <2> QED BY <2>1
  <1>2. CASE g < h
    <2>1. PICK d \in Nat : h = g + (d + 1)
      <3>1. h - g - 1 \in Nat
        BY <1>2
      <3> QED BY <3>1
    <2>2. h * k = g * k + (d + 1) * k
      BY <2>1
    <2> QED BY <1>1, <2>2
  <1>3. CASE h < g
    <2>1. PICK d \in Nat : g = h + (d + 1)
      <3>1. g - h - 1 \in Nat
        BY <1>3
      <3> QED BY <3>1
    <2>2. g * k = h * k + (d + 1) * k
      BY <2>1
    <2> QED BY <1>1, <2>2
  <1>4. CASE g = h
    BY <1>4
  <1> QED BY <1>2, <1>3, <1>4

\* Every number is in some place.
LEMMA GridCovers ==
    ASSUME NEW k \in Nat \ {0}, NEW m \in Nat, NEW p \in 1..m * k
    PROVE  \E g \in 0..m - 1 : \E i \in 1..k : p = g * k + i
  <1> DEFINE g == (p - 1) \div k
             r == (p - 1) % k
  <1>0. m * k \in Nat
    OBVIOUS
  <1>1. p - 1 \in Nat /\ p - 1 < m * k
    BY <1>0
  <1>2. PICK x \in Nat : x = p - 1
    BY <1>1
  <1>3. x = k * (x \div k) + (x % k) /\ x \div k \in Nat /\ x % k \in 0..k - 1
    <2>1. k \in Int /\ k > 0 /\ x \in Int
      OBVIOUS
    <2>2. x = k * (x \div k) + (x % k)
      BY ONLY <2>1
    <2>3. x \div k \in Nat
      OBVIOUS
    <2>4. x % k \in 0..k - 1
      OBVIOUS
    <2> QED BY <2>2, <2>3, <2>4
  <1>4. PICK y \in Nat, z \in 0..k - 1 : y = x \div k /\ z = x % k
    BY <1>3
  <1>5. x = k * y + z
    BY <1>3, <1>4
  <1>6. y < m
    <2>1. SUFFICES ASSUME y >= m PROVE FALSE
      OBVIOUS
    <2>2. PICK d \in Nat : y = m + d
      <3>1. y - m \in Nat
        BY <2>1
      <3> QED BY <3>1
    <2>3. k * y = m * k + k * d /\ k * d \in Nat
      BY <2>2
    <2> QED BY <1>0, <1>1, <1>2, <1>5, <2>3
  <1>7. y \in 0..m - 1 /\ z + 1 \in 1..k
    BY <1>6
  <1>8. p = y * k + (z + 1)
    <2>1. p = k * y + z + 1 /\ k * y = y * k
      BY <1>2, <1>5
    <2>2. y * k \in Nat
      OBVIOUS
    <2> QED BY <2>1, <2>2
  <1> QED BY <1>7, <1>8

\* Division without a remainder.
LEMMA Divides ==
    ASSUME NEW n \in Nat, NEW k \in Nat \ {0}, n % k = 0
    PROVE  n \div k \in Nat /\ n = (n \div k) * k
  <1>1. n \div k \in Nat
    OBVIOUS
  <1>2. n \in Int /\ k \in Int /\ k > 0
    OBVIOUS
  <1>3. n = k * (n \div k) + (n % k)
    BY ONLY <1>2
  <1>4. PICK q \in Nat : q = n \div k
    BY <1>1
  <1>5. n = k * q + 0
    BY <1>3, <1>4
  <1>6. n = q * k
    BY ONLY <1>5, n \in Nat, k \in Nat, q \in Nat
  <1> QED BY <1>4, <1>6

\* n positions in m rows of k, and the i-th of row g
IsGrid(n, m, k) == n \in Nat /\ m \in Nat /\ k \in Nat \ {0} /\ n = m * k

\* ... is this number.
Cell(k, g, i) == g * k + i

\* The grid has every number to n in exactly one place.
LEMMA Cells ==
    ASSUME NEW n, NEW m, NEW k, IsGrid(n, m, k)
    PROVE  /\ \A g \in 0..m - 1 : \A i \in 1..k : Cell(k, g, i) \in 1..n
           /\ \A g, h \in 0..m - 1 : \A i, j \in 1..k :
                 Cell(k, g, i) = Cell(k, h, j) => g = h /\ i = j
           /\ \A p \in 1..n : \E g \in 0..m - 1 : \E i \in 1..k : p = Cell(k, g, i)
  <1>1. m \in Nat /\ k \in Nat \ {0} /\ n = m * k
    BY DEF IsGrid
  <1>2. ASSUME NEW g \in 0..m - 1, NEW i \in 1..k PROVE Cell(k, g, i) \in 1..n
    <2>1. g * k + i \in 1..m * k
      BY <1>1, GridPlace
    <2> QED BY <1>1, <2>1 DEF Cell
  <1>3. ASSUME NEW g \in 0..m - 1, NEW h \in 0..m - 1, NEW i \in 1..k, NEW j \in 1..k,
               Cell(k, g, i) = Cell(k, h, j)
        PROVE  g = h /\ i = j
    <2>1. g * k + i = h * k + j
      BY <1>3 DEF Cell
    <2>2. g \in Nat /\ h \in Nat
      OBVIOUS
    <2> QED BY <1>1, <2>1, <2>2, GridApart
  <1>4. ASSUME NEW p \in 1..n PROVE \E g \in 0..m - 1 : \E i \in 1..k : p = Cell(k, g, i)
    <2>1. p \in 1..m * k
      BY <1>1
    <2>2. \E g \in 0..m - 1 : \E i \in 1..k : p = g * k + i
      BY ONLY <1>1, <2>1, GridCovers
    <2> QED BY <2>2 DEF Cell
  <1> QED BY <1>2, <1>3, <1>4

----------------------------------------------------------------------------
(* Images, rearrangements and groups.                                       *)

\* T holds the values of f.
IsImage(T, f, S) == f = [x \in S |-> f[x]] /\ T = {f[x] : x \in S}

\* The image of a finite set is finite.
LEMMA ImageFinite ==
    ASSUME NEW S, IsFiniteSet(S), NEW f, NEW T, IsImage(T, f, S)
    PROVE  IsFiniteSet(T)
  <1>0. f = [x \in S |-> f[x]] /\ T = {f[x] : x \in S}
    BY DEF IsImage
  <1>1. f \in [S -> T]
    BY <1>0
  <1>2. \A y \in T : \E x \in S : f[x] = y
    BY <1>0
  <1>3. f \in Surjection(S, T)
    BY <1>1, <1>2 DEF Surjection
  <1> QED BY <1>3, FS_Surjection

\* n numbers to n that are all different are an order.
LEMMA OrderFromInjection ==
    ASSUME NEW n \in Nat, NEW at \in [1..n -> 1..n], \A p, q \in 1..n : at[p] = at[q] => p = q
    PROVE  IsOrder(at, n)
  <1>1. \A x \in 1..n : \E p \in 1..n : at[p] = x
    BY BijectionFromInjection
  <1>2. at \in Seq(1..n) /\ Len(at) = n
    OBVIOUS
  <1> QED BY <1>1, <1>2 DEF IsOrder

\* A rearrangement of a rearrangement is one.
LEMMA ReorderedAgain ==
    ASSUME NEW n \in Nat, NEW s, NEW t, NEW u, NEW at, Reordered(t, s, at, n),
           NEW bt, Reordered(u, t, bt, n)
    PROVE  \E ct : Reordered(u, s, ct, n)
  <1>1. /\ Len(t) = n
        /\ \A p \in 1..n : at[p] \in 1..n /\ t[p] = s[at[p]]
        /\ \A p, q \in 1..n : at[p] = at[q] => p = q
    BY ONLY n \in Nat, Reordered(t, s, at, n), ReorderedType
  <1>2. /\ Len(u) = n
        /\ \A p \in 1..n : bt[p] \in 1..n /\ u[p] = t[bt[p]]
        /\ \A p, q \in 1..n : bt[p] = bt[q] => p = q
    BY ONLY n \in Nat, Reordered(u, t, bt, n), ReorderedType
  <1> DEFINE ct == [p \in 1..n |-> at[bt[p]]]
  <1>3. ct \in [1..n -> 1..n] /\ \A p \in 1..n : ct[p] = at[bt[p]]
    BY <1>1, <1>2
  <1> HIDE DEF ct
  <1>4. \A p, q \in 1..n : ct[p] = ct[q] => p = q
    <2> SUFFICES ASSUME NEW p \in 1..n, NEW q \in 1..n, ct[p] = ct[q] PROVE p = q
      OBVIOUS
    <2>1. at[bt[p]] = at[bt[q]] /\ bt[p] \in 1..n /\ bt[q] \in 1..n
      BY <1>2, <1>3
    <2>2. bt[p] = bt[q]
      BY <1>1, <2>1
    <2> QED BY <1>2, <2>2
  <1>5. IsOrder(ct, n)
    BY <1>3, <1>4, OrderFromInjection
  <1>6. ASSUME NEW p \in 1..n PROVE u[p] = s[ct[p]]
    <2>1. u[p] = t[bt[p]] /\ bt[p] \in 1..n
      BY <1>2
    <2>2. t[bt[p]] = s[at[bt[p]]]
      BY <1>1, <2>1
    <2> QED BY <1>3, <2>1, <2>2
  <1>7. Reordered(u, s, ct, n)
    BY <1>2, <1>5, <1>6 DEF Reordered
  <1> QED BY <1>7

\* Parts in another order
LEMMA PartsReordered ==
    ASSUME NEW m \in Nat, NEW n, NEW parts, IsPartition(parts, m, n),
           NEW t, t \in [1..m -> Seq(1..n)], NEW at, Reordered(t, parts, at, m)
    PROVE  IsPartition(t, m, n)
  <1>1. /\ \A p \in 1..m : at[p] \in 1..m /\ t[p] = parts[at[p]]
        /\ \A p, q \in 1..m : at[p] = at[q] => p = q
        /\ \A x \in 1..m : \E p \in 1..m : at[p] = x
    BY ONLY m \in Nat, Reordered(t, parts, at, m), ReorderedType
  <1>2. ASSUME NEW d \in 1..m, NEW e \in 1..m, NEW i \in 1..Len(t[d]), NEW j \in 1..Len(t[e]),
               t[d][i] = t[e][j]
        PROVE  d = e /\ i = j
    <2>1. PICK f \in 1..m : f = at[d] /\ t[d] = parts[f]
      BY <1>1
    <2>2. PICK g \in 1..m : g = at[e] /\ t[e] = parts[g]
      BY <1>1
    <2>3. i \in 1..Len(parts[f]) /\ j \in 1..Len(parts[g]) /\ parts[f][i] = parts[g][j]
      BY <1>2, <2>1, <2>2
    <2>4. f = g /\ i = j
      BY <2>3 DEF IsPartition
    <2>5. at[d] = at[e]
      BY <2>1, <2>2, <2>4
    <2> QED BY <1>1, <2>4, <2>5
  <1>3. ASSUME NEW x \in 1..n PROVE \E d \in 1..m : \E i \in 1..Len(t[d]) : t[d][i] = x
    <2>1. PICK e \in 1..m : \E i \in 1..Len(parts[e]) : parts[e][i] = x
      BY DEF IsPartition
    <2>2. PICK d \in 1..m : at[d] = e
      BY <1>1
    <2>3. t[d] = parts[e]
      BY <1>1, <2>2
    <2> QED BY <2>1, <2>3
  <1> QED BY <1>2, <1>3 DEF IsPartition

\* The positions of a part in another order
SameParts(t, parts, m, n) ==
    /\ t \in [1..m -> Seq(1..n)]
    /\ \A d \in 1..m : \E at : Reordered(t[d], parts[d], at, Len(parts[d]))

\* A partition with another order within the parts is a partition, with parts of the same
\* lengths.
LEMMA WithinReordered ==
    ASSUME NEW m \in Nat, NEW n, NEW parts, IsPartition(parts, m, n),
           NEW t, SameParts(t, parts, m, n)
    PROVE  IsPartition(t, m, n) /\ \A d \in 1..m : Len(t[d]) = Len(parts[d])
  <1>1. parts \in [1..m -> Seq(1..n)]
    BY DEF IsPartition
  <1>2. ASSUME NEW d \in 1..m
        PROVE  /\ Len(t[d]) = Len(parts[d])
               /\ \A i, j \in 1..Len(t[d]) : t[d][i] = t[d][j] => i = j
               /\ \A i \in 1..Len(t[d]) : \E j \in 1..Len(parts[d]) : t[d][i] = parts[d][j]
               /\ \A j \in 1..Len(parts[d]) : \E i \in 1..Len(t[d]) : t[d][i] = parts[d][j]
    <2>1. PICK at : Reordered(t[d], parts[d], at, Len(parts[d]))
      BY DEF SameParts
    <2>2. PICK x, y : x = parts[d] /\ y = t[d]
      OBVIOUS
    <2>3. PICK l \in Nat : l = Len(x)
      BY <1>1, <2>2
    <2>4. Reordered(y, x, at, l)
      BY <2>1, <2>2, <2>3
    <2>5. /\ Len(y) = l
          /\ \A p \in 1..l : at[p] \in 1..l /\ y[p] = x[at[p]]
          /\ \A p, q \in 1..l : at[p] = at[q] => p = q
          /\ \A z \in 1..l : \E p \in 1..l : at[p] = z
      BY <2>4, ReorderedType
    <2>6. \A i, j \in 1..l : x[i] = x[j] => i = j
      BY <2>2, <2>3 DEF IsPartition
    <2>7. ASSUME NEW i \in 1..l, NEW j \in 1..l, y[i] = y[j] PROVE i = j
      <3>1. at[i] \in 1..l /\ at[j] \in 1..l /\ x[at[i]] = x[at[j]]
        BY <2>5, <2>7
      <3>2. at[i] = at[j]
        BY <2>6, <3>1
      <3> QED BY <2>5, <3>2
    <2>8. \A i \in 1..l : \E j \in 1..l : y[i] = x[j]
      BY <2>5
    <2>9. ASSUME NEW j \in 1..l PROVE \E i \in 1..l : y[i] = x[j]
      <3>1. PICK i \in 1..l : at[i] = j
        BY <2>5
      <3> QED BY <2>5, <3>1
    <2>10. Len(y) = Len(x) /\ l = Len(y)
      BY <2>3, <2>5
    <2>11. /\ \A i, j \in 1..Len(y) : y[i] = y[j] => i = j
           /\ \A i \in 1..Len(y) : \E j \in 1..Len(x) : y[i] = x[j]
           /\ \A j \in 1..Len(x) : \E i \in 1..Len(y) : y[i] = x[j]
      <3>1. PICK e, f : e = Len(x) /\ f = Len(y)
        OBVIOUS
      <3>2. e = l /\ f = l
        BY <2>3, <2>10, <3>1
      <3> QED BY ONLY <2>7, <2>8, <2>9, <3>1, <3>2
    <2> QED BY ONLY <2>2, <2>10, <2>11
  <1>3. ASSUME NEW d \in 1..m, NEW e \in 1..m, NEW i \in 1..Len(t[d]), NEW j \in 1..Len(t[e]),
               t[d][i] = t[e][j]
        PROVE  d = e /\ i = j
    <2>1. PICK a \in 1..Len(parts[d]) : t[d][i] = parts[d][a]
      BY <1>2
    <2>2. PICK b \in 1..Len(parts[e]) : t[e][j] = parts[e][b]
      BY <1>2
    <2>3. parts[d][a] = parts[e][b]
      BY <1>3, <2>1, <2>2
    <2>4. d = e
      BY <2>3 DEF IsPartition
    <2>5. j \in 1..Len(t[d]) /\ t[d][i] = t[d][j]
      BY <1>3, <2>4
    <2> QED BY <1>2, <2>4, <2>5
  <1>4. ASSUME NEW x \in 1..n PROVE \E d \in 1..m : \E i \in 1..Len(t[d]) : t[d][i] = x
    <2>1. PICK d \in 1..m : \E i \in 1..Len(parts[d]) : parts[d][i] = x
      BY DEF IsPartition
    <2>2. PICK j \in 1..Len(parts[d]) : parts[d][j] = x
      BY <2>1
    <2>3. \E i \in 1..Len(t[d]) : t[d][i] = parts[d][j]
      BY <1>2
    <2> QED BY <2>2, <2>3
  <1>5. t \in [1..m -> Seq(1..n)]
    BY DEF SameParts
  <1> QED BY <1>2, <1>3, <1>4, <1>5 DEF IsPartition

\* Every position is one of a part.
OffsetsReach(off, parts, m) ==
    \A q \in 1..off[m + 1] : \E i \in 1..m : \E j \in 1..Len(parts[i]) : q = off[i] + j

\* OffsetsCover, with its conclusion named.
LEMMA OffsetCovers ==
    ASSUME NEW A, NEW m \in Nat, NEW parts \in [1..m -> Seq(A)], NEW off, IsOffset(off, parts, m)
    PROVE  OffsetsReach(off, parts, m)
  <1>1. ASSUME NEW q \in 1..off[m + 1]
        PROVE  \E i \in 1..m : \E j \in 1..Len(parts[i]) : q = off[i] + j
    BY OffsetsCover
  <1> QED BY <1>1 DEF OffsetsReach

\* Groups of positions, divided among parts
Flattened(groups, parts, k) ==
    [p \in 1..k |-> FlattenSeq([g \in 1..Len(parts[p]) |-> groups[parts[p][g]]])]

\* A part holds groups as a whole.
Unbroken(t, groups, parts, k) ==
    \A p \in 1..k :
       /\ \A i \in 1..Len(t[p]) : \E g \in 1..Len(parts[p]) :
             \E j \in 1..Len(groups[parts[p][g]]) : t[p][i] = groups[parts[p][g]][j]
       /\ \A g \in 1..Len(parts[p]) : \A j \in 1..Len(groups[parts[p][g]]) :
             \E i \in 1..Len(t[p]) : t[p][i] = groups[parts[p][g]][j]

\* Dividing groups divides positions: no group is broken up, no position is lost.
LEMMA Grouped ==
    ASSUME NEW n \in Nat, NEW m \in Nat, NEW groups, IsPartition(groups, m, n),
           NEW k \in Nat, NEW parts, IsPartition(parts, k, m),
           NEW t, t = Flattened(groups, parts, k)
    PROVE  IsPartition(t, k, n) /\ Unbroken(t, groups, parts, k)
  <1>0. t = [p \in 1..k |-> FlattenSeq([g \in 1..Len(parts[p]) |-> groups[parts[p][g]]])]
    BY DEF Flattened
  <1>1. groups \in [1..m -> Seq(1..n)] /\ parts \in [1..k -> Seq(1..m)]
    BY DEF IsPartition
  <1>2. ASSUME NEW p \in 1..k
        PROVE  /\ t[p] \in Seq(1..n)
               /\ \A i \in 1..Len(t[p]) : \E g \in 1..Len(parts[p]) :
                     \E j \in 1..Len(groups[parts[p][g]]) : t[p][i] = groups[parts[p][g]][j]
               /\ \A g \in 1..Len(parts[p]) : \A j \in 1..Len(groups[parts[p][g]]) :
                     \E i \in 1..Len(t[p]) : t[p][i] = groups[parts[p][g]][j]
               /\ \A i, j \in 1..Len(t[p]) : t[p][i] = t[p][j] => i = j
    <2>1. PICK part \in Seq(1..m) : part = parts[p]
      BY <1>1
    <2>2. PICK l \in Nat : l = Len(part)
      OBVIOUS
    <2>3. \A g \in 1..l : part[g] \in 1..m
      BY <2>2, ElementOfSeq
    <2>4. PICK bits : bits = [g \in 1..l |-> groups[part[g]]]
      OBVIOUS
    <2>5. PICK A : A = 1..n
      OBVIOUS
    <2>6. bits \in [1..l -> Seq(A)]
      BY <1>1, <2>3, <2>4, <2>5
    <2>7. PICK off : IsOffset(off, bits, l)
      BY <2>6, OffsetsExist
    <2>8. PICK flat : flat = FlattenSeq(bits)
      OBVIOUS
    <2>9. flat \in Seq(A) /\ IsFlat(flat, bits, l, off)
      BY <2>6, <2>7, <2>8, FlattenAt
    <2>10. \A q \in 1..off[l + 1] : \E g \in 1..l : \E j \in 1..Len(bits[g]) : q = off[g] + j
      <3>1. OffsetsReach(off, bits, l)
        BY <2>6, <2>7, OffsetCovers
      <3> QED BY ONLY <3>1 DEF OffsetsReach
    <2>11. /\ Len(flat) = off[l + 1]
           /\ \A g \in 1..l : \A j \in 1..Len(bits[g]) :
                 off[g] + j \in 1..off[l + 1] /\ flat[off[g] + j] = bits[g][j]
      BY <2>9 DEF IsFlat
    <2>12. t[p] = flat
      BY <1>0, <2>1, <2>2, <2>4, <2>8
    <2>13. \A g \in 1..l : bits[g] = groups[part[g]]
      BY <2>4
    <2>14. ASSUME NEW i \in 1..Len(flat)
           PROVE  \E g \in 1..l : \E j \in 1..Len(bits[g]) : i = off[g] + j /\ flat[i] = bits[g][j]
      <3>1. PICK g \in 1..l : \E j \in 1..Len(bits[g]) : i = off[g] + j
        BY <2>10, <2>11
      <3>2. PICK j \in 1..Len(bits[g]) : i = off[g] + j
        BY <3>1
      <3>3. flat[i] = bits[g][j]
        BY <2>11, <3>2
      <3> QED BY <3>2, <3>3
    <2>15. ASSUME NEW i \in 1..Len(flat), NEW e \in 1..Len(flat), flat[i] = flat[e] PROVE i = e
      <3>1x. PICK g \in 1..l : \E j \in 1..Len(bits[g]) : i = off[g] + j /\ flat[i] = bits[g][j]
        BY <2>14
      <3>1. PICK j \in 1..Len(bits[g]) : i = off[g] + j /\ flat[i] = bits[g][j]
        BY <3>1x
      <3>2x. PICK h \in 1..l : \E f \in 1..Len(bits[h]) : e = off[h] + f /\ flat[e] = bits[h][f]
        BY <2>14
      <3>2. PICK f \in 1..Len(bits[h]) : e = off[h] + f /\ flat[e] = bits[h][f]
        BY <3>2x
      <3>3. groups[part[g]][j] = groups[part[h]][f] /\ part[g] \in 1..m /\ part[h] \in 1..m
        BY <2>3, <2>13, <2>15, <3>1, <3>2
      <3>4. j \in 1..Len(groups[part[g]]) /\ f \in 1..Len(groups[part[h]])
        BY <2>13
      <3>5. part[g] = part[h] /\ j = f
        <4>1. PICK u, v : u = part[g] /\ v = part[h]
          OBVIOUS
        <4>2. /\ u \in 1..m /\ v \in 1..m /\ groups[u][j] = groups[v][f]
              /\ j \in 1..Len(groups[u]) /\ f \in 1..Len(groups[v])
          BY <3>3, <3>4, <4>1
        <4>3. u = v /\ j = f
          BY ONLY IsPartition(groups, m, n), <4>2 DEF IsPartition
        <4> QED BY <4>1, <4>3
      <3>6. g = h
        <4>1. g \in 1..Len(parts[p]) /\ h \in 1..Len(parts[p]) /\ parts[p][g] = parts[p][h]
          BY <2>1, <2>2, <3>5
        <4> QED BY ONLY IsPartition(parts, k, m), p \in 1..k, <4>1 DEF IsPartition
      <3> QED BY <3>1, <3>2, <3>5, <3>6
    <2>16. \A i \in 1..Len(flat) : \E g \in 1..l : \E j \in 1..Len(groups[part[g]]) :
              flat[i] = groups[part[g]][j]
      <3> SUFFICES ASSUME NEW i \in 1..Len(flat)
                   PROVE  \E g \in 1..l : \E j \in 1..Len(groups[part[g]]) : flat[i] = groups[part[g]][j]
        OBVIOUS
      <3>1x. PICK g \in 1..l : \E j \in 1..Len(bits[g]) : i = off[g] + j /\ flat[i] = bits[g][j]
        BY <2>14
      <3>1. PICK j \in 1..Len(bits[g]) : i = off[g] + j /\ flat[i] = bits[g][j]
        BY <3>1x
      <3>2. bits[g] = groups[part[g]]
        BY <2>13
      <3> QED BY <3>1, <3>2
    <2>17. \A g \in 1..l : \A j \in 1..Len(groups[part[g]]) :
              \E i \in 1..Len(flat) : flat[i] = groups[part[g]][j]
      <3> SUFFICES ASSUME NEW g \in 1..l, NEW j \in 1..Len(groups[part[g]])
                   PROVE  \E i \in 1..Len(flat) : flat[i] = groups[part[g]][j]
        OBVIOUS
      <3>1. bits[g] = groups[part[g]]
        BY <2>13
      <3>2. off[g] + j \in 1..Len(flat) /\ flat[off[g] + j] = bits[g][j]
        BY <2>11, <3>1
      <3> QED BY <3>1, <3>2
    <2>18. l = Len(parts[p]) /\ \A g \in 1..l : part[g] = parts[p][g]
      BY <2>1, <2>2
    <2>19. /\ \A i \in 1..Len(flat) : \E g \in 1..Len(parts[p]) :
                 \E j \in 1..Len(groups[parts[p][g]]) : flat[i] = groups[parts[p][g]][j]
           /\ \A g \in 1..Len(parts[p]) : \A j \in 1..Len(groups[parts[p][g]]) :
                 \E i \in 1..Len(flat) : flat[i] = groups[parts[p][g]][j]
      <3>1. part = parts[p] /\ l = Len(part)
        BY <2>1, <2>2
      <3> QED BY ONLY <3>1, <2>16, <2>17
    <2>20. flat \in Seq(1..n)
      BY <2>5, <2>9
    <2> QED BY ONLY <2>12, <2>15, <2>19, <2>20
  <1>3. ASSUME NEW d \in 1..k, NEW e \in 1..k, NEW a \in 1..Len(t[d]), NEW b \in 1..Len(t[e]),
               t[d][a] = t[e][b]
        PROVE  d = e /\ a = b
    <2>0. /\ \A i \in 1..Len(t[d]) : \E g \in 1..Len(parts[d]) :
                 \E j \in 1..Len(groups[parts[d][g]]) : t[d][i] = groups[parts[d][g]][j]
          /\ \A i \in 1..Len(t[e]) : \E g \in 1..Len(parts[e]) :
                 \E j \in 1..Len(groups[parts[e][g]]) : t[e][i] = groups[parts[e][g]][j]
          /\ \A i, j \in 1..Len(t[d]) : t[d][i] = t[d][j] => i = j
      BY <1>2
    <2>1x. PICK g \in 1..Len(parts[d]) : \E j \in 1..Len(groups[parts[d][g]]) : t[d][a] = groups[parts[d][g]][j]
      BY ONLY <2>0, a \in 1..Len(t[d])
    <2>1. PICK j \in 1..Len(groups[parts[d][g]]) : t[d][a] = groups[parts[d][g]][j]
      BY <2>1x
    <2>2x. PICK h \in 1..Len(parts[e]) : \E f \in 1..Len(groups[parts[e][h]]) : t[e][b] = groups[parts[e][h]][f]
      BY ONLY <2>0, b \in 1..Len(t[e])
    <2>2. PICK f \in 1..Len(groups[parts[e][h]]) : t[e][b] = groups[parts[e][h]][f]
      BY <2>2x
    <2>3. parts[d][g] \in 1..m /\ parts[e][h] \in 1..m
      <3>1. parts[d] \in Seq(1..m) /\ parts[e] \in Seq(1..m)
        BY <1>1
      <3> QED BY <3>1, ElementOfSeq
    <2>4. groups[parts[d][g]][j] = groups[parts[e][h]][f]
      BY <1>3, <2>1, <2>2
    <2>5. parts[d][g] = parts[e][h]
      <3>1. PICK u, v : u = parts[d][g] /\ v = parts[e][h]
        OBVIOUS
      <3>2. /\ u \in 1..m /\ v \in 1..m /\ groups[u][j] = groups[v][f]
            /\ j \in 1..Len(groups[u]) /\ f \in 1..Len(groups[v])
        BY <2>3, <2>4, <3>1
      <3>3. u = v
        BY ONLY IsPartition(groups, m, n), <3>2 DEF IsPartition
      <3> QED BY <3>1, <3>3
    <2>6. d = e
      <3>1. /\ d \in 1..k /\ e \in 1..k /\ g \in 1..Len(parts[d]) /\ h \in 1..Len(parts[e])
            /\ parts[d][g] = parts[e][h]
        BY <2>5
      <3> QED BY ONLY IsPartition(parts, k, m), <3>1 DEF IsPartition
    <2>7. b \in 1..Len(t[d]) /\ t[d][a] = t[d][b]
      BY <1>3, <2>6
    <2> QED BY ONLY <2>0, <2>6, <2>7, a \in 1..Len(t[d])
  <1>4. ASSUME NEW x \in 1..n PROVE \E d \in 1..k : \E i \in 1..Len(t[d]) : t[d][i] = x
    <2>1x. PICK h \in 1..m : \E j \in 1..Len(groups[h]) : groups[h][j] = x
      BY DEF IsPartition
    <2>1. PICK j \in 1..Len(groups[h]) : groups[h][j] = x
      BY <2>1x
    <2>2x. PICK d \in 1..k : \E g \in 1..Len(parts[d]) : parts[d][g] = h
      BY DEF IsPartition
    <2>2. PICK g \in 1..Len(parts[d]) : parts[d][g] = h
      BY <2>2x
    <2>a. \A g1 \in 1..Len(parts[d]) : \A j1 \in 1..Len(groups[parts[d][g1]]) :
              \E i \in 1..Len(t[d]) : t[d][i] = groups[parts[d][g1]][j1]
      BY <1>2
    <2>b. g \in 1..Len(parts[d]) /\ j \in 1..Len(groups[parts[d][g]])
      BY <2>1, <2>2
    <2>3. \E i \in 1..Len(t[d]) : t[d][i] = groups[parts[d][g]][j]
      BY ONLY <2>a, <2>b
    <2> QED BY <2>1, <2>2, <2>3
  <1>5. t \in [1..k -> Seq(1..n)]
    BY <1>0, <1>2
  <1>6. IsPartition(t, k, n)
    BY <1>3, <1>4, <1>5 DEF IsPartition
  <1> QED BY ONLY <1>2, <1>6 DEF Unbroken

\* SetToSeq lists a finite set without repetition.
LEMMA SetInSequence ==
    ASSUME NEW S, IsFiniteSet(S), NEW t, t = SetToSeq(S)
    PROVE  /\ t \in Seq(S) /\ Len(t) = Cardinality(S) /\ Cardinality(S) \in Nat
           /\ \A i, j \in 1..Len(t) : t[i] = t[j] => i = j
           /\ \A x \in S : \E i \in 1..Len(t) : t[i] = x
  <1>1. PICK c \in Nat : c = Cardinality(S)
    BY FS_CardinalityType
  <1>2. IsFiniteSet(1..c) /\ Cardinality(1..c) = c
    BY FS_Interval
  <1>3. \E f : f \in Bijection(1..c, S)
    <2>1. ExistsBijection(1..c, S)
      BY <1>1, FS_NatBijection, FS_CountingElements
    <2> QED BY <2>1 DEF ExistsBijection
  <1>4. \E f \in [1..c -> S] : IsInjective(f)
    BY <1>3 DEF Bijection, Injection
  <1>5. t \in [1..c -> S] /\ IsInjective(t)
    <2>1. t = CHOOSE f \in [1..c -> S] : IsInjective(f)
      BY <1>1 DEF SetToSeq
    <2> QED BY <1>4, <2>1
  <1>6. t \in Seq(S) /\ Len(t) = c
    BY <1>5
  <1>7. \A i, j \in 1..c : t[i] = t[j] => i = j
    BY <1>5 DEF IsInjective
  <1>8. t \in Injection(1..c, S)
    BY <1>5 DEF Injection
  <1>9. t \in Surjection(1..c, S)
    BY <1>1, <1>2, <1>8, FS_Injection
  <1>10. \A x \in S : \E i \in 1..c : t[i] = x
    BY <1>9 DEF Surjection
  <1> QED BY <1>1, <1>6, <1>7, <1>10

----------------------------------------------------------------------------
(* Grids by division, and counting with them.                               *)

\* What is divisible is a grid.
LEMMA GridOf ==
    ASSUME NEW n \in Nat \ {0}, NEW k \in Nat \ {0}, n % k = 0
    PROVE  IsGrid(n, k, n \div k) /\ n \div k \in Nat \ {0}
  <1>1. n \div k \in Nat /\ n = (n \div k) * k
    BY Divides
  <1>2. PICK q \in Nat : q = n \div k
    BY <1>1
  <1>3. n = q * k /\ q # 0
    BY <1>1, <1>2
  <1>4. n = k * q
    BY ONLY <1>3, n \in Nat, k \in Nat, q \in Nat
  <1> QED BY <1>2, <1>3, <1>4 DEF IsGrid

\* The row of a cell is found by division.
LEMMA CellIndex ==
    ASSUME NEW k \in Nat \ {0}, NEW g \in Nat, NEW i \in 1..k
    PROVE  (Cell(k, g, i) - 1) \div k = g /\ Cell(k, g, i) \in Nat \ {0}
  <1>1. PICK p \in Nat : p = g * k
    OBVIOUS
  <1>2. PICK x \in Nat : x = p + i - 1
    OBVIOUS
  <1>3. x \div k \in Nat /\ x = k * (x \div k) + (x % k) /\ x % k \in 0..k - 1
    <2>1. k \in Int /\ k > 0 /\ x \in Int
      OBVIOUS
    <2>2. x = k * (x \div k) + (x % k)
      BY ONLY <2>1
    <2> QED BY <2>2
  <1>4. PICK y \in Nat, z \in 0..k - 1 : y = x \div k /\ z = x % k
    BY <1>3
  <1>5. x = k * y + z
    BY <1>3, <1>4
  <1>6. y * k + (z + 1) = g * k + i /\ z + 1 \in 1..k
    <2>1. k * y = y * k /\ y * k \in Nat
      OBVIOUS
    <2>2. x + 1 = g * k + i
      BY <1>1, <1>2
    <2> QED BY <1>5, <2>1, <2>2
  <1>7. y = g
    BY <1>6, GridApart
  <1>8. Cell(k, g, i) - 1 = x /\ Cell(k, g, i) \in Nat \ {0}
    BY <1>1, <1>2 DEF Cell
  <1> QED BY <1>4, <1>7, <1>8

\* A grid whose rows are grids of k columns.
LEMMA GridThrough ==
    ASSUME NEW p, NEW a, NEW b, IsGrid(p, a, b), NEW k \in Nat \ {0}
    PROVE  IsGrid(p * k, a, b * k)
  <1>1. p \in Nat /\ a \in Nat /\ b \in Nat \ {0} /\ p = a * b
    BY DEF IsGrid
  <1>2. (a * b) * k = a * (b * k) /\ b * k \in Nat \ {0} /\ p * k \in Nat
    BY <1>1
  <1> QED BY <1>1, <1>2 DEF IsGrid

\* One of finitely many integers is the greatest.
LEMMA Greatest ==
    ASSUME NEW m \in Nat \ {0}, NEW f \in [0..m - 1 -> Int]
    PROVE  \E g \in 0..m - 1 : \A h \in 0..m - 1 : f[h] <= f[g]
  <1> DEFINE S == {j \in Nat : j <= m - 1 => \E g \in 0..j : \A h \in 0..j : f[h] <= f[g]}
  <1>1. 0 \in S
    <2>1. 0 \in 0..0 /\ \A h \in 0..0 : h = 0
      OBVIOUS
    <2>2. f[0] \in Int
      OBVIOUS
    <2> QED BY <2>1, <2>2
  <1>2. ASSUME NEW j \in Nat, j \in S PROVE j + 1 \in S
    <2>1. SUFFICES ASSUME j + 1 <= m - 1
                   PROVE  \E g \in 0..j + 1 : \A h \in 0..j + 1 : f[h] <= f[g]
      OBVIOUS
    <2>2. PICK g \in 0..j : \A h \in 0..j : f[h] <= f[g]
      BY <1>2, <2>1
    <2>3. j + 1 \in 0..m - 1 /\ \A h \in 0..j : h \in 0..m - 1
      BY <2>1
    <2>4. PICK a \in Int, b \in Int : a = f[g] /\ b = f[j + 1]
      BY <2>3
    <2>5. \A h \in 0..j + 1 : h \in 0..j \/ h = j + 1
      OBVIOUS
    <2>6. \A h \in 0..j : f[h] \in Int
      BY <2>3
    <2>7. CASE a <= b
      <3>1. \A h \in 0..j + 1 : f[h] <= f[j + 1]
        <4> SUFFICES ASSUME NEW h \in 0..j + 1 PROVE f[h] <= f[j + 1]
          OBVIOUS
        <4>1. CASE h = j + 1
          BY <2>4, <4>1
        <4>2. CASE h \in 0..j
          <5>1. f[h] \in Int /\ f[h] <= a
            BY <2>2, <2>4, <2>6, <4>2
          <5> QED BY ONLY <2>4, <2>7, <5>1, a \in Int, b \in Int
        <4> QED BY <2>5, <4>1, <4>2
      <3>2. j + 1 \in 0..j + 1
        OBVIOUS
      <3> QED BY <3>1, <3>2
    <2>8. CASE ~(a <= b)
      <3>1. \A h \in 0..j + 1 : f[h] <= f[g]
        <4> SUFFICES ASSUME NEW h \in 0..j + 1 PROVE f[h] <= f[g]
          OBVIOUS
        <4>1. CASE h = j + 1
          BY ONLY <2>4, <2>8, <4>1, a \in Int, b \in Int
        <4>2. CASE h \in 0..j
          BY <2>2, <4>2
        <4> QED BY <2>5, <4>1, <4>2
      <3>2. g \in 0..j + 1
        OBVIOUS
      <3> QED BY <3>1, <3>2
    <2> QED BY <2>7, <2>8
  <1> HIDE DEF S
  <1>3. Nat \subseteq S
    BY <1>1, <1>2, Induct
  <1>4. m - 1 \in Nat
    OBVIOUS
  <1>5. m - 1 \in S
    BY <1>3, <1>4
  <1>6. m - 1 <= m - 1
    BY <1>4
  <1> QED BY <1>5, <1>6 DEF S

\* The first positions of the rows of a grid
Firsts(k, m) == {Cell(k, g, 1) : g \in 0..m - 1}

\* There are as many of them as rows.
LEMMA FirstsCounted ==
    ASSUME NEW n, NEW m, NEW k, IsGrid(n, m, k)
    PROVE  Cardinality(Firsts(k, m)) = m
  <1>1. m \in Nat /\ k \in Nat \ {0} /\ 1 \in 1..k
    BY DEF IsGrid
  <1>2. PICK D : D = 0..m - 1
    OBVIOUS
  <1>3. IsFiniteSet(D) /\ Cardinality(D) = m
    BY <1>1, <1>2, FS_Interval
  <1>4. PICK S : S = Firsts(k, m)
    OBVIOUS
  <1>5. PICK f : f = [g \in D |-> Cell(k, g, 1)]
    OBVIOUS
  <1>6. \A g, h \in D : f[g] = f[h] => g = h
    BY <1>1, <1>2, <1>5, Cells
  <1>7. f \in [D -> S] /\ \A x \in S : \E g \in D : f[g] = x
    BY <1>2, <1>4, <1>5 DEF Firsts
  <1>8. f \in Bijection(D, S)
    BY <1>6, <1>7 DEF Bijection, Injection, Surjection, IsInjective
  <1>10. ExistsBijection(D, S)
    BY <1>8 DEF ExistsBijection
  <1>9. Cardinality(S) = m
    BY ONLY <1>3, <1>10, FS_Bijection
  <1> QED BY <1>4, <1>9

\* x, a sequence without repetition, is what stands in the grid v.
IsListed(x, len, v, q, k) ==
    /\ \A i \in 1..len : \E g \in 1..q : \E j \in 1..k : x[i] = v[g][j]
    /\ \A g \in 1..q : \A j \in 1..k : \E i \in 1..len : x[i] = v[g][j]
    /\ \A i, j \in 1..len : x[i] = x[j] => i = j
    /\ \A g, h \in 1..q : \A i, j \in 1..k : v[g][i] = v[h][j] => g = h /\ i = j

\* A sequence without repetition of what a grid holds is as long as the grid is large.
LEMMA GridCount ==
    ASSUME NEW q, q \in Nat, NEW k, k \in Nat \ {0}, NEW len, len \in Nat, NEW x, NEW v,
           IsListed(x, len, v, q, k)
    PROVE  len = q * k
  <1>0. /\ \A i \in 1..len : \E g \in 1..q : \E j \in 1..k : x[i] = v[g][j]
        /\ \A g \in 1..q : \A j \in 1..k : \E i \in 1..len : x[i] = v[g][j]
        /\ \A i, j \in 1..len : x[i] = x[j] => i = j
        /\ \A g, h \in 1..q : \A i, j \in 1..k : v[g][i] = v[h][j] => g = h /\ i = j
    BY DEF IsListed
  <1>1. PICK r \in Nat : r = q * k
    OBVIOUS
  <1>2. IsGrid(r, q, k)
    BY <1>1 DEF IsGrid
  <1>3. \A y \in 1..r : \E g \in 1..q : \E j \in 1..k : y = Cell(k, g - 1, j)
    <2> SUFFICES ASSUME NEW y \in 1..r PROVE \E g \in 1..q : \E j \in 1..k : y = Cell(k, g - 1, j)
      OBVIOUS
    <2>1. PICK h \in 0..q - 1 : \E j \in 1..k : y = Cell(k, h, j)
      <3>1. \A p \in 1..r : \E g \in 0..q - 1 : \E i \in 1..k : p = Cell(k, g, i)
        BY ONLY <1>2, Cells
      <3> QED BY ONLY <3>1, y \in 1..r
    <2>2. PICK j \in 1..k : y = Cell(k, h, j)
      BY <2>1
    <2>3. h + 1 \in 1..q /\ (h + 1) - 1 = h
      BY ONLY q \in Nat, h \in 0..q - 1
    <2>4. y = Cell(k, (h + 1) - 1, j)
      BY <2>2, <2>3
    <2>5. \E i \in 1..k : y = Cell(k, (h + 1) - 1, i)
      BY <2>4
    <2>6. PICK e \in 1..q : e = h + 1
      BY <2>3
    <2> QED BY ONLY <2>5, <2>6
  <1>4. PICK row : \A y \in 1..r : row[y] \in 1..q /\ \E j \in 1..k : y = Cell(k, row[y] - 1, j)
    <2> DEFINE choice == [y \in 1..r |-> CHOOSE g \in 1..q : \E j \in 1..k : y = Cell(k, g - 1, j)]
    <2>1. \A y \in 1..r : choice[y] \in 1..q /\ \E j \in 1..k : y = Cell(k, choice[y] - 1, j)
      BY <1>3
    <2> HIDE DEF choice
    <2> QED BY ONLY <2>1
  <1>5. PICK column : \A y \in 1..r : column[y] \in 1..k /\ y = Cell(k, row[y] - 1, column[y])
    <2> DEFINE choice == [y \in 1..r |-> CHOOSE j \in 1..k : y = Cell(k, row[y] - 1, j)]
    <2>1. \A y \in 1..r : choice[y] \in 1..k /\ y = Cell(k, row[y] - 1, choice[y])
      BY <1>4
    <2> HIDE DEF choice
    <2> QED BY ONLY <2>1
  <1>6. PICK f : f = [y \in 1..r |-> CHOOSE i \in 1..len : x[i] = v[row[y]][column[y]]]
    OBVIOUS
  <1>7. ASSUME NEW y \in 1..r PROVE f[y] \in 1..len /\ x[f[y]] = v[row[y]][column[y]]
    <2>1. row[y] \in 1..q /\ column[y] \in 1..k
      BY <1>4, <1>5
    <2>2. \E i \in 1..len : x[i] = v[row[y]][column[y]]
      BY ONLY <1>0, <2>1
    <2>3. f[y] = CHOOSE i \in 1..len : x[i] = v[row[y]][column[y]]
      BY <1>6
    <2> QED BY ONLY <2>2, <2>3
  <1>8. ASSUME NEW y \in 1..r, NEW z \in 1..r, f[y] = f[z] PROVE y = z
    <2>1. /\ row[y] \in 1..q /\ column[y] \in 1..k /\ y = Cell(k, row[y] - 1, column[y])
          /\ row[z] \in 1..q /\ column[z] \in 1..k /\ z = Cell(k, row[z] - 1, column[z])
      BY <1>4, <1>5
    <2>2. v[row[y]][column[y]] = v[row[z]][column[z]]
      BY <1>7, <1>8
    <2>3. row[y] = row[z] /\ column[y] = column[z]
      <3>1. PICK a \in 1..q, b \in 1..q, c \in 1..k, d \in 1..k :
              a = row[y] /\ b = row[z] /\ c = column[y] /\ d = column[z]
        BY ONLY <2>1
      <3>2. v[a][c] = v[b][d]
        BY ONLY <2>2, <3>1
      <3>3. a = b /\ c = d
        BY ONLY <1>0, <3>2, a \in 1..q, b \in 1..q, c \in 1..k, d \in 1..k
      <3> QED BY ONLY <3>1, <3>3
    <2> QED BY ONLY <2>1, <2>3
  <1>9. ASSUME NEW i \in 1..len PROVE \E y \in 1..r : f[y] = i
    <2>1. PICK g \in 1..q : \E j \in 1..k : x[i] = v[g][j]
      BY <1>0
    <2>2. PICK j \in 1..k : x[i] = v[g][j]
      BY <2>1
    <2>3. PICK h \in 0..q - 1 : h = g - 1
      BY ONLY q \in Nat, g \in 1..q
    <2>4. PICK y \in 1..r : y = Cell(k, h, j)
      BY ONLY <1>2, h \in 0..q - 1, j \in 1..k, Cells
    <2>5. row[y] \in 1..q /\ column[y] \in 1..k /\ y = Cell(k, row[y] - 1, column[y])
      BY <1>4, <1>5
    <2>6. PICK e \in 0..q - 1 : e = row[y] - 1
      BY <2>5
    <2>7. h = e /\ j = column[y]
      <3>1. Cell(k, h, j) = Cell(k, e, column[y])
        BY <2>4, <2>5, <2>6
      <3>2. column[y] \in 1..k
        BY <2>5
      <3> QED BY ONLY <1>2, <3>1, <3>2, h \in 0..q - 1, e \in 0..q - 1, j \in 1..k, Cells
    <2>8. g = row[y]
      <3>1. PICK b \in 1..q : b = row[y]
        BY <2>5
      <3>2. g - 1 = b - 1
        BY <2>3, <2>6, <2>7, <3>1
      <3> QED BY ONLY <3>1, <3>2, g \in 1..q, b \in 1..q
    <2>9. x[f[y]] = x[i] /\ f[y] \in 1..len
      BY <1>7, <2>2, <2>7, <2>8
    <2>10. f[y] = i
      BY ONLY <1>0, <2>9, i \in 1..len
    <2> QED BY ONLY <2>10, y \in 1..r
  <1>10. PICK D, E : D = 1..r /\ E = 1..len
    OBVIOUS
  <1>11. f \in Bijection(D, E)
    <2>1. f = [y \in D |-> f[y]]
      <3>1. f = [y \in D |-> CHOOSE i \in 1..len : x[i] = v[row[y]][column[y]]]
        BY <1>6, <1>10
      <3> QED BY ONLY <3>1
    <2>2. f \in [D -> E] /\ (\A y, z \in D : f[y] = f[z] => y = z) /\ \A i \in E : \E y \in D : f[y] = i
      BY ONLY <1>7, <1>8, <1>9, <1>10, <2>1
    <2> QED BY <2>2 DEF Bijection, Injection, Surjection, IsInjective
  <1>12. IsFiniteSet(D) /\ Cardinality(D) = r /\ Cardinality(E) = len
    BY <1>10, FS_Interval
  <1>13. ExistsBijection(D, E)
    BY <1>11 DEF ExistsBijection
  <1>14. len = r
    BY ONLY <1>13, <1>12, FS_Bijection
  <1> QED BY <1>1, <1>14

\* Groups of length k
AllLong(groups, l, k) == \A g \in 1..l : Len(groups[g]) = k

\* A part has k positions for each of its groups.
IsStretched(t, parts, c, k) == \A p \in 1..c : Len(t[p]) = Len(parts[p]) * k

\* Parts with as many groups each have as many positions each.
LEMMA GroupedLength ==
    ASSUME NEW n, n \in Nat, NEW k, k \in Nat \ {0}, NEW l, l \in Nat,
           NEW groups, IsPartition(groups, l, n), AllLong(groups, l, k),
           NEW c, c \in Nat, NEW parts, IsPartition(parts, c, l),
           NEW t, IsPartition(t, c, n), Unbroken(t, groups, parts, c)
    PROVE  IsStretched(t, parts, c, k)
  <1> SUFFICES ASSUME NEW p \in 1..c PROVE Len(t[p]) = Len(parts[p]) * k
    BY DEF IsStretched
  <1>1. PICK part \in Seq(1..l) : part = parts[p]
    BY DEF IsPartition
  <1>2. PICK q \in Nat : q = Len(part)
    BY ONLY part \in Seq(1..l)
  <1>3. PICK x \in Seq(1..n) : x = t[p]
    BY DEF IsPartition
  <1>4. PICK len \in Nat : len = Len(x)
    BY ONLY x \in Seq(1..n)
  <1>5. \A g \in 1..q : part[g] \in 1..l /\ Len(groups[part[g]]) = k
    BY <1>2, ElementOfSeq DEF AllLong
  <1>6. PICK v : v = [g \in 1..q |-> groups[part[g]]]
    OBVIOUS
  <1>7. \A g \in 1..q : v[g] = groups[part[g]]
    BY <1>6
  <1>8. /\ \A i \in 1..len : \E g \in 1..q : \E j \in 1..k : x[i] = v[g][j]
        /\ \A g \in 1..q : \A j \in 1..k : \E i \in 1..len : x[i] = v[g][j]
    <2>1. /\ \A i \in 1..Len(t[p]) : \E g \in 1..Len(parts[p]) :
                \E j \in 1..Len(groups[parts[p][g]]) : t[p][i] = groups[parts[p][g]][j]
          /\ \A g \in 1..Len(parts[p]) : \A j \in 1..Len(groups[parts[p][g]]) :
                \E i \in 1..Len(t[p]) : t[p][i] = groups[parts[p][g]][j]
      BY DEF Unbroken
    <2>2. ASSUME NEW i \in 1..len PROVE \E g \in 1..q : \E j \in 1..k : x[i] = v[g][j]
      <3>1. i \in 1..Len(t[p])
        BY <1>3, <1>4
      <3>2. PICK g \in 1..Len(parts[p]) : \E j \in 1..Len(groups[parts[p][g]]) : t[p][i] = groups[parts[p][g]][j]
        BY ONLY <2>1, <3>1
      <3>3. g \in 1..q /\ parts[p][g] = part[g] /\ Len(groups[part[g]]) = k /\ v[g] = groups[part[g]]
        BY <1>1, <1>2, <1>5, <1>7, <3>2
      <3> QED BY ONLY <1>3, <3>2, <3>3
    <2>3. ASSUME NEW g \in 1..q, NEW j \in 1..k PROVE \E i \in 1..len : x[i] = v[g][j]
      <3>1. /\ g \in 1..Len(parts[p]) /\ parts[p][g] = part[g] /\ Len(groups[part[g]]) = k
            /\ v[g] = groups[part[g]]
        BY <1>1, <1>2, <1>5, <1>7
      <3>2. j \in 1..Len(groups[parts[p][g]])
        BY ONLY <3>1, j \in 1..k
      <3>3. \E i \in 1..Len(t[p]) : t[p][i] = groups[parts[p][g]][j]
        BY ONLY <2>1, <3>1, <3>2
      <3> QED BY ONLY <1>3, <1>4, <3>1, <3>3
    <2> QED BY ONLY <2>2, <2>3
  <1>9. \A i, j \in 1..len : x[i] = x[j] => i = j
    <2>1. \A a, b \in 1..c : \A i \in 1..Len(t[a]) : \A j \in 1..Len(t[b]) : t[a][i] = t[b][j] => a = b /\ i = j
      BY DEF IsPartition
    <2>2. \A i \in 1..Len(t[p]) : \A j \in 1..Len(t[p]) : t[p][i] = t[p][j] => i = j
      BY ONLY <2>1, p \in 1..c
    <2> QED BY ONLY <1>3, <1>4, <2>2
  <1>10. ASSUME NEW g \in 1..q, NEW h \in 1..q, NEW i \in 1..k, NEW j \in 1..k, v[g][i] = v[h][j]
         PROVE  g = h /\ i = j
    <2>1. PICK a \in 1..l, b \in 1..l : a = part[g] /\ b = part[h]
      BY <1>5
    <2>2. Len(groups[a]) = k /\ Len(groups[b]) = k /\ groups[a][i] = groups[b][j]
      BY <1>5, <1>7, <1>10, <2>1
    <2>3. i \in 1..Len(groups[a]) /\ j \in 1..Len(groups[b])
      BY ONLY <2>2, i \in 1..k, j \in 1..k
    <2>4. \A e, f \in 1..l : \A y \in 1..Len(groups[e]) : \A z \in 1..Len(groups[f]) :
             groups[e][y] = groups[f][z] => e = f /\ y = z
      BY DEF IsPartition
    <2>5. a = b /\ i = j
      BY ONLY <2>2, <2>3, <2>4, a \in 1..l, b \in 1..l
    <2>6. \A e, f \in 1..c : \A y \in 1..Len(parts[e]) : \A z \in 1..Len(parts[f]) :
             parts[e][y] = parts[f][z] => e = f /\ y = z
      BY DEF IsPartition
    <2>7. g \in 1..Len(parts[p]) /\ h \in 1..Len(parts[p]) /\ parts[p][g] = parts[p][h]
      BY <1>1, <1>2, <2>1, <2>5
    <2> QED BY ONLY <2>5, <2>6, <2>7, p \in 1..c
  <1>11. len = q * k
    <2>1. \A g, h \in 1..q : \A i, j \in 1..k : v[g][i] = v[h][j] => g = h /\ i = j
      BY ONLY <1>10
    <2>2. IsListed(x, len, v, q, k)
      BY ONLY <1>8, <1>9, <2>1 DEF IsListed
    <2> QED BY ONLY <2>2, q \in Nat, k \in Nat \ {0}, len \in Nat, GridCount
  <1> QED BY <1>1, <1>2, <1>3, <1>4, <1>11

\* A cell of a grid is a number to n, ...
LEMMA CellIn ==
    ASSUME NEW n, NEW m, NEW k, IsGrid(n, m, k), NEW g, g \in 0..m - 1, NEW i, i \in 1..k
    PROVE  Cell(k, g, i) \in 1..n
  <1>1. \A h \in 0..m - 1 : \A j \in 1..k : Cell(k, h, j) \in 1..n
    BY Cells
  <1> QED BY <1>1

\* ... and every number to n is a cell.
LEMMA CellOf ==
    ASSUME NEW n, NEW m, NEW k, IsGrid(n, m, k), NEW p, p \in 1..n
    PROVE  \E g \in 0..m - 1 : \E i \in 1..k : p = Cell(k, g, i)
  <1>1. \A q \in 1..n : \E g \in 0..m - 1 : \E i \in 1..k : q = Cell(k, g, i)
    BY Cells
  <1> QED BY <1>1

----------------------------------------------------------------------------
(* Counting up, and the least of some numbers.                              *)

\* B counts up: by e and f[m] for every m.
IsClimb(B, M, f, e) ==
    /\ B \in [0..M -> Nat]
    /\ \A m \in 0..M - 1 : B[m + 1] = B[m] + e + f[m]

\* Numbers of micro-batches
AreCounts(f, M) == M \in Nat /\ f \in [0..M - 1 -> Nat \ {0}]

\* From any number one can count up.
LEMMA ClimbExists ==
    ASSUME NEW M, NEW f, NEW e, NEW c, AreCounts(f, M), e \in Nat, c \in Nat
    PROVE  \E B : IsClimb(B, M, f, e) /\ B[0] = c
  <1>0. M \in Nat /\ f \in [0..M - 1 -> Nat]
    <2>1. M \in Nat /\ f \in [0..M - 1 -> Nat \ {0}]
      BY DEF AreCounts
    <2> QED BY <2>1
  <1> DEFINE S == {k \in Nat : k <= M => \E B : IsClimb(B, k, f, e) /\ B[0] = c}
  <1>1. 0 \in S
    <2> DEFINE B == [i \in 0..0 |-> c]
    <2>1. B \in [0..0 -> Nat] /\ B[0] = c /\ 0..0 - 1 = {}
      OBVIOUS
    <2> HIDE DEF B
    <2>2. IsClimb(B, 0, f, e)
      BY <2>1 DEF IsClimb
    <2> QED BY <2>1, <2>2
  <1>2. ASSUME NEW k \in Nat, k \in S PROVE k + 1 \in S
    <2> SUFFICES ASSUME k + 1 <= M PROVE \E B : IsClimb(B, k + 1, f, e) /\ B[0] = c
      OBVIOUS
    <2>1. PICK A : IsClimb(A, k, f, e) /\ A[0] = c
      BY <1>0, <1>2
    <2>2. A \in [0..k -> Nat] /\ \A m \in 0..k - 1 : A[m + 1] = A[m] + e + f[m]
      BY <2>1 DEF IsClimb
    <2>3. PICK l \in Nat : l = A[k] + e + f[k]
      <3>1. A[k] \in Nat /\ f[k] \in Nat
        BY <1>0, <2>2
      <3>2. A[k] + e + f[k] \in Nat
        BY ONLY <3>1, e \in Nat
      <3> QED BY <3>2
    <2> DEFINE B == [i \in 0..k + 1 |-> IF i = k + 1 THEN l ELSE A[i]]
    <2>4. \A i \in 0..k : B[i] = A[i]
      OBVIOUS
    <2>5. B[k + 1] = l
      OBVIOUS
    <2>6. B \in [0..k + 1 -> Nat]
      <3>1. \A i \in 0..k + 1 : (IF i = k + 1 THEN l ELSE A[i]) \in Nat
        <4>1. \A i \in 0..k + 1 : i = k + 1 \/ i \in 0..k
          OBVIOUS
        <4> QED BY ONLY <4>1, <2>2, l \in Nat
      <3> QED BY <3>1
    <2> HIDE DEF B
    <2>7. ASSUME NEW m \in 0..k + 1 - 1 PROVE B[m + 1] = B[m] + e + f[m]
      <3>1. CASE m = k
        BY <2>3, <2>4, <2>5, <3>1
      <3>2. CASE m # k
        <4>1. m \in 0..k - 1 /\ m \in 0..k /\ m + 1 \in 0..k
          BY <3>2
        <4> QED BY ONLY <4>1, <2>2, <2>4
      <3> QED BY <3>1, <3>2
    <2>8. IsClimb(B, k + 1, f, e)
      BY ONLY <2>6, <2>7 DEF IsClimb
    <2>9. B[0] = c
      BY <2>1, <2>4
    <2> QED BY <2>8, <2>9
  <1> HIDE DEF S
  <1>3. M \in S
    BY <1>0, <1>1, <1>2, Induct
  <1> QED BY <1>0, <1>3 DEF S

\* What counts up is never below where it was.
LEMMA Climbs ==
    ASSUME NEW M, NEW f, NEW e, NEW B, AreCounts(f, M), e \in Nat, IsClimb(B, M, f, e)
    PROVE  \A a, b \in 0..M : a < b => B[a + 1] <= B[b]
  <1>0. B \in [0..M -> Nat] /\ \A m \in 0..M - 1 : B[m + 1] = B[m] + e + f[m]
    BY DEF IsClimb
  <1>5. M \in Nat /\ \A m \in 0..M - 1 : f[m] \in Nat
    BY DEF AreCounts
  <1> DEFINE S == {b \in Nat : b <= M => \A a \in 0..b - 1 : B[a + 1] <= B[b]}
  <1>1. 0 \in S
    OBVIOUS
  <1>2. ASSUME NEW b \in Nat, b \in S PROVE b + 1 \in S
    <2> SUFFICES ASSUME b + 1 <= M, NEW a \in 0..b + 1 - 1 PROVE B[a + 1] <= B[b + 1]
      OBVIOUS
    <2>1. b \in 0..M - 1 /\ b + 1 \in 0..M /\ b \in 0..M /\ a + 1 \in 0..M
      BY <1>5
    <2>2. PICK x \in Nat, y \in Nat, z \in Nat, g \in Nat :
             x = B[a + 1] /\ y = B[b] /\ z = B[b + 1] /\ g = f[b]
      <3>1. B[a + 1] \in Nat /\ B[b] \in Nat /\ B[b + 1] \in Nat /\ f[b] \in Nat
        BY <1>0, <1>5, <2>1
      <3> QED BY <3>1
    <2>3. z = y + e + g
      BY <1>0, <2>1, <2>2
    <2>4. CASE a = b
      BY <2>2, <2>4
    <2>5. CASE a # b
      <3>1. a \in 0..b - 1 /\ b <= M
        BY <1>5, <2>5
      <3>2. x <= y
        BY <1>2, <2>2, <3>1
      <3> QED BY <2>2, <2>3, <3>2
    <2> QED BY <2>4, <2>5
  <1> HIDE DEF S
  <1>3. Nat \subseteq S
    BY <1>1, <1>2, Induct
  <1>4. \A b \in 0..M : \A a \in 0..b - 1 : B[a + 1] <= B[b]
    BY <1>3, <1>5 DEF S
  <1> QED BY <1>4, <1>5

\* Of some ranks one has the fewest calls.
LEMMA FewestCalls ==
    ASSUME NEW S, NEW g, S # {}, \A r \in S : g[r] \in Nat
    PROVE  \E r \in S : \A q \in S : g[r] <= g[q]
  <1>1. PICK T : T = {g[r] : r \in S}
    OBVIOUS
  <1>2. T \subseteq Nat /\ T # {}
    BY <1>1
  <1>3. PICK x \in T : \A y \in T : x <= y
    BY <1>2, Smallest
  <1>4. PICK r \in S : g[r] = x
    BY <1>1, <1>3
  <1> QED BY <1>1, <1>3, <1>4

----------------------------------------------------------------------------
(* The sums MapThenSumSet folds, and sums that cancel out.                  *)

\* What MapThenSumSet folds: the sums over the subsets of S, the elements taken as CHOOSE does
PickSums(g, F, S) ==
    g = [s \in SUBSET S |-> IF s = {} THEN 0 ELSE F[Pick(s)] + g[s \ {Pick(s)}]]

\* There is such a function.
LEMMA PickSumsExist ==
    ASSUME NEW S, NEW F, Summable(F, S) PROVE \E g : PickSums(g, F, S)
  <1>1. IsFiniteSet(S)
    BY DEF Summable
  <1>2. PICK pick : pick = [s \in SUBSET S |-> Pick(s)]
    OBVIOUS
  <1>3. \A s \in SUBSET S : s # {} => pick[s] \in s
    BY <1>2, PickIn
  <1>4. PICK g : SumsWith(S, F, pick, g)
    BY <1>1, <1>3, SumsExist
  <1>5. g = [s \in SUBSET S |-> IF s = {} THEN 0 ELSE F[pick[s]] + g[s \ {pick[s]}]]
    BY <1>4 DEF SumsWith
  <1>6. \A s \in SUBSET S : (IF s = {} THEN 0 ELSE F[pick[s]] + g[s \ {pick[s]}])
                             = IF s = {} THEN 0 ELSE F[Pick(s)] + g[s \ {Pick(s)}]
    BY <1>2
  <1>7. g = [s \in SUBSET S |-> IF s = {} THEN 0 ELSE F[Pick(s)] + g[s \ {Pick(s)}]]
    BY ONLY <1>5, <1>6
  <1> QED BY <1>7 DEF PickSums

\* It is the sum.
LEMMA PickSumsAdd ==
    ASSUME NEW S, NEW F, Summable(F, S), NEW g, PickSums(g, F, S)
    PROVE  g[S] = Iter(F)[S]
  <1>1. IsFiniteSet(S) /\ F \in [S -> Int] /\ DOMAIN F = S
    BY DEF Summable
  <1>2. g = [s \in SUBSET S |-> IF s = {} THEN 0 ELSE F[Pick(s)] + g[s \ {Pick(s)}]]
    BY DEF PickSums
  <1>3. g[{}] = 0
    BY <1>2
  <1>4. ASSUME NEW s \in SUBSET S, s # {} PROVE \E p \in s : g[s] = F[p] + g[s \ {p}]
    <2>1. g[s] = F[Pick(s)] + g[s \ {Pick(s)}]
      BY <1>2, <1>4
    <2> QED BY <1>4, <2>1, PickIn
  <1>5. g[S] = SumFunction(F)
    BY <1>1, <1>3, <1>4, SumUnique
  <1> QED BY <1>1, <1>5, SumUnfolds

\* H is a times F, or the difference of F and G.
IsMultiple(H, F, a, D) ==
    Summable(H, D) /\ Summable(F, D) /\ a \in Int /\ \A x \in D : H[x] = a * F[x]
IsDifference(H, F, G, D) ==
    Summable(H, D) /\ Summable(F, D) /\ Summable(G, D) /\ \A x \in D : H[x] = F[x] - G[x]

\* A sum of multiples is the multiple of the sum.
LEMMA SumMultiple ==
    ASSUME NEW D, NEW F, NEW H, NEW a, IsMultiple(H, F, a, D)
    PROVE  Iter(H)[D] = a * Iter(F)[D]
  <1>1. /\ IsFiniteSet(D) /\ H \in [D -> Int] /\ F \in [D -> Int] /\ a \in Int
        /\ \A x \in D : H[x] = a * F[x]
    BY DEF IsMultiple, Summable
  <1>2. Summable(H, D) /\ Summable(F, D)
    BY DEF IsMultiple
  <1> DEFINE P == {s \in SUBSET D : Iter(H)[s] = a * Iter(F)[s]}
  <1>3. {} \in P
    <2>1. Iter(H)[{}] = 0 /\ Iter(F)[{}] = 0
      BY <1>2, SumNone
    <2> QED BY <1>1, <2>1
  <1>4. ASSUME NEW s \in SUBSET D, s # {}, \A k \in s : s \ {k} \in P
        PROVE  s \in P
    <2>1. PICK k : k \in s
      BY <1>4
    <2>2. Iter(H)[s] = H[k] + Iter(H)[s \ {k}] /\ Iter(F)[s] = F[k] + Iter(F)[s \ {k}]
      BY <1>2, <2>1, SumTakes
    <2>3. PICK y, z : y = F[k] /\ z = Iter(F)[s \ {k}]
      OBVIOUS
    <2>4. y \in Int /\ z \in Int
      <3>1. s \ {k} \subseteq D
        OBVIOUS
      <3>2. Iter(F)[s \ {k}] \in Int
        BY <1>2, <3>1, SumType
      <3> QED BY <1>1, <2>1, <2>3, <3>2
    <2>5. H[k] = a * y /\ Iter(H)[s \ {k}] = a * z
      BY <1>1, <1>4, <2>1, <2>3
    <2>6. a * y + a * z = a * (y + z)
      BY ONLY <1>1, <2>4
    <2>7. Iter(H)[s] = a * Iter(F)[s]
      BY ONLY <2>2, <2>3, <2>5, <2>6
    <2> QED BY <2>7
  <1> HIDE DEF P
  <1>5. SUBSET D \subseteq P
    BY <1>1, <1>3, <1>4, SubsetInduct
  <1> QED BY <1>5 DEF P

\* A sum of differences is the difference of the sums.
LEMMA SumDifference ==
    ASSUME NEW D, NEW F, NEW G, NEW H, IsDifference(H, F, G, D)
    PROVE  Iter(H)[D] = Iter(F)[D] - Iter(G)[D]
  <1>1. /\ IsFiniteSet(D) /\ H \in [D -> Int] /\ F \in [D -> Int] /\ G \in [D -> Int]
        /\ \A x \in D : H[x] = F[x] - G[x]
    BY DEF IsDifference, Summable
  <1>2. Summable(H, D) /\ Summable(F, D) /\ Summable(G, D)
    BY DEF IsDifference
  <1> DEFINE P == {s \in SUBSET D : Iter(H)[s] = Iter(F)[s] - Iter(G)[s]}
  <1>3. {} \in P
    <2>1. Iter(H)[{}] = 0 /\ Iter(F)[{}] = 0 /\ Iter(G)[{}] = 0
      BY <1>2, SumNone
    <2> QED BY <1>1, <2>1
  <1>4. ASSUME NEW s \in SUBSET D, s # {}, \A k \in s : s \ {k} \in P
        PROVE  s \in P
    <2>1. PICK k : k \in s
      BY <1>4
    <2>2. /\ Iter(H)[s] = H[k] + Iter(H)[s \ {k}] /\ Iter(F)[s] = F[k] + Iter(F)[s \ {k}]
          /\ Iter(G)[s] = G[k] + Iter(G)[s \ {k}]
      BY <1>2, <2>1, SumTakes
    <2>3. PICK u, v, y, z : u = G[k] /\ v = Iter(G)[s \ {k}] /\ y = F[k] /\ z = Iter(F)[s \ {k}]
      OBVIOUS
    <2>4. u \in Int /\ v \in Int /\ y \in Int /\ z \in Int
      <3>1. s \ {k} \subseteq D
        OBVIOUS
      <3>2. Iter(F)[s \ {k}] \in Int /\ Iter(G)[s \ {k}] \in Int
        BY <1>2, <3>1, SumType
      <3> QED BY <1>1, <2>1, <2>3, <3>2
    <2>5. H[k] = y - u /\ Iter(H)[s \ {k}] = z - v
      BY <1>1, <1>4, <2>1, <2>3
    <2>6. (y - u) + (z - v) = (y + z) - (u + v)
      BY ONLY <2>4
    <2>7. Iter(H)[s] = Iter(F)[s] - Iter(G)[s]
      BY ONLY <2>2, <2>3, <2>5, <2>6
    <2> QED BY <2>7
  <1> HIDE DEF P
  <1>5. SUBSET D \subseteq P
    BY <1>1, <1>3, <1>4, SubsetInduct
  <1> QED BY <1>5 DEF P

\* Ones add up to the number of elements.
LEMMA SumOnes ==
    ASSUME NEW D, NEW F, Summable(F, D), \A x \in D : F[x] = 1
    PROVE  Iter(F)[D] = Cardinality(D) /\ Cardinality(D) \in Nat
  <1>1. IsFiniteSet(D)
    BY DEF Summable
  <1> DEFINE P == {s \in SUBSET D : Iter(F)[s] = Cardinality(s)}
  <1>2. {} \in P
    BY SumNone, FS_EmptySet
  <1>3. ASSUME NEW s \in SUBSET D, s # {}, \A k \in s : s \ {k} \in P
        PROVE  s \in P
    <2>1. PICK k : k \in s
      BY <1>3
    <2>2. Iter(F)[s] = F[k] + Iter(F)[s \ {k}]
      BY <2>1, SumTakes
    <2>3. F[k] = 1 /\ Iter(F)[s \ {k}] = Cardinality(s \ {k})
      BY <1>3, <2>1
    <2>4. Cardinality(s) \in Nat /\ Cardinality(s \ {k}) = Cardinality(s) - 1
      BY <1>1, <2>1, WithoutOne
    <2>5. PICK c \in Nat : c = Cardinality(s)
      BY <2>4
    <2>6. 1 + (c - 1) = c
      OBVIOUS
    <2> QED BY <2>2, <2>3, <2>4, <2>5, <2>6
  <1> HIDE DEF P
  <1>4. SUBSET D \subseteq P
    BY <1>1, <1>2, <1>3, SubsetInduct
  <1> QED BY <1>1, <1>4, FS_CardinalityType DEF P

\* v is weighted by w, and H is w times c times the distance of v from its weighted mean,
\* that times the sum t of the weights.
IsCentred(H, v, w, t, l, c, D) ==
    /\ Summable(H, D) /\ Summable(v, D) /\ Summable(w, D) /\ c \in Int
    /\ t = Iter(w)[D] /\ l = Iter([x \in D |-> w[x] * v[x]])[D]
    /\ \A x \in D : H[x] = w[x] * (c * (t * v[x] - l))

\* What is centred adds up to nothing.
LEMMA CentredSum ==
    ASSUME NEW D, NEW H, NEW v, NEW w, NEW t, NEW l, NEW c, IsCentred(H, v, w, t, l, c, D)
    PROVE  Iter(H)[D] = 0
  <1>1. /\ IsFiniteSet(D) /\ H \in [D -> Int] /\ v \in [D -> Int] /\ w \in [D -> Int] /\ c \in Int
        /\ Summable(w, D)
    BY DEF IsCentred, Summable
  <1>2. PICK F : F = [x \in D |-> w[x] * v[x]]
    OBVIOUS
  <1>3. Summable(F, D) /\ \A x \in D : F[x] = w[x] * v[x]
    <2>1. \A x \in D : w[x] * v[x] \in Int
      BY <1>1
    <2> QED BY <1>1, <1>2, <2>1 DEF Summable
  <1>4. t = Iter(w)[D] /\ l = Iter(F)[D] /\ t \in Int /\ l \in Int
    <2>1. t = Iter(w)[D] /\ l = Iter(F)[D]
      BY <1>2 DEF IsCentred
    <2> QED BY <1>1, <1>3, <2>1, SumType
  <1>5. c * t \in Int /\ c * l \in Int
    BY <1>1, <1>4
  <1>6. PICK a \in Int, b \in Int : a = c * t /\ b = c * l
    BY <1>5
  <1>7. PICK A, B : A = [x \in D |-> a * F[x]] /\ B = [x \in D |-> b * w[x]]
    OBVIOUS
  <1>8. IsMultiple(A, F, a, D) /\ IsMultiple(B, w, b, D)
    <2>1. \A x \in D : F[x] \in Int /\ w[x] \in Int
      BY <1>1, <1>3
    <2>2. \A x \in D : a * F[x] \in Int /\ b * w[x] \in Int
      BY <2>1
    <2> QED BY <1>1, <1>3, <1>7, <2>2 DEF IsMultiple, Summable
  <1>9. IsDifference(H, A, B, D)
    <2>1. ASSUME NEW x \in D PROVE H[x] = A[x] - B[x]
      <3>1. PICK y \in Int, z \in Int : y = v[x] /\ z = w[x]
        BY <1>1
      <3>2. H[x] = z * (c * (t * y - l))
        BY <3>1 DEF IsCentred
      <3>3. A[x] = a * (z * y) /\ B[x] = b * z
        BY <1>3, <1>7, <3>1
      <3>4. z * (c * (t * y - l)) = (c * t) * (z * y) - (c * l) * z
        BY ONLY <1>1, <1>4, y \in Int, z \in Int
      <3> QED BY <1>6, <3>2, <3>3, <3>4
    <2> QED BY <1>8, <2>1 DEF IsDifference, IsMultiple, IsCentred
  <1>10. Iter(H)[D] = a * l - b * t
    <2>1. Iter(A)[D] = a * Iter(F)[D] /\ Iter(B)[D] = b * Iter(w)[D]
      BY <1>8, SumMultiple
    <2>2. Iter(H)[D] = Iter(A)[D] - Iter(B)[D]
      BY <1>9, SumDifference
    <2> QED BY <1>4, <2>1, <2>2
  <1>11. (c * t) * l - (c * l) * t = 0
    BY ONLY <1>1, <1>4
  <1> QED BY <1>6, <1>10, <1>11
=============================================================================
