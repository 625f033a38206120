-------------------------- MODULE BatchFlowProofs --------------------------
(***************************************************************************)
(* Proofs about one training batch, for any number of prompts, responses,  *)
(* workers, ranks and micro-batches, any lengths and any scores.           *)
(*                                                                         *)
(* SeqlenBalancing: the method of Karmarkar and Karp loses no position,    *)
(* and with equal sizes leaves the loads no further apart than the widest  *)
(* of its first states; groups are not broken up, micro-batches divide     *)
(* their rows, and outputs in the order of micro-batches are put back.     *)
(*                                                                         *)
(* BatchFlow: BatchInv says what the batch is in every phase: as asked, as *)
(* answered, then fair shares one after the other.  RanksInv says that the *)
(* ranks in a call follow one plan (how many micro-batches each mini-batch *)
(* is cut into, and after how many collective operations it begins), each  *)
(* somewhere in it, and none has completed an operation that another has   *)
(* not called.  OutInv says that a rank's outputs are those of the         *)
(* micro-batches it has run, ColumnsInv that a row's columns are its own,  *)
(* and ScoredInv that a row's reward is that of its response, and its      *)
(* advantage what the estimator makes of the batch.                        *)
(***************************************************************************)
EXTENDS BatchFlow, DataTheorems

----------------------------------------------------------------------------
(* The weight of a part of the batch.                                       *)

\* The weights of the positions of a part
Along(w, part) == [i \in 1..Len(part) |-> w[part[i]]]

\* What Weight folds
LEMMA WeightAlong ==
    ASSUME NEW n \in Nat, NEW w \in [1..n -> Int], NEW part \in Seq(1..n)
    PROVE  Weight(w, part) = Iter(Along(w, part))[1..Len(part)] /\ Weight(w, part) \in Int
  <1>f. PICK F : F = [i \in 1..Len(part) |-> w[part[i]]] /\ F = Along(w, part)
    BY DEF Along
  <1> DEFINE D == DOMAIN part
  <1>0. Len(part) \in Nat /\ D = 1..Len(part)
    OBVIOUS
  <1>1. IsFiniteSet(D)
    BY <1>0, FS_Interval
  <1>2. F \in [D -> Int]
    <2>1. \A i \in 1..Len(part) : part[i] \in 1..n
      OBVIOUS
    <2>2. \A i \in 1..Len(part) : w[part[i]] \in Int
      BY <2>1
    <2> QED BY <1>f, <1>0, <2>2
  <1> DEFINE Is(it) == it = [s \in SUBSET D |->
                               IF s = {} THEN 0 ELSE it[s \ {Max(s)}] + w[part[Max(s)]]]
  <1>3. Weight(w, part) = (CHOOSE it : Is(it))[D]
    BY DEF Weight, FoldLeft, MapThenFoldSet
  <1>4. \A s \in SUBSET D : s # {} => Max(s) \in s
    <2> SUFFICES ASSUME NEW s \in SUBSET D, s # {} PROVE Max(s) \in s
      OBVIOUS
    <2> DEFINE T == {Len(part) - x : x \in s}
    <2>1. T \subseteq Nat /\ T # {} /\ s \subseteq 1..Len(part)
      BY <1>0
    <2>2. PICK y \in T : \A z \in T : y <= z
      BY <2>1, Smallest
    <2>3. PICK x \in s : y = Len(part) - x
      OBVIOUS
    <2>4. \A z \in s : x >= z
      <3>1. SUFFICES ASSUME NEW z \in s PROVE x >= z
        OBVIOUS
      <3>2. Len(part) - x <= Len(part) - z
        BY <2>2, <2>3
      <3>3. x \in Int /\ z \in Int
        BY <2>1
      <3> QED BY <1>0, <3>2, <3>3
    <2>5. \E m \in s : \A z \in s : m >= z
      BY <2>4
    <2> QED BY <2>5 DEF Max
  <1> DEFINE pick == [s \in SUBSET D |-> Max(s)]
  <1>5. \E g : SumsWith(D, F, pick, g)
    <2>1. \A s \in SUBSET D : s # {} => pick[s] \in s
      BY <1>4
    <2> HIDE DEF pick, D
    <2> QED BY <1>1, <2>1, SumsExist
  <1>6. \E it : Is(it)
    <2>1. PICK g : SumsWith(D, F, pick, g)
      BY <1>5
    <2>2. DOMAIN g = SUBSET D /\ g = [s \in SUBSET D |-> g[s]]
      BY <2>1 DEF SumsWith
    <2>3. \A s \in SUBSET D : g[s] = IF s = {} THEN 0 ELSE g[s \ {Max(s)}] + w[part[Max(s)]]
      <3>1. SUFFICES ASSUME NEW s \in SUBSET D
                     PROVE g[s] = IF s = {} THEN 0 ELSE g[s \ {Max(s)}] + w[part[Max(s)]]
        OBVIOUS
      <3>2. g[s] = IF s = {} THEN 0 ELSE F[Max(s)] + g[s \ {Max(s)}]
        BY <2>1 DEF SumsWith
      <3>3. CASE s = {}
        BY <3>2, <3>3
      <3>4. CASE s # {}
        <4>1. Max(s) \in D
          BY <1>4, <3>4
        <4>2. F[Max(s)] = w[part[Max(s)]] /\ F[Max(s)] \in Int
          BY <1>f, <1>0, <1>2, <4>1
        <4>3. g[s \ {Max(s)}] \in Int
          <5> DEFINE P == {r \in SUBSET D : g[r] \in Int}
          <5>1. {} \in P
            BY <2>1 DEF SumsWith
          <5>2. ASSUME NEW r \in SUBSET D, r # {}, \A k \in r : r \ {k} \in P
                PROVE  r \in P
            <6>1. Max(r) \in r /\ F[Max(r)] \in Int
              BY <1>2, <1>4, <5>2
            <6>2. g[r] = F[Max(r)] + g[r \ {Max(r)}]
              BY <2>1, <5>2 DEF SumsWith
            <6>3. g[r \ {Max(r)}] \in Int
              BY <5>2, <6>1
            <6> QED BY <6>1, <6>2, <6>3
          <5> HIDE DEF P, D
          <5>3. SUBSET D \subseteq P
            BY <1>1, <5>1, <5>2, SubsetInduct
          <5> QED BY <5>3 DEF P
        <4>4. F[Max(s)] + g[s \ {Max(s)}] = g[s \ {Max(s)}] + F[Max(s)]
          BY ONLY <4>2, <4>3
        <4> QED BY <3>2, <3>4, <4>2, <4>4
      <3> QED BY <3>3, <3>4
    <2>4. g = [s \in SUBSET D |-> IF s = {} THEN 0 ELSE g[s \ {Max(s)}] + w[part[Max(s)]]]
      <3> HIDE DEF D
      <3> QED BY <2>2, <2>3
    <2> QED BY <2>4
  <1> DEFINE it == CHOOSE it : Is(it)
  <1>7. Is(it)
    BY <1>6
  <1> HIDE DEF it
  <1>8. it[{}] = 0
    BY <1>7
  <1>9. \A s \in SUBSET D : s # {} => it[s] = it[s \ {Max(s)}] + w[part[Max(s)]]
    BY <1>7
  <1> HIDE DEF Is
  <1>10. \A s \in SUBSET D : it[s] \in Int
    <2> DEFINE P == {r \in SUBSET D : it[r] \in Int}
    <2>1. {} \in P
      BY <1>8
    <2>2. ASSUME NEW r \in SUBSET D, r # {}, \A k \in r : r \ {k} \in P
          PROVE  r \in P
      <3>1. Max(r) \in r /\ w[part[Max(r)]] \in Int
        <4>1. Max(r) \in r /\ Max(r) \in D
          BY <1>4, <2>2
        <4>2. part[Max(r)] \in 1..n
          BY <1>0, <4>1
        <4> QED BY <4>1, <4>2
      <3>2. it[r] = it[r \ {Max(r)}] + w[part[Max(r)]]
        BY <1>9, <2>2
      <3>3. it[r \ {Max(r)}] \in Int
        BY <2>2, <3>1
      <3> QED BY <3>1, <3>2, <3>3
    <2> HIDE DEF P, D
    <2>3. SUBSET D \subseteq P
      BY <1>1, <2>1, <2>2, SubsetInduct
    <2> QED BY <2>3 DEF P
  <1>11. \A s \in SUBSET D : s # {} => \E p \in s : it[s] = F[p] + it[s \ {p}]
    <2> SUFFICES ASSUME NEW s \in SUBSET D, s # {} PROVE \E p \in s : it[s] = F[p] + it[s \ {p}]
      OBVIOUS
    <2>1. Max(s) \in s /\ Max(s) \in D
      BY <1>4
    <2>2. F[Max(s)] = w[part[Max(s)]] /\ F[Max(s)] \in Int
      BY <1>f, <1>0, <1>2, <2>1
    <2>3. it[s \ {Max(s)}] \in Int
      BY <1>10
    <2>4. it[s] = F[Max(s)] + it[s \ {Max(s)}]
      <3>1. it[s] = it[s \ {Max(s)}] + F[Max(s)]
        BY <1>9, <2>2
      <3> QED BY ONLY <2>2, <2>3, <3>1
    <2> QED BY <2>1, <2>4
  <1>12. it[D] = SumFunction(F)
    <2> HIDE DEF D
    <2> QED BY <1>1, <1>2, <1>8, <1>11, SumUnique
  <1>13. DOMAIN F = D
    BY <1>f, <1>0
  <1> QED BY <1>f, <1>0, <1>3, <1>10, <1>12, <1>13, SumUnfolds DEF it

\* The weights along a part can be summed.
LEMMA AlongType ==
    ASSUME NEW n \in Nat, NEW w \in [1..n -> Int], NEW part \in Seq(1..n)
    PROVE  /\ Len(part) \in Nat /\ Summable(Along(w, part), 1..Len(part))
           /\ \A i \in 1..Len(part) : part[i] \in 1..n /\ Along(w, part)[i] = w[part[i]]
  <1>1. Len(part) \in Nat
    OBVIOUS
  <1>2. \A i \in 1..Len(part) : part[i] \in 1..n
    OBVIOUS
  <1>3. \A i \in 1..Len(part) : w[part[i]] \in Int
    BY <1>2
  <1>4. IsFiniteSet(1..Len(part))
    BY <1>1, FS_Interval
  <1> QED BY <1>1, <1>2, <1>3, <1>4 DEF Along, Summable

\* An empty part weighs nothing.
LEMMA WeightNone ==
    ASSUME NEW n \in Nat, NEW w \in [1..n -> Int], NEW part \in Seq(1..n), Len(part) = 0
    PROVE  Weight(w, part) = 0
  <1>1. 1..Len(part) = {}
    OBVIOUS
  <1>2. Summable(Along(w, part), 1..Len(part))
    BY AlongType
  <1>3. Iter(Along(w, part))[{}] = 0
    BY <1>2, SumNone
  <1>4. Weight(w, part) = Iter(Along(w, part))[1..Len(part)]
    BY WeightAlong
  <1> QED BY <1>1, <1>3, <1>4

\* One position has its own weight.
LEMMA WeightOne ==
    ASSUME NEW n \in Nat, NEW w \in [1..n -> Int], NEW i \in 1..n
    PROVE  Weight(w, <<i>>) = w[i]
  <1> DEFINE part == <<i>>
             F == Along(w, part)
             D == 1..Len(part)
  <1>1. part \in Seq(1..n) /\ Len(part) = 1 /\ part[1] = i
    OBVIOUS
  <1> HIDE DEF part
  <1>2. Summable(F, D) /\ F[1] = w[i]
    <2>1. 1 \in 1..Len(part)
      BY <1>1
    <2> QED BY <1>1, <2>1, AlongType
  <1>3. D = {1} /\ {1} \ {1} = {}
    BY <1>1
  <1>4. Weight(w, part) = Iter(F)[D]
    BY <1>1, WeightAlong
  <1>5. w[i] \in Int
    OBVIOUS
  <1> HIDE DEF F, D
  <1>6. Iter(F)[D] = F[1] + Iter(F)[D \ {1}]
    <2>1. D \subseteq D
      OBVIOUS
    <2>2. 1 \in D
      BY <1>3
    <2>3. PICK k : k = 1
      OBVIOUS
    <2>4. k \in D
      BY <2>2, <2>3
    <2>5. Iter(F)[D] = F[k] + Iter(F)[D \ {k}]
      BY <1>2, <2>1, <2>4, SumTakes
    <2> QED BY <2>3, <2>5
  <1>7. Iter(F)[{}] = 0
    BY <1>2, SumNone
  <1>8. Iter(F)[D] = w[i] + 0
    BY <1>2, <1>3, <1>6, <1>7
  <1> QED BY <1>4, <1>5, <1>8 DEF part

\* Only the empty part weighs nothing, when positions have positive weights.
LEMMA WeightPositive ==
    ASSUME NEW n \in Nat, NEW w \in [1..n -> Int], \A i \in 1..n : w[i] > 0, NEW part \in Seq(1..n)
    PROVE  Weight(w, part) \in Nat /\ (Weight(w, part) = 0 <=> part = <<>>)
  <1> DEFINE F == Along(w, part)
             D == 1..Len(part)
  <1>1. Len(part) \in Nat /\ Summable(F, D) /\ \A i \in D : F[i] > 0
    BY AlongType
  <1>2. Weight(w, part) = Iter(F)[D] /\ Weight(w, part) \in Int
    BY WeightAlong
  <1>4. part = <<>> => Weight(w, part) = 0
    BY WeightNone
  <1>5. part # <<>> => D # {}
    <2>1. part # <<>> => Len(part) # 0
      OBVIOUS
    <2>2. Len(part) # 0 => 1 \in D
      BY <1>1
    <2> QED BY <2>1, <2>2
  <1> HIDE DEF F, D
  <1>3. Iter(F)[D] >= 0 /\ (D # {} => Iter(F)[D] > 0)
    BY <1>1, SumPositive
  <1> QED BY <1>2, <1>3, <1>4, <1>5

\* A part joined to another weighs what the two do.
LEMMA WeightJoin ==
    ASSUME NEW n \in Nat, NEW w \in [1..n -> Int], NEW a \in Seq(1..n), NEW b \in Seq(1..n)
    PROVE  Weight(w, a \o b) = Weight(w, a) + Weight(w, b)
  <1> DEFINE m == Len(a)
             l == Len(b)
             ab == a \o b
             F == Along(w, a)
             G == Along(w, b)
             H == Along(w, ab)
  <1>1. /\ m \in Nat /\ l \in Nat /\ ab \in Seq(1..n) /\ Len(ab) = m + l
        /\ \A i \in 1..m : ab[i] = a[i]
        /\ \A i \in 1..l : ab[m + i] = b[i]
    OBVIOUS
  <1> HIDE DEF ab
  <1>2. Summable(F, 1..m) /\ Summable(G, 1..l)
    BY AlongType
  <1>3. Summable(H, 1..m + l)
    <2>1. Summable(H, 1..Len(ab))
      BY <1>1, AlongType
    <2> QED BY <1>1, <2>1
  <1>4. ASSUME NEW i \in 1..m PROVE F[i] = H[i]
    <2>1. i \in 1..Len(a) /\ i \in 1..Len(ab)
      BY <1>1
    <2> QED BY <1>1, <2>1 DEF Along
  <1>5. ASSUME NEW i \in 1..l PROVE G[i] = H[m + i]
    <2>1. i \in 1..Len(b) /\ m + i \in 1..Len(ab)
      BY <1>1
    <2> QED BY <1>1, <2>1 DEF Along
  <1>6. Weight(w, a) = Iter(F)[1..m] /\ Weight(w, b) = Iter(G)[1..l]
    BY WeightAlong
  <1>7. Weight(w, ab) = Iter(H)[1..m + l]
    <2>1. Weight(w, ab) = Iter(H)[1..Len(ab)]
      BY <1>1, WeightAlong
    <2> QED BY <1>1, <2>1
  <1> HIDE DEF F, G, H, m, l
  <1>8. Iter(H)[1..m + l] = Iter(F)[1..m] + Iter(G)[1..l]
    <2>1. IsSplit(H, F, m, G, l)
      BY <1>1, <1>2, <1>3, <1>4, <1>5 DEF IsSplit
    <2> QED BY <2>1, SumSplit
  <1> QED BY <1>6, <1>7, <1>8 DEF ab

\* The weight of a part that has no position twice is the sum over the set of them.
LEMMA WeightOfSet ==
    ASSUME NEW n \in Nat, NEW w \in [1..n -> Int], NEW part \in Seq(1..n),
           NoTwice(part)
    PROVE  Weight(w, part) = Iter(w)[Members(part)]
  <1> DEFINE F == Along(w, part)
             D == 1..Len(part)
             E == 1..n
  <1>1. Summable(F, D) /\ \A i \in D : part[i] \in E /\ F[i] = w[part[i]]
    BY AlongType
  <1>2. Weight(w, part) = Iter(F)[D]
    BY WeightAlong
  <1>3. Summable(w, E)
    BY FS_Interval DEF Summable
  <1>4. part \in [D -> E]
    OBVIOUS
  <1>5. \A x, y \in D : part[x] = part[y] => x = y
    BY DEF NoTwice
  <1> HIDE DEF F, D, E
  <1>6. Renames(part, F, D, w, E)
    BY <1>1, <1>3, <1>4, <1>5 DEF Renames
  <1>7. Iter(F)[D] = Iter(w)[{part[x] : x \in D}]
    <2>1. Iter(F)[D] = Iter(w)[ImageOf(part, D)]
      BY ONLY <1>6, SumRenamed
    <2> QED BY <2>1 DEF ImageOf
  <1> QED BY <1>2, <1>7 DEF D, Members

----------------------------------------------------------------------------
(* Karmarkar and Karp: the sets of a state and their order.                 *)

\* The keys of Set.__lt__, for the descending order
SumKey(s) == [i \in 1..Len(s) |-> -s[i].sum]
LenKey(s) == [i \in 1..Len(s) |-> -Len(s[i].items)]
FirstKey(s) == [i \in 1..Len(s) |-> IF s[i].items = <<>> THEN 0 ELSE -s[i].items[1]]

\* Sets of positions and their sums
SetsOf(A) == [sum : Int, items : Seq(A)]

\* Lighter is an order by the three keys.
LEMMA SetKeys ==
    ASSUME NEW n \in Nat, NEW s \in Seq(SetsOf(1..n))
    PROVE  /\ Keys(Len(s), SumKey(s), LenKey(s), FirstKey(s))
           /\ \A i, j \in 1..Len(s) :
                 Lighter(s[i], s[j]) <=> KeyLess(SumKey(s), LenKey(s), FirstKey(s), j, i)
  <1> DEFINE k == Len(s)
  <1>1. k \in Nat /\ \A i \in 1..k : s[i] \in SetsOf(1..n)
    OBVIOUS
  <1>2. ASSUME NEW i \in 1..k
        PROVE  /\ s[i].sum \in Int /\ Len(s[i].items) \in Nat
               /\ s[i].items = <<>> <=> Len(s[i].items) = 0
               /\ s[i].items # <<>> => s[i].items[1] \in 1..n
    <2>1. s[i].sum \in Int /\ s[i].items \in Seq(1..n)
      BY <1>1 DEF SetsOf
    <2>2. Len(s[i].items) \in Nat /\ (s[i].items = <<>> <=> Len(s[i].items) = 0)
      BY <2>1
    <2>3. s[i].items # <<>> => 1 \in 1..Len(s[i].items)
      BY <2>2
    <2> QED BY <2>1, <2>2, <2>3
  <1>3. /\ SumKey(s) \in [1..k -> Int] /\ LenKey(s) \in [1..k -> Int]
        /\ FirstKey(s) \in [1..k -> Int]
    <2>1. \A i \in 1..k : -s[i].sum \in Int /\ -Len(s[i].items) \in Int
      BY <1>2
    <2>2. \A i \in 1..k : (IF s[i].items = <<>> THEN 0 ELSE -s[i].items[1]) \in Int
      BY <1>2
    <2> QED BY <2>1, <2>2 DEF SumKey, LenKey, FirstKey
  <1>4. ASSUME NEW i \in 1..k, NEW j \in 1..k
        PROVE  Lighter(s[i], s[j]) <=> KeyLess(SumKey(s), LenKey(s), FirstKey(s), j, i)
    <2>1. /\ SumKey(s)[i] = -s[i].sum /\ SumKey(s)[j] = -s[j].sum
          /\ LenKey(s)[i] = -Len(s[i].items) /\ LenKey(s)[j] = -Len(s[j].items)
      BY DEF SumKey, LenKey
    <2>2. /\ FirstKey(s)[i] = IF s[i].items = <<>> THEN 0 ELSE -s[i].items[1]
          /\ FirstKey(s)[j] = IF s[j].items = <<>> THEN 0 ELSE -s[j].items[1]
      BY DEF FirstKey
    <2>3. CASE Len(s[i].items) # Len(s[j].items)
      BY <1>2, <2>1, <2>3, SMTT(30) DEF Lighter, KeyLess
    <2>4. CASE Len(s[i].items) = Len(s[j].items)
      <3>1. s[i].items = <<>> <=> s[j].items = <<>>
        BY <1>2, <2>4
      <3>2. CASE s[i].items = <<>>
        BY <1>2, <2>1, <2>2, <2>4, <3>1, <3>2 DEF Lighter, KeyLess
      <3>3. CASE s[i].items # <<>>
        <4>1. s[i].items[1] \in Int /\ s[j].items[1] \in Int
          BY <1>2, <3>1, <3>3
        <4>2. PICK u \in Int, v \in Int : u = s[i].sum /\ v = s[j].sum
          BY <1>2
        <4>3. PICK x \in Int, y \in Int : x = s[i].items[1] /\ y = s[j].items[1]
          BY <4>1
        <4>4. PICK l \in Int : l = Len(s[i].items) /\ l = Len(s[j].items)
          BY <1>2, <2>4
        <4>5. Lighter(s[i], s[j]) <=> (u < v \/ (u = v /\ x < y))
          BY <3>3, <4>2, <4>3, <4>4 DEF Lighter
        <4>6. KeyLess(SumKey(s), LenKey(s), FirstKey(s), j, i) <=> (-v < -u \/ (-v = -u /\ -y < -x))
          BY <2>1, <2>2, <3>1, <3>3, <4>2, <4>3, <4>4, SMTT(30) DEF KeyLess
        <4> QED BY ONLY <4>5, <4>6
      <3> QED BY <3>2, <3>3
    <2> QED BY <2>3, <2>4
  <1> QED BY <1>1, <1>3, <1>4 DEF Keys

\* HeaviestFirst rearranges, and leaves no lighter set before a heavier one.
LEMMA HeaviestFirstSorts ==
    ASSUME NEW n \in Nat, NEW s \in Seq(SetsOf(1..n)), NEW t, t = HeaviestFirst(s)
    PROVE  /\ t \in Seq(SetsOf(1..n))
           /\ \E at : Reordered(t, s, at, Len(s))
           /\ \A p, q \in 1..Len(s) : p < q => t[p].sum >= t[q].sum
  <1> DEFINE k == Len(s)
             a == SumKey(s)
             b == LenKey(s)
             c == FirstKey(s)
             place == [i \in 1..k |-> 1 + Cardinality({j \in 1..k :
                           Lighter(s[i], s[j]) \/ (~Lighter(s[j], s[i]) /\ j < i)})]
  <1>1. t = SubSeq([p \in 1..k |-> s[CHOOSE i \in 1..k : place[i] = p]], 1, k)
    BY DEF HeaviestFirst, Sorted
  <1>2. Keys(k, a, b, c) /\ \A i, j \in 1..k : Lighter(s[i], s[j]) <=> KeyLess(a, b, c, j, i)
    BY SetKeys
  <1> HIDE DEF a, b, c
  <1>3. place = Places(k, a, b, c)
    <2>1. ASSUME NEW i \in 1..k
          PROVE  {j \in 1..k : Lighter(s[i], s[j]) \/ (~Lighter(s[j], s[i]) /\ j < i)}
                    = {j \in 1..k : KeyBefore(a, b, c, j, i)}
      BY <1>2 DEF KeyBefore
    <2> QED BY <2>1 DEF Places
  <1> HIDE DEF place
  <1>4. t = Arranged(s, a, b, c)
    BY <1>1, <1>3 DEF Arranged
  <1>5. t \in Seq(SetsOf(1..n)) /\ SortedBy(t, s, k, a, b, c)
    <2>1. PICK A : A = SetsOf(1..n)
      OBVIOUS
    <2>2. s \in Seq(A)
      BY <2>1
    <2>3. t \in Seq(A) /\ SortedBy(t, s, k, a, b, c)
      BY <1>2, <1>4, <2>2, SortedByKeys
    <2> QED BY <2>1, <2>3
  <1>6. PICK at : /\ Reordered(t, s, at, k)
                  /\ \A p, q \in 1..k : p < q => KeyBefore(a, b, c, at[p], at[q])
    BY <1>5 DEF SortedBy
  <1>7. ASSUME NEW p \in 1..k, NEW q \in 1..k, p < q PROVE t[p].sum >= t[q].sum
    <2>1. at[p] \in 1..k /\ at[q] \in 1..k /\ t[p] = s[at[p]] /\ t[q] = s[at[q]]
      <3>1. k \in Nat
        OBVIOUS
      <3>2. \A x \in 1..k : at[x] \in 1..k /\ t[x] = s[at[x]]
        <4> HIDE DEF k
        <4>1. Reordered(t, s, at, k)
          BY ONLY <1>6
        <4>2. IsRearrangement(t, s, at, k)
          BY ONLY <4>1, <3>1, ReorderedFacts
        <4> QED BY ONLY <4>2 DEF IsRearrangement
      <3> QED BY <3>2
    <2>2. KeyBefore(a, b, c, at[p], at[q])
      BY <1>6, <1>7
    <2>3. a[at[p]] <= a[at[q]] /\ a[at[p]] \in Int /\ a[at[q]] \in Int
      BY <1>2, <2>1, <2>2 DEF KeyBefore, KeyLess, Keys
    <2>4. a[at[p]] = -t[p].sum /\ a[at[q]] = -t[q].sum
      BY <2>1 DEF a, SumKey
    <2>5. t[p].sum \in Int /\ t[q].sum \in Int
      <3>1. s[at[p]] \in SetsOf(1..n) /\ s[at[q]] \in SetsOf(1..n)
        BY <2>1
      <3> QED BY <2>1, <3>1 DEF SetsOf
    <2> QED BY <2>3, <2>4, <2>5
  <1> QED BY <1>5, <1>6, <1>7

\* The keys of sorted(s) for numbers
ValueKey(s) == [i \in 1..Len(s) |-> s[i]]
NoKey(s) == [i \in 1..Len(s) |-> 0]

\* Sorting numbers rearranges them in ascending order.
LEMMA SortedInts ==
    ASSUME NEW A, A \subseteq Int, NEW s \in Seq(A), NEW t, t = Sorted(s, <)
    PROVE  /\ t \in Seq(A)
           /\ \E at : Reordered(t, s, at, Len(s))
           /\ \A p, q \in 1..Len(s) : p < q => t[p] <= t[q]
  <1> DEFINE k == Len(s)
             a == ValueKey(s)
             c == NoKey(s)
             place == [i \in 1..k |-> 1 + Cardinality({j \in 1..k :
                           s[j] < s[i] \/ (~(s[i] < s[j]) /\ j < i)})]
  <1>1. t = SubSeq([p \in 1..k |-> s[CHOOSE i \in 1..k : place[i] = p]], 1, k)
    BY DEF Sorted
  <1>0. k \in Nat /\ \A i \in 1..k : s[i] \in A /\ s[i] \in Int
    <2>1. s \in Seq(A) /\ A \subseteq Int
      OBVIOUS
    <2>2. k \in Nat
      BY ONLY <2>1 DEF k
    <2>3. \A i \in 1..k : s[i] \in A
      BY ONLY <2>1 DEF k
    <2> HIDE DEF k
    <2> QED BY ONLY <2>1, <2>2, <2>3
  <1>2. /\ Keys(k, a, c, c) /\ \A i, j \in 1..k : s[j] < s[i] <=> KeyLess(a, c, c, j, i)
        /\ \A i \in 1..k : a[i] = s[i]
    <2>1. a \in [1..k -> Int] /\ c \in [1..k -> Int] /\ \A i \in 1..k : a[i] = s[i] /\ c[i] = 0
      <3>1. a = [i \in 1..k |-> s[i]] /\ c = [i \in 1..k |-> 0]
        BY DEF ValueKey, NoKey
      <3> HIDE DEF a, c, k
      <3> QED BY ONLY <1>0, <3>1
    <2> HIDE DEF k, a, c
    <2>2. Keys(k, a, c, c)
      BY ONLY <1>0, <2>1 DEF Keys
    <2>3. ASSUME NEW i \in 1..k, NEW j \in 1..k PROVE s[j] < s[i] <=> KeyLess(a, c, c, j, i)
      BY ONLY <1>0, <2>1 DEF KeyLess
    <2> QED BY <2>1, <2>2, <2>3
  <1> HIDE DEF a, c
  <1>3. place = Places(k, a, c, c)
    <2>1. ASSUME NEW i \in 1..k
          PROVE  {j \in 1..k : s[j] < s[i] \/ (~(s[i] < s[j]) /\ j < i)}
                    = {j \in 1..k : KeyBefore(a, c, c, j, i)}
      BY <1>2 DEF KeyBefore
    <2> QED BY <2>1 DEF Places
  <1> HIDE DEF place
  <1>4. t = Arranged(s, a, c, c)
    BY ONLY <1>1, <1>3 DEF Arranged, k
  <1>5. t \in Seq(A) /\ SortedBy(t, s, k, a, c, c)
    BY <1>2, <1>4, SortedByKeys
  <1>6. PICK at : /\ Reordered(t, s, at, k)
                  /\ \A p, q \in 1..k : p < q => KeyBefore(a, c, c, at[p], at[q])
    BY <1>5 DEF SortedBy
  <1>8. \A x \in 1..k : at[x] \in 1..k /\ t[x] = s[at[x]]
    <2>1. k \in Nat
      BY <1>0
    <2> HIDE DEF k
    <2> QED BY ONLY <1>6, <2>1, ReorderedType
  <1>7. ASSUME NEW p \in 1..k, NEW q \in 1..k, p < q PROVE t[p] <= t[q]
    <2>1. at[p] \in 1..k /\ at[q] \in 1..k /\ t[p] = s[at[p]] /\ t[q] = s[at[q]]
      BY <1>8
    <2>2. KeyBefore(a, c, c, at[p], at[q])
      BY <1>6, <1>7
    <2>3. a[at[p]] <= a[at[q]]
      <3>1. a[at[p]] \in Int /\ a[at[q]] \in Int
        BY <1>2, <2>1 DEF Keys
      <3> QED BY ONLY <3>1, <2>2 DEF KeyBefore, KeyLess
    <2> QED BY <1>2, <2>1, <2>3
  <1> QED BY <1>5, <1>6, <1>7

\* The positions of w, lightest first
LEMMA AscendingSorts ==
    ASSUME NEW n \in Nat, NEW w \in [1..n -> Int], NEW t, t = Ascending(w)
    PROVE  /\ IsOrder(t, n)
           /\ \A p, q \in 1..n : p < q => w[t[p]] <= w[t[q]]
  <1> DEFINE s == [i \in 1..n |-> i]
             a == [i \in 1..n |-> w[i]]
             b == [i \in 1..n |-> i]
             c == NoKey(s)
             place == [i \in 1..n |-> 1 + Cardinality({j \in 1..n :
                           (w[s[j]] < w[s[i]] \/ (w[s[j]] = w[s[i]] /\ s[j] < s[i]))
                           \/ (~(w[s[i]] < w[s[j]] \/ (w[s[i]] = w[s[j]] /\ s[i] < s[j])) /\ j < i)})]
  <1>0. Len(w) = n /\ s \in Seq(1..n) /\ Len(s) = n /\ \A i \in 1..n : s[i] = i
    OBVIOUS
  <1>1. t = SubSeq([p \in 1..n |-> s[CHOOSE i \in 1..n : place[i] = p]], 1, n)
    BY <1>0 DEF Ascending, Sorted
  <1>2. /\ Keys(n, a, b, c) /\ \A i \in 1..n : a[i] = w[i]
        /\ \A i, j \in 1..n : (w[s[j]] < w[s[i]] \/ (w[s[j]] = w[s[i]] /\ s[j] < s[i]))
                                 <=> KeyLess(a, b, c, j, i)
    <2>1. a \in [1..n -> Int] /\ b \in [1..n -> Int] /\ c \in [1..n -> Int]
          /\ \A i \in 1..n : a[i] = w[i] /\ b[i] = i /\ c[i] = 0
      BY <1>0 DEF NoKey
    <2> HIDE DEF a, b, c, s
    <2> QED BY <1>0, <2>1 DEF Keys, KeyLess
  <1> HIDE DEF a, b, c
  <1>3. place = Places(n, a, b, c)
    <2>1. ASSUME NEW i \in 1..n
          PROVE  {j \in 1..n : (w[s[j]] < w[s[i]] \/ (w[s[j]] = w[s[i]] /\ s[j] < s[i]))
                           \/ (~(w[s[i]] < w[s[j]] \/ (w[s[i]] = w[s[j]] /\ s[i] < s[j])) /\ j < i)}
                    = {j \in 1..n : KeyBefore(a, b, c, j, i)}
      <3> HIDE DEF s
      <3> QED BY <1>2 DEF KeyBefore
    <2> HIDE DEF s
    <2> QED BY <2>1 DEF Places
  <1> HIDE DEF place, s
  <1>4. t = Arranged(s, a, b, c)
    BY <1>0, <1>1, <1>3 DEF Arranged
  <1>5. SortedBy(t, s, n, a, b, c)
    <2>1. PICK A : A = 1..n
      OBVIOUS
    <2>2. s \in Seq(A) /\ n = Len(s)
      BY <1>0, <2>1
    <2> QED BY <1>2, <1>4, <2>2, SortedByKeys
  <1>6. PICK at : /\ Reordered(t, s, at, n)
                  /\ \A p, q \in 1..n : p < q => KeyBefore(a, b, c, at[p], at[q])
    BY <1>5 DEF SortedBy
  <1>8. /\ Len(t) = n
        /\ \A x \in 1..n : at[x] \in 1..n /\ t[x] = s[at[x]]
        /\ \A p, q \in 1..n : at[p] = at[q] => p = q
        /\ \A x \in 1..n : \E p \in 1..n : at[p] = x
    <2>1. Reordered(t, s, at, n)
      BY ONLY <1>6
    <2>2. IsRearrangement(t, s, at, n)
      BY ONLY <2>1, n \in Nat, ReorderedFacts
    <2> QED BY ONLY <2>2 DEF IsRearrangement
  <1>9. \A x \in 1..n : t[x] = at[x]
    BY <1>0, <1>8
  <1>7. ASSUME NEW p \in 1..n, NEW q \in 1..n, p < q PROVE w[t[p]] <= w[t[q]]
    <2>1. at[p] \in 1..n /\ at[q] \in 1..n /\ t[p] = at[p] /\ t[q] = at[q]
      BY <1>8, <1>9
    <2>2. KeyBefore(a, b, c, at[p], at[q])
      BY <1>6, <1>7
    <2>3. a[at[p]] <= a[at[q]]
      <3>1. a[at[p]] \in Int /\ a[at[q]] \in Int
        BY <1>2, <2>1 DEF Keys
      <3> QED BY ONLY <3>1, <2>2 DEF KeyBefore, KeyLess
    <2> QED BY <1>2, <2>1, <2>3
  <1>10. t = at
    <2>1. t \in Seq(1..n)
      <3>1. PICK A : A = 1..n
        OBVIOUS
      <3>2. s \in Seq(A) /\ n = Len(s)
        BY <1>0, <3>1
      <3>3. t \in Seq(A)
        BY <1>2, <1>4, <3>2, SortedByKeys
      <3> QED BY <3>1, <3>3
    <2>2. at \in Seq(1..n) /\ Len(at) = n
      BY <1>6 DEF Reordered, IsOrder
    <2> QED BY <1>8, <1>9, <2>1, <2>2
  <1> QED BY <1>6, <1>7, <1>10 DEF Reordered

----------------------------------------------------------------------------
(* Joining sets and merging states.                                         *)

\* Positions and their weights
Weighs(w, n) == n \in Nat /\ w \in [1..n -> Int] /\ \A i \in 1..n : w[i] > 0

\* A set of the method: a part and its weight
IsPart(p, w, n) == p.sum = Weight(w, p.items) /\ p \in SetsOf(1..n)

\* No position twice in the sets of s
Apart(s, k) ==
    \A i, j \in 1..k : \A a \in 1..Len(s[i].items), b \in 1..Len(s[j].items) :
        s[i].items[a] = s[j].items[b] => i = j /\ a = b

\* x is in one of the sets of s.
Holds(s, k, x) == \E i \in 1..k : \E a \in 1..Len(s[i].items) : s[i].items[a] = x

\* k disjoint sets, not all of them empty
AreSets(s, k, w, n) ==
    /\ s \in Seq(SetsOf(1..n)) /\ Len(s) = k
    /\ \A i \in 1..k : IsPart(s[i], w, n)
    /\ Apart(s, k)
    /\ \E i \in 1..k : s[i].items # <<>>

\* Heaviest first
Descends(s, k) == \A i, j \in 1..k : i < j => s[i].sum >= s[j].sum

\* A state of the method
IsState(s, k, w, n) == AreSets(s, k, w, n) /\ Descends(s, k)

\* Sums that differ by no more than most
Close(s, k, most) == \A i, j \in 1..k : s[i].sum - s[j].sum <= most

\* Sets of equal size
Even(s, k) == \A i, j \in 1..k : Len(s[i].items) = Len(s[j].items)

\* Its sum is a natural number, and 0 only for the empty set.
LEMMA PartType ==
    ASSUME NEW n, NEW w, Weighs(w, n), NEW p, IsPart(p, w, n)
    PROVE  /\ p.sum \in Nat /\ p.items \in Seq(1..n) /\ Len(p.items) \in Nat
           /\ (p.sum = 0 <=> p.items = <<>>)
           /\ (Len(p.items) = 0 <=> p.items = <<>>)
  <1>1. p.sum \in Int /\ p.items \in Seq(1..n) /\ p.sum = Weight(w, p.items)
    BY DEF IsPart, SetsOf
  <1>2. Weight(w, p.items) \in Nat /\ (Weight(w, p.items) = 0 <=> p.items = <<>>)
    BY <1>1, WeightPositive DEF Weighs
  <1>3. Len(p.items) \in Nat /\ (Len(p.items) = 0 <=> p.items = <<>>)
    BY <1>1
  <1> QED BY <1>1, <1>2, <1>3

\* What joining two sets gives
IsJoin(j, p, q) ==
    /\ j.sum = p.sum + q.sum
    /\ Len(j.items) = Len(p.items) + Len(q.items)
    /\ \A a \in 1..Len(p.items) : j.items[a] = p.items[a]
    /\ \A b \in 1..Len(q.items) : j.items[Len(p.items) + b] = q.items[b]

\* Two sets joined are a set: its weight is the sum of theirs.
LEMMA JoinedPart ==
    ASSUME NEW n, NEW w, Weighs(w, n), NEW p, IsPart(p, w, n), NEW q, IsPart(q, w, n),
           NEW j, j = Joined(p, q)
    PROVE  IsPart(j, w, n) /\ IsJoin(j, p, q)
  <1>1. p.sum = Weight(w, p.items) /\ q.sum = Weight(w, q.items) /\ p.sum \in Nat /\ q.sum \in Nat
    BY PartType DEF IsPart
  <1>2. PICK x \in Seq(1..n), y \in Seq(1..n) : x = p.items /\ y = q.items
    BY PartType
  <1>3. n \in Nat /\ w \in [1..n -> Int]
    BY DEF Weighs
  <1>4. Weight(w, x \o y) = Weight(w, x) + Weight(w, y)
    BY <1>3, WeightJoin
  <1>5. j = [sum |-> p.sum + q.sum, items |-> x \o y]
    BY <1>2 DEF Joined
  <1>6. x \o y \in Seq(1..n) /\ Len(x \o y) = Len(x) + Len(y)
        /\ (\A a \in 1..Len(x) : (x \o y)[a] = x[a])
        /\ (\A b \in 1..Len(y) : (x \o y)[Len(x) + b] = y[b])
    OBVIOUS
  <1>7. IsPart(j, w, n)
    <2>1. j.sum = p.sum + q.sum /\ j.items = x \o y
      BY <1>5
    <2>2. j \in SetsOf(1..n)
      BY <1>1, <1>5, <1>6 DEF SetsOf
    <2> QED BY <1>1, <1>2, <1>4, <2>1, <2>2 DEF IsPart
  <1>8. j.sum = p.sum + q.sum /\ j.items = x \o y
    BY <1>5
  <1>9. IsJoin(j, p, q)
    BY ONLY <1>2, <1>6, <1>8 DEF IsJoin
  <1> QED BY <1>7, <1>9

\* Sorting keeps the sets.
LEMMA SortKeeps ==
    ASSUME NEW n, NEW w, Weighs(w, n), NEW k, NEW s, AreSets(s, k, w, n),
           NEW t, t = HeaviestFirst(s)
    PROVE  /\ IsState(t, k, w, n)
           /\ \A x : Holds(t, k, x) <=> Holds(s, k, x)
           /\ Even(s, k) => Even(t, k)
           /\ \A most : Close(s, k, most) => Close(t, k, most)
  <1>1. n \in Nat /\ s \in Seq(SetsOf(1..n)) /\ Len(s) = k
    BY DEF Weighs, AreSets
  <1>2. k \in Nat
    BY ONLY <1>1
  <1>3. /\ t \in Seq(SetsOf(1..n)) /\ \E at : Reordered(t, s, at, k)
        /\ \A p, q \in 1..k : p < q => t[p].sum >= t[q].sum
    BY <1>1, HeaviestFirstSorts
  <1>4. PICK at : Reordered(t, s, at, k)
    BY <1>3
  <1>5. /\ Len(t) = k
        /\ \A p \in 1..k : at[p] \in 1..k /\ t[p] = s[at[p]]
        /\ \A p, q \in 1..k : at[p] = at[q] => p = q
        /\ \A x \in 1..k : \E p \in 1..k : at[p] = x
    BY ONLY <1>2, <1>4, ReorderedType
  <1>6. AreSets(t, k, w, n)
    <2>1. \A i \in 1..k : IsPart(t[i], w, n)
      BY <1>5 DEF AreSets
    <2>2. Apart(t, k)
      <3>1. SUFFICES ASSUME NEW i \in 1..k, NEW j \in 1..k,
                            NEW a \in 1..Len(t[i].items), NEW b \in 1..Len(t[j].items),
                            t[i].items[a] = t[j].items[b]
                     PROVE  i = j /\ a = b
        BY DEF Apart
      <3>2. Apart(s, k)
        BY DEF AreSets
      <3>4. at[i] \in 1..k /\ at[j] \in 1..k /\ t[i] = s[at[i]] /\ t[j] = s[at[j]]
        BY <1>5
      <3>5. PICK c, d : c = at[i] /\ d = at[j]
        OBVIOUS
      <3>6. /\ c \in 1..k /\ d \in 1..k /\ a \in 1..Len(s[c].items) /\ b \in 1..Len(s[d].items)
            /\ s[c].items[a] = s[d].items[b]
        BY <3>1, <3>4, <3>5
      <3>7. c = d /\ a = b
        BY ONLY <3>2, <3>6 DEF Apart
      <3>3. at[i] = at[j] /\ a = b
        BY ONLY <3>5, <3>7
      <3> QED BY <1>5, <3>3
    <2>3. \E i \in 1..k : t[i].items # <<>>
      <3>1. PICK i \in 1..k : s[i].items # <<>>
        BY DEF AreSets
      <3>2. PICK p \in 1..k : at[p] = i
        BY <1>5
      <3> QED BY <1>5, <3>1, <3>2, ZenonT(40)
    <2> QED BY <1>3, <1>5, <2>1, <2>2, <2>3 DEF AreSets
  <1>7. ASSUME NEW x PROVE Holds(t, k, x) <=> Holds(s, k, x)
    <2>1. ASSUME Holds(t, k, x) PROVE Holds(s, k, x)
      <3>1. PICK i \in 1..k : \E a \in 1..Len(t[i].items) : t[i].items[a] = x
        BY <2>1 DEF Holds
      <3>2. PICK c \in 1..k : t[i] = s[c]
        BY <1>5, ZenonT(40)
      <3> QED BY ONLY <3>1, <3>2 DEF Holds
    <2>2. ASSUME Holds(s, k, x) PROVE Holds(t, k, x)
      <3>1. PICK i \in 1..k : \E a \in 1..Len(s[i].items) : s[i].items[a] = x
        BY <2>2 DEF Holds
      <3>2. PICK p \in 1..k : at[p] = i
        BY <1>5
      <3>3. t[p] = s[i]
        BY <1>5, <3>2
      <3> QED BY <3>1, <3>3 DEF Holds
    <2> QED BY <2>1, <2>2
  <1>8. Even(s, k) => Even(t, k)
    <2>1. ASSUME Even(s, k), NEW i \in 1..k, NEW j \in 1..k
          PROVE  Len(t[i].items) = Len(t[j].items)
      <3>a. at[i] \in 1..k /\ t[i] = s[at[i]]
        BY <1>5
      <3>b. at[j] \in 1..k /\ t[j] = s[at[j]]
        BY <1>5
      <3>1. PICK c \in 1..k, d \in 1..k : t[i] = s[c] /\ t[j] = s[d]
        BY ONLY <3>a, <3>b
      <3>2. Len(s[c].items) = Len(s[d].items)
        BY ONLY <2>1, <3>1 DEF Even
      <3> QED BY ONLY <3>1, <3>2
    <2> QED BY <2>1 DEF Even
  <1>9. ASSUME NEW most, Close(s, k, most) PROVE Close(t, k, most)
    <2>1. ASSUME NEW i \in 1..k, NEW j \in 1..k PROVE t[i].sum - t[j].sum <= most
      <3>a. at[i] \in 1..k /\ t[i] = s[at[i]]
        BY <1>5
      <3>b. at[j] \in 1..k /\ t[j] = s[at[j]]
        BY <1>5
      <3>1. PICK c \in 1..k, d \in 1..k : t[i] = s[c] /\ t[j] = s[d]
        BY ONLY <3>a, <3>b
      <3>2. s[c].sum - s[d].sum <= most
        BY ONLY <1>9, <3>1 DEF Close
      <3> QED BY ONLY <3>1, <3>2
    <2> QED BY <2>1 DEF Close
  <1> QED BY <1>3, <1>6, <1>7, <1>8, <1>9 DEF IsState, Descends

\* Two states of disjoint sets become one.
LEMMA MergedState ==
    ASSUME NEW n, NEW w, Weighs(w, n), NEW k \in Nat,
           NEW s, IsState(s, k, w, n), NEW t, IsState(t, k, w, n),
           \A x : ~(Holds(s, k, x) /\ Holds(t, k, x))
    PROVE  /\ IsState(Merged(s, t), k, w, n)
           /\ \A x : Holds(Merged(s, t), k, x) <=> Holds(s, k, x) \/ Holds(t, k, x)
           /\ Even(s, k) /\ Even(t, k) => Even(Merged(s, t), k)
           /\ \A most \in Int : Close(s, k, most) /\ Close(t, k, most) => Close(Merged(s, t), k, most)
  <1>1. /\ Len(s) = k /\ Len(t) = k
        /\ \A i \in 1..k : IsPart(s[i], w, n) /\ IsPart(t[i], w, n)
        /\ Apart(s, k) /\ Apart(t, k) /\ Descends(s, k) /\ Descends(t, k)
    BY DEF IsState, AreSets
  <1>0. PICK i0 \in 1..k : s[i0].items # <<>>
    BY DEF IsState, AreSets
  <1> DEFINE u == [i \in 1..k |-> Joined(s[i], t[k + 1 - i])]
  <1>2. Merged(s, t) = HeaviestFirst(u)
    BY <1>1 DEF Merged
  <1>3. ASSUME NEW i \in 1..k
        PROVE  /\ k + 1 - i \in 1..k
               /\ IsPart(s[i], w, n) /\ IsPart(t[k + 1 - i], w, n)
               /\ u[i] = Joined(s[i], t[k + 1 - i])
    BY <1>1
  <1>4. \A i \in 1..k : u[i] = Joined(s[i], t[k + 1 - i])
    BY <1>3
  <1>5. u \in [1..k -> {Joined(s[i], t[k + 1 - i]) : i \in 1..k}]
    OBVIOUS
  <1>5a. DOMAIN u = 1..k
    OBVIOUS
  <1> HIDE DEF u
  <1>6. ASSUME NEW i \in 1..k
        PROVE  /\ IsPart(u[i], w, n)
               /\ u[i].sum = s[i].sum + t[k + 1 - i].sum
               /\ Len(u[i].items) = Len(s[i].items) + Len(t[k + 1 - i].items)
               /\ \A a \in 1..Len(s[i].items) : u[i].items[a] = s[i].items[a]
               /\ \A b \in 1..Len(t[k + 1 - i].items) :
                      u[i].items[Len(s[i].items) + b] = t[k + 1 - i].items[b]
    <2>1. PICK p, q : p = s[i] /\ q = t[k + 1 - i]
      OBVIOUS
    <2>2. IsPart(p, w, n) /\ IsPart(q, w, n) /\ u[i] = Joined(p, q)
      BY <1>3, <2>1
    <2>4. PICK j : j = Joined(p, q)
      OBVIOUS
    <2>5. IsPart(j, w, n) /\ IsJoin(j, p, q)
      BY <2>2, <2>4, JoinedPart
    <2>3. u[i] = j
      BY <2>2, <2>4
    <2> QED BY ONLY <2>1, <2>3, <2>5 DEF IsJoin
  <1>7. ASSUME NEW i \in 1..k
        PROVE  /\ s[i].sum \in Nat /\ t[i].sum \in Nat
               /\ Len(s[i].items) \in Nat /\ Len(t[i].items) \in Nat
    BY <1>1, PartType
  \* An item of a joined set is one of the two.
  <1>8. ASSUME NEW i \in 1..k, NEW a \in 1..Len(u[i].items)
        PROVE  \/ a \in 1..Len(s[i].items) /\ u[i].items[a] = s[i].items[a]
               \/ \E b \in 1..Len(t[k + 1 - i].items) :
                     a = Len(s[i].items) + b /\ u[i].items[a] = t[k + 1 - i].items[b]
    <2>1. PICK l \in Nat, m \in Nat : l = Len(s[i].items) /\ m = Len(t[k + 1 - i].items)
      BY <1>3, <1>7
    <2>2. a \in 1..l + m
      BY <1>6, <2>1
    <2>3. CASE a \in 1..l
      BY <1>6, <2>1, <2>3
    <2>4. CASE a \notin 1..l
      <3>1. PICK b \in 1..m : a = l + b
        <4>1. a - l \in 1..m /\ a = l + (a - l)
          BY <2>2, <2>4
        <4> QED BY <4>1
      <3> QED BY <1>6, <2>1, <3>1
    <2> QED BY <2>3, <2>4
  <1>9. ASSUME NEW x PROVE Holds(u, k, x) <=> Holds(s, k, x) \/ Holds(t, k, x)
    <2>1. ASSUME Holds(u, k, x) PROVE Holds(s, k, x) \/ Holds(t, k, x)
      <3>1. PICK i \in 1..k : \E a \in 1..Len(u[i].items) : u[i].items[a] = x
        BY <2>1 DEF Holds
      <3>2. PICK a \in 1..Len(u[i].items) : u[i].items[a] = x
        BY <3>1
      <3>3. k + 1 - i \in 1..k
        BY <1>3
      <3>4. CASE a \in 1..Len(s[i].items) /\ u[i].items[a] = s[i].items[a]
        BY <3>2, <3>4 DEF Holds
      <3>5. CASE \E b \in 1..Len(t[k + 1 - i].items) : u[i].items[a] = t[k + 1 - i].items[b]
        BY <3>2, <3>3, <3>5 DEF Holds
      <3> QED BY <1>8, <3>4, <3>5
    <2>2. ASSUME Holds(s, k, x) PROVE Holds(u, k, x)
      <3>1. PICK i \in 1..k : \E a \in 1..Len(s[i].items) : s[i].items[a] = x
        BY <2>2 DEF Holds
      <3>2. PICK a \in 1..Len(s[i].items) : s[i].items[a] = x
        BY <3>1
      <3>3. u[i].items[a] = x
        BY <1>6, <3>2
      <3>4. PICK l \in Nat, m \in Nat : l = Len(s[i].items) /\ m = Len(t[k + 1 - i].items)
        BY <1>3, <1>7
      <3>5. Len(u[i].items) = l + m
        BY <1>6, <3>4
      <3>6. a \in 1..Len(u[i].items)
        <4>1. a \in 1..l
          BY <3>4
        <4>2. a \in 1..l + m
          BY ONLY <4>1, l \in Nat, m \in Nat
        <4> QED BY ONLY <3>5, <4>2
      <3> QED BY <3>3, <3>6 DEF Holds
    <2>3. ASSUME Holds(t, k, x) PROVE Holds(u, k, x)
      <3>1. PICK i \in 1..k : \E a \in 1..Len(t[i].items) : t[i].items[a] = x
        BY <2>3 DEF Holds
      <3>2. PICK a \in 1..Len(t[i].items) : t[i].items[a] = x
        BY <3>1
      <3>a. PICK j \in 1..k : k + 1 - j = i
        <4>1. k + 1 - i \in 1..k /\ k + 1 - (k + 1 - i) = i
          OBVIOUS
        <4> QED BY <4>1
      <3>4. PICK l \in Nat, m \in Nat : l = Len(s[j].items) /\ m = Len(t[i].items)
        BY <1>7
      <3>3. u[j].items[l + a] = x
        BY <1>6, <3>2, <3>a, <3>4
      <3>5. Len(u[j].items) = l + m
        BY <1>6, <3>4, <3>a
      <3>6. l + a \in 1..Len(u[j].items)
        <4>1. a \in 1..m
          BY <3>4
        <4>2. l + a \in 1..l + m
          BY ONLY <4>1, l \in Nat, m \in Nat
        <4> QED BY ONLY <3>5, <4>2
      <3> QED BY <3>3, <3>6 DEF Holds
    <2> QED BY <2>1, <2>2, <2>3
  <1>10. Apart(u, k)
    <2> SUFFICES ASSUME NEW i \in 1..k, NEW j \in 1..k,
                        NEW a \in 1..Len(u[i].items), NEW b \in 1..Len(u[j].items),
                        u[i].items[a] = u[j].items[b]
                 PROVE  i = j /\ a = b
      BY DEF Apart
    <2>0. k + 1 - i \in 1..k /\ k + 1 - j \in 1..k
      BY <1>3
    <2>a. PICK x : x = u[i].items[a] /\ x = u[j].items[b]
      OBVIOUS
    <2>b. ~(Holds(s, k, x) /\ Holds(t, k, x))
      OBVIOUS
    <2>1. CASE /\ a \in 1..Len(s[i].items) /\ u[i].items[a] = s[i].items[a]
               /\ b \in 1..Len(s[j].items) /\ u[j].items[b] = s[j].items[b]
      <3>1. s[i].items[a] = s[j].items[b]
        BY <2>1
      <3> QED BY ONLY <1>1, <2>1, <3>1, i \in 1..k, j \in 1..k DEF Apart
    <2>2. CASE /\ a \in 1..Len(s[i].items) /\ u[i].items[a] = s[i].items[a]
               /\ \E c \in 1..Len(t[k + 1 - j].items) : u[j].items[b] = t[k + 1 - j].items[c]
      <3>1. Holds(s, k, x)
        BY <2>a, <2>2 DEF Holds
      <3>2. Holds(t, k, x)
        BY <2>a, <2>2, <2>0 DEF Holds
      <3> QED BY <2>b, <3>1, <3>2
    <2>3. CASE /\ b \in 1..Len(s[j].items) /\ u[j].items[b] = s[j].items[b]
               /\ \E c \in 1..Len(t[k + 1 - i].items) : u[i].items[a] = t[k + 1 - i].items[c]
      <3>1. Holds(s, k, x)
        BY <2>a, <2>3 DEF Holds
      <3>2. Holds(t, k, x)
        BY <2>a, <2>3, <2>0 DEF Holds
      <3> QED BY <2>b, <3>1, <3>2
    <2>4. CASE /\ \E c \in 1..Len(t[k + 1 - i].items) :
                     a = Len(s[i].items) + c /\ u[i].items[a] = t[k + 1 - i].items[c]
               /\ \E c \in 1..Len(t[k + 1 - j].items) :
                     b = Len(s[j].items) + c /\ u[j].items[b] = t[k + 1 - j].items[c]
      <3>1. PICK c \in 1..Len(t[k + 1 - i].items) :
                     a = Len(s[i].items) + c /\ u[i].items[a] = t[k + 1 - i].items[c]
        BY <2>4
      <3>2. PICK d \in 1..Len(t[k + 1 - j].items) :
                     b = Len(s[j].items) + d /\ u[j].items[b] = t[k + 1 - j].items[d]
        BY <2>4
      <3>3. PICK e \in 1..k, f \in 1..k : e = k + 1 - i /\ f = k + 1 - j
        BY <2>0
      <3>4. t[e].items[c] = t[f].items[d]
        BY <3>1, <3>2, <3>3
      <3>5. c \in 1..Len(t[e].items) /\ d \in 1..Len(t[f].items)
        BY <3>3
      <3>6. e = f /\ c = d
        BY ONLY <1>1, <3>4, <3>5, e \in 1..k, f \in 1..k DEF Apart
      <3>7. i = j
        BY <3>3, <3>6
      <3> QED BY <3>1, <3>2, <3>6, <3>7
    <2> QED BY <1>8, <2>1, <2>2, <2>3, <2>4
  <1>11. AreSets(u, k, w, n)
    <2>1. \A i \in 1..k : u[i] \in SetsOf(1..n)
      BY <1>6 DEF IsPart
    <2>2. u \in Seq(SetsOf(1..n)) /\ Len(u) = k
      <3>1. u \in [1..k -> SetsOf(1..n)]
        BY <1>5, <2>1
      <3> QED BY <3>1
    <2>3. u[i0].items # <<>>
      <3>1. Len(u[i0].items) = Len(s[i0].items) + Len(t[k + 1 - i0].items)
        BY <1>6
      <3>2. Len(s[i0].items) \in Nat \ {0}
        BY <1>0, <1>1, PartType
      <3>3. Len(t[k + 1 - i0].items) \in Nat
        BY <1>3, <1>7
      <3>4. Len(u[i0].items) # 0
        <4>1. PICK l \in Nat \ {0}, m \in Nat : l = Len(s[i0].items) /\ m = Len(t[k + 1 - i0].items)
          BY <3>2, <3>3
        <4>2. l + m # 0
          OBVIOUS
        <4> QED BY ONLY <3>1, <4>1, <4>2
      <3>5. Len(u[i0].items) = 0 <=> u[i0].items = <<>>
        BY <1>6, PartType
      <3> QED BY <3>4, <3>5
    <2> QED BY <1>6, <1>10, <2>2, <2>3 DEF AreSets
  <1>12. ASSUME Even(s, k), Even(t, k) PROVE Even(u, k)
    <2>1. ASSUME NEW i \in 1..k, NEW j \in 1..k PROVE Len(u[i].items) = Len(u[j].items)
      <3>1. PICK e \in 1..k, f \in 1..k : e = k + 1 - i /\ f = k + 1 - j
        BY <1>3
      <3>2. Len(s[i].items) = Len(s[j].items)
        BY ONLY <1>12, i \in 1..k, j \in 1..k DEF Even
      <3>3. Len(t[e].items) = Len(t[f].items)
        BY ONLY <1>12, e \in 1..k, f \in 1..k DEF Even
      <3>4. /\ Len(u[i].items) = Len(s[i].items) + Len(t[e].items)
            /\ Len(u[j].items) = Len(s[j].items) + Len(t[f].items)
        BY <1>6, <3>1
      <3> QED BY ONLY <3>2, <3>3, <3>4
    <2> QED BY <2>1 DEF Even
  <1>13. ASSUME NEW most \in Int, Close(s, k, most), Close(t, k, most) PROVE Close(u, k, most)
    <2>1. ASSUME NEW i \in 1..k, NEW j \in 1..k PROVE u[i].sum - u[j].sum <= most
      <3>1. PICK e \in 1..k, f \in 1..k : e = k + 1 - i /\ f = k + 1 - j
        BY <1>3
      <3>2. PICK a \in Int, b \in Int : a = s[i].sum /\ b = s[j].sum
        BY <1>7, SMTT(30)
      <3>3. PICK c \in Int, d \in Int : c = t[e].sum /\ d = t[f].sum
        BY <1>7
      <3>4. u[i].sum = a + c /\ u[j].sum = b + d
        <4>1. u[i].sum = s[i].sum + t[e].sum /\ u[j].sum = s[j].sum + t[f].sum
          BY <1>6, <3>1
        <4> QED BY ONLY <3>2, <3>3, <4>1
      <3>5. a - b <= most /\ c - d <= most
        BY ONLY <1>13, <3>2, <3>3, i \in 1..k, j \in 1..k, e \in 1..k, f \in 1..k DEF Close
      <3>6. i < j => c <= d
        <4>1. i < j => f < e
          BY <3>1
        <4> QED BY <1>1, <3>3, <4>1 DEF Descends
      <3>7. j < i => a <= b
        BY <1>1, <3>2 DEF Descends
      <3>8. i = j => a = b /\ c = d
        BY <3>1, <3>2, <3>3
      <3>9. i = j => 0 <= most
        <4>1. i = j => a - b = 0
          BY <3>8
        <4> QED BY <3>5, <4>1
      <3> QED BY <3>4, <3>5, <3>6, <3>7, <3>8, <3>9
    <2> QED BY <2>1 DEF Close
  <1>14. PICK v : v = Merged(s, t) /\ v = HeaviestFirst(u)
    BY <1>2
  <1>15. /\ IsState(v, k, w, n)
         /\ \A x : Holds(v, k, x) <=> Holds(u, k, x)
         /\ Even(u, k) => Even(v, k)
         /\ \A most : Close(u, k, most) => Close(v, k, most)
    BY <1>11, <1>14, SortKeeps
  <1>16. \A x : Holds(v, k, x) <=> Holds(s, k, x) \/ Holds(t, k, x)
    BY <1>9, <1>15
  <1>17. \A most \in Int : Close(s, k, most) /\ Close(t, k, most) => Close(v, k, most)
    BY <1>13, <1>15
  <1> QED BY <1>12, <1>14, <1>15, <1>16, <1>17

----------------------------------------------------------------------------
(* The heap of states, popped and pushed until one is left.                 *)

\* The heap holds states of disjoint sets.
IsHeap(S, k, w, n) ==
    /\ IsFiniteSet(S) /\ \A s \in S : IsState(s, k, w, n)
    /\ \A s, t \in S : \A x : Holds(s, k, x) /\ Holds(t, k, x) => s = t

\* s comes before all others.
Least(S, s) == s \in S /\ \A t \in S \ {s} : Before(s, t)

\* What a state is ordered by
HeadKeys(s, a, b, c, d) ==
    /\ a \in Int /\ b \in Int /\ c \in Int /\ d \in Int
    /\ Spread(s) = a /\ s[1].sum = b /\ Len(s[1].items) = c /\ s[1].items[1] = d
    /\ s[1].items # <<>>

\* A state has a heaviest set, which is not empty, and its keys.
LEMMA HeadOfState ==
    ASSUME NEW n, NEW w, Weighs(w, n), NEW k, NEW s, IsState(s, k, w, n)
    PROVE  /\ k \in Nat \ {0} /\ Len(s) = k
           /\ \E a, b, c, d : HeadKeys(s, a, b, c, d)
           /\ Holds(s, k, s[1].items[1])
  <1>1. /\ s \in Seq(SetsOf(1..n)) /\ Len(s) = k /\ \A i \in 1..k : IsPart(s[i], w, n)
        /\ Descends(s, k)
    BY DEF IsState, AreSets
  <1>2. PICK i \in 1..k : s[i].items # <<>>
    BY DEF IsState, AreSets
  <1>3. k \in Nat
    BY ONLY <1>1
  <1>4. k # 0 /\ 1 \in 1..k /\ k \in 1..k /\ i \in Nat /\ i >= 1
    BY <1>2, <1>3
  <1>5. s[i].sum \in Nat /\ s[i].sum # 0
    BY <1>1, <1>2, PartType
  <1>6. s[1].sum >= s[i].sum
    <2>1. CASE i = 1
      BY <1>5, <2>1
    <2>2. CASE i # 1
      BY <1>1, <1>4, <2>2 DEF Descends
    <2> QED BY <2>1, <2>2
  <1>7. PICK p : p = s[1]
    OBVIOUS
  <1>8. IsPart(p, w, n)
    BY <1>1, <1>4, <1>7
  <1>9. /\ p.sum \in Nat /\ p.items \in Seq(1..n) /\ Len(p.items) \in Nat
        /\ (p.sum = 0 <=> p.items = <<>>) /\ (Len(p.items) = 0 <=> p.items = <<>>)
    BY <1>8, PartType
  <1>10. p.sum # 0
    BY <1>5, <1>6, <1>7, <1>9
  <1>11. p.items # <<>> /\ 1 \in 1..Len(p.items)
    BY <1>9, <1>10
  <1>12. p.items[1] \in Int
    <2>0. PICK q \in Seq(1..n) : q = p.items
      BY <1>9
    <2>1. p.items[1] \in 1..n
      BY <2>0, <1>11, ElementOfSeq
    <2> QED BY <2>1
  <1>13. Holds(s, k, s[1].items[1])
    BY <1>4, <1>7, <1>11 DEF Holds
  <1>14. s[k].sum \in Nat
    BY <1>1, <1>4, PartType
  <1>15. Spread(s) \in Int
    BY <1>1, <1>7, <1>9, <1>14 DEF Spread
  <1>16. HeadKeys(s, Spread(s), s[1].sum, Len(s[1].items), s[1].items[1])
    BY <1>7, <1>9, <1>11, <1>12, <1>15 DEF HeadKeys
  <1> QED BY <1>1, <1>3, <1>4, <1>13, <1>16

\* The order of the heap is one by four keys.
LEMMA BeforeByKeys ==
    ASSUME NEW s, NEW t, NEW a, NEW b, NEW c, NEW d, HeadKeys(s, a, b, c, d),
           NEW e, NEW f, NEW g, NEW h, HeadKeys(t, e, f, g, h)
    PROVE  Before(s, t) <=> a > e \/ (a = e /\ (f < b \/ (f = b /\ (g < c \/ (g = c /\ h < d)))))
  BY DEF HeadKeys, Before, Lighter

\* On the states of a heap, which share no position, it is total and transitive.
LEMMA BeforeOrder ==
    ASSUME NEW n, NEW w, Weighs(w, n), NEW k, NEW S, IsHeap(S, k, w, n),
           NEW s \in S, NEW t \in S, NEW u \in S
    PROVE  /\ s # t => Before(s, t) \/ Before(t, s)
           /\ Before(s, t) /\ Before(t, u) => Before(s, u)
  <1>1. IsState(s, k, w, n) /\ IsState(t, k, w, n) /\ IsState(u, k, w, n)
    BY DEF IsHeap
  <1>2. PICK a, b, c, d : HeadKeys(s, a, b, c, d)
    BY <1>1, HeadOfState
  <1>3. PICK e, f, g, h : HeadKeys(t, e, f, g, h)
    BY <1>1, HeadOfState
  <1>4. PICK p, q, r, z : HeadKeys(u, p, q, r, z)
    BY <1>1, HeadOfState
  <1>5. s # t => d # h
    <2> SUFFICES ASSUME d = h PROVE s = t
      OBVIOUS
    <2>1. Holds(s, k, d) /\ Holds(t, k, d)
      <3>1. s[1].items[1] = d /\ t[1].items[1] = d
        BY <1>2, <1>3 DEF HeadKeys
      <3>2. Holds(s, k, s[1].items[1]) /\ Holds(t, k, t[1].items[1])
        BY <1>1, HeadOfState
      <3> QED BY <3>1, <3>2
    <2> QED BY <2>1 DEF IsHeap
  <1>6. Before(s, t) <=> a > e \/ (a = e /\ (f < b \/ (f = b /\ (g < c \/ (g = c /\ h < d)))))
    BY <1>2, <1>3, BeforeByKeys
  <1>7. Before(t, s) <=> e > a \/ (e = a /\ (b < f \/ (b = f /\ (c < g \/ (c = g /\ d < h)))))
    BY <1>2, <1>3, BeforeByKeys
  <1>8. Before(t, u) <=> e > p \/ (e = p /\ (q < f \/ (q = f /\ (r < g \/ (r = g /\ z < h)))))
    BY <1>3, <1>4, BeforeByKeys
  <1>9. Before(s, u) <=> a > p \/ (a = p /\ (q < b \/ (q = b /\ (r < c \/ (r = c /\ z < d)))))
    BY <1>2, <1>4, BeforeByKeys
  <1>10. /\ a \in Int /\ b \in Int /\ c \in Int /\ d \in Int
         /\ e \in Int /\ f \in Int /\ g \in Int /\ h \in Int
         /\ p \in Int /\ q \in Int /\ r \in Int /\ z \in Int
    BY <1>2, <1>3, <1>4 DEF HeadKeys
  <1>11. s # t => Before(s, t) \/ Before(t, s)
    BY ONLY <1>5, <1>6, <1>7, <1>10
  <1>12. Before(s, t) /\ Before(t, u) => Before(s, u)
    BY ONLY <1>6, <1>8, <1>9, <1>10
  <1> QED BY <1>11, <1>12

\* A heap that is not empty has a top.
LEMMA HeapTop ==
    ASSUME NEW n, NEW w, Weighs(w, n), NEW k, NEW S, IsHeap(S, k, w, n)
    PROVE  \A T \in SUBSET S : T # {} => \E s : Least(T, s)
  <1> DEFINE P == {T \in SUBSET S : T # {} => \E s : Least(T, s)}
  <1>1. {} \in P
    OBVIOUS
  <1>2. ASSUME NEW T \in SUBSET S, T # {}, \A s \in T : T \ {s} \in P
        PROVE  T \in P
    <2>1. PICK s \in T : TRUE
      BY <1>2
    <2>2. CASE T \ {s} = {}
      <3>1. Least(T, s)
        BY <2>1, <2>2 DEF Least
      <3> QED BY <3>1
    <2>3. CASE T \ {s} # {}
      <3>1. PICK t : Least(T \ {s}, t)
        BY <1>2, <2>1, <2>3
      <3>2. t \in T /\ t # s /\ t \in S /\ s \in S
        BY <1>2, <2>1, <3>1 DEF Least
      <3>3. CASE Before(t, s)
        <4>1. Least(T, t)
          BY <3>1, <3>2, <3>3 DEF Least
        <4> QED BY <4>1
      <3>4. CASE ~Before(t, s)
        <4>1. Before(s, t)
          BY <3>2, <3>4, BeforeOrder
        <4>2. ASSUME NEW u \in T \ {s} PROVE Before(s, u)
          <5>1. CASE u = t
            BY <4>1, <5>1
          <5>2. CASE u # t
            <6>1. Before(t, u) /\ u \in S
              BY <3>1, <4>2, <5>2 DEF Least
            <6> QED BY <3>2, <4>1, <6>1, BeforeOrder
          <5> QED BY <5>1, <5>2
        <4>3. Least(T, s)
          BY <2>1, <4>2 DEF Least
        <4> QED BY <4>3
      <3> QED BY <3>3, <3>4
    <2> QED BY <2>2, <2>3
  <1>3. IsFiniteSet(S)
    BY DEF IsHeap
  <1> HIDE DEF P
  <1>4. SUBSET S \subseteq P
    BY <1>1, <1>2, <1>3, SubsetInduct
  <1> QED BY <1>4 DEF P

\* The state that heappop returns, ...
TopOf(S) == CHOOSE s \in S : \A t \in S \ {s} : Before(s, t)

\* ... and the heap after two states have been popped and their merger pushed
Popped(S) ==
    LET s == TopOf(S)
        t == TopOf(S \ {s})
    IN  (S \ {s, t}) \cup {Merged(s, t)}

\* What the states of a heap hold, together
HeapHolds(S, k, x) == \E s \in S : Holds(s, k, x)

\* In every state the sets have equal sizes, ...
AllEven(S, k) == \A s \in S : Even(s, k)

\* ... or sums that differ by no more than most.
AllClose(S, k, most) == most \in Int /\ \A s \in S : Close(s, k, most)

\* What is popped was in the heap.
LEMMA TopInHeap ==
    ASSUME NEW n, NEW w, Weighs(w, n), NEW k, NEW S, IsHeap(S, k, w, n),
           NEW T, T \subseteq S, T # {}
    PROVE  TopOf(T) \in T
  <1>1. PICK s : Least(T, s)
    BY HeapTop
  <1>2. s \in T /\ \A t \in T \ {s} : Before(s, t)
    BY <1>1 DEF Least
  <1> QED BY <1>2 DEF TopOf

\* A pop and a push leave a heap with one state less and the same positions; equal sizes and
\* close sums stay.
LEMMA PoppedHeap ==
    ASSUME NEW n, NEW w, Weighs(w, n), NEW k, NEW S, IsHeap(S, k, w, n), Cardinality(S) > 1
    PROVE  /\ IsHeap(Popped(S), k, w, n) /\ Cardinality(Popped(S)) = Cardinality(S) - 1
           /\ \A x : HeapHolds(S, k, x) => HeapHolds(Popped(S), k, x)
           /\ AllEven(S, k) => AllEven(Popped(S), k)
           /\ \A most : AllClose(S, k, most) => AllClose(Popped(S), k, most)
  <1>1. IsFiniteSet(S) /\ Cardinality(S) \in Nat /\ S # {}
    BY FS_CardinalityType, FS_EmptySet DEF IsHeap
  <1>2. PICK s : s = TopOf(S)
    OBVIOUS
  <1>3. s \in S
    BY <1>1, <1>2, TopInHeap
  <1>4. /\ IsFiniteSet(S \ {s}) /\ Cardinality(S \ {s}) = Cardinality(S) - 1
    BY <1>1, <1>3, FS_RemoveElement
  <1>5. S \ {s} # {}
    BY <1>1, <1>4, FS_EmptySet
  <1>6. PICK t : t = TopOf(S \ {s})
    OBVIOUS
  <1>7. t \in S \ {s}
    <2>1. PICK T : T = S \ {s}
      OBVIOUS
    <2>2. T \subseteq S /\ T # {}
      BY <1>5, <2>1
    <2>3. TopOf(T) \in T
      BY <2>2, TopInHeap
    <2> QED BY <1>6, <2>1, <2>3
  <1>8. PICK m : m = Merged(s, t)
    OBVIOUS
  <1> DEFINE R == (S \ {s}) \ {t}
  <1>9. Popped(S) = R \cup {m}
    <2>1. Popped(S) = (S \ {s, t}) \cup {m}
      BY <1>2, <1>6, <1>8 DEF Popped
    <2> QED BY <2>1
  <1>10. IsFiniteSet(R) /\ Cardinality(R) = Cardinality(S) - 2
    <2>1. IsFiniteSet(R) /\ Cardinality(R) = Cardinality(S \ {s}) - 1
      BY <1>4, <1>7, FS_RemoveElement
    <2> QED BY <1>1, <1>4, <2>1
  <1>11. IsState(s, k, w, n) /\ IsState(t, k, w, n) /\ k \in Nat
    <2>1. IsState(s, k, w, n) /\ IsState(t, k, w, n)
      BY <1>3, <1>7 DEF IsHeap
    <2> QED BY <2>1, HeadOfState
  <1>12. \A x : ~(Holds(s, k, x) /\ Holds(t, k, x))
    BY <1>3, <1>7 DEF IsHeap
  <1>13. /\ IsState(m, k, w, n)
         /\ \A x : Holds(m, k, x) <=> Holds(s, k, x) \/ Holds(t, k, x)
         /\ Even(s, k) /\ Even(t, k) => Even(m, k)
         /\ \A most \in Int : Close(s, k, most) /\ Close(t, k, most) => Close(m, k, most)
    BY <1>8, <1>11, <1>12, MergedState
  <1>14. \A u \in R : \A x : ~(Holds(u, k, x) /\ Holds(m, k, x))
    <2>1. SUFFICES ASSUME NEW u \in R, NEW x, Holds(u, k, x), Holds(m, k, x) PROVE FALSE
      OBVIOUS
    <2>2. u \in S /\ u # s /\ u # t
      OBVIOUS
    <2>3. Holds(s, k, x) \/ Holds(t, k, x)
      BY <1>13, <2>1
    <2> QED BY <1>3, <1>7, <2>1, <2>2, <2>3 DEF IsHeap
  <1>15. m \notin R
    <2>1. Holds(m, k, m[1].items[1])
      BY <1>13, HeadOfState
    <2> QED BY <1>14, <2>1
  <1>16. \A u \in R : u \in S
    OBVIOUS
  <1>16a. \A u \in S : u \in R \/ u = s \/ u = t
    OBVIOUS
  <1> HIDE DEF R
  <1>17. IsFiniteSet(R \cup {m}) /\ Cardinality(R \cup {m}) = Cardinality(S) - 1
    <2>1. IsFiniteSet(R \cup {m}) /\ Cardinality(R \cup {m}) = Cardinality(R) + 1
      BY <1>10, <1>15, FS_AddElement
    <2> QED BY <1>1, <1>10, <2>1
  <1>18. IsHeap(R \cup {m}, k, w, n)
    <2>1. \A u \in R \cup {m} : IsState(u, k, w, n)
      BY <1>13, <1>16 DEF IsHeap
    <2>2. ASSUME NEW u \in R \cup {m}, NEW v \in R \cup {m}, NEW x, Holds(u, k, x), Holds(v, k, x)
          PROVE  u = v
      <3>1. CASE u \in R /\ v \in R
        BY <1>16, <2>2, <3>1 DEF IsHeap
      <3>2. CASE u = m \/ v = m
        BY <1>14, <2>2, <3>2
      <3> QED BY <3>1, <3>2
    <2> QED BY <1>17, <2>1, <2>2 DEF IsHeap
  <1>19. ASSUME NEW x, HeapHolds(S, k, x) PROVE HeapHolds(R \cup {m}, k, x)
    <2>1. PICK u \in S : Holds(u, k, x)
      BY <1>19 DEF HeapHolds
    <2>2. CASE u \in R
      BY <2>1, <2>2 DEF HeapHolds
    <2>3. CASE u = s \/ u = t
      BY <1>13, <2>1, <2>3 DEF HeapHolds
    <2> QED BY <1>16a, <2>2, <2>3
  <1>20. AllEven(S, k) => AllEven(R \cup {m}, k)
    BY <1>3, <1>7, <1>13, <1>16 DEF AllEven
  <1>21. ASSUME NEW most, AllClose(S, k, most) PROVE AllClose(R \cup {m}, k, most)
    <2>1. most \in Int /\ \A u \in S : Close(u, k, most)
      BY <1>21 DEF AllClose
    <2>2. Close(m, k, most)
      BY <1>3, <1>7, <1>13, <2>1
    <2> QED BY <1>16, <2>1, <2>2 DEF AllClose
  <1> QED BY <1>9, <1>17, <1>18, <1>19, <1>20, <1>21

\* Merging, step by step
Merging(start, m, g) == g = [i \in 0..m |-> IF i = 0 THEN start ELSE Popped(g[i - 1])]

\* Heaps can be merged any number of times.
LEMMA MergingExists ==
    ASSUME NEW start, NEW m \in Nat PROVE \E g : Merging(start, m, g)
  <1> DEFINE S == {l \in Nat : \E g : Merging(start, l, g)}
  <1>1. 0 \in S
    <2> DEFINE g == [i \in 0..0 |-> start]
    <2>1. g = [i \in 0..0 |-> IF i = 0 THEN start ELSE Popped(g[i - 1])]
      OBVIOUS
    <2>2. Merging(start, 0, g)
      <3> HIDE DEF g
      <3> QED BY <2>1 DEF Merging
    <2> QED BY <2>2
  <1>2. ASSUME NEW l \in Nat, l \in S PROVE l + 1 \in S
    <2>1. PICK g : Merging(start, l, g)
      BY <1>2
    <2> DEFINE h == [i \in 0..l + 1 |-> IF i = 0 THEN start ELSE Popped(g[i - 1])]
    <2>2. ASSUME NEW i \in 0..l PROVE h[i] = g[i]
      BY <2>1 DEF Merging
    <2>3. h = [i \in 0..l + 1 |-> IF i = 0 THEN start ELSE Popped(h[i - 1])]
      <3>1. ASSUME NEW i \in 0..l + 1, i # 0 PROVE h[i - 1] = g[i - 1]
        <4>1. i - 1 \in 0..l
          BY <3>1
        <4> QED BY <2>2, <4>1
      <3>2. PICK f : f = h
        OBVIOUS
      <3>3. f = [i \in 0..l + 1 |-> IF i = 0 THEN start ELSE Popped(g[i - 1])]
        BY <3>2
      <3>4. \A i \in 0..l + 1 : i # 0 => f[i - 1] = g[i - 1]
        BY <3>1, <3>2
      <3>5. f = [i \in 0..l + 1 |-> IF i = 0 THEN start ELSE Popped(f[i - 1])]
        BY ONLY <3>3, <3>4
      <3> QED BY <3>2, <3>5
    <2>4. Merging(start, l + 1, h)
      <3> HIDE DEF h
      <3> QED BY <2>3 DEF Merging
    <2> QED BY <2>4
  <1> HIDE DEF S
  <1>3. m \in S
    BY <1>1, <1>2, Induct
  <1> QED BY <1>3 DEF S

\* The heap after i merges
IsMerged(S, start, i, k, w, n) ==
    /\ IsHeap(S, k, w, n) /\ Cardinality(S) = Cardinality(start) - i
    /\ \A x : HeapHolds(start, k, x) => HeapHolds(S, k, x)
    /\ AllEven(start, k) => AllEven(S, k)
    /\ \A most : AllClose(start, k, most) => AllClose(S, k, most)

\* When a single state is left, all that was true of the first heap is true of it.
LEMMA MergingKeeps ==
    ASSUME NEW n, NEW w, Weighs(w, n), NEW k, NEW start, IsHeap(start, k, w, n), start # {},
           NEW m, m = Cardinality(start) - 1, NEW g, Merging(start, m, g)
    PROVE  IsMerged(g[m], start, m, k, w, n)
  <1>1. Cardinality(start) \in Nat \ {0} /\ m \in Nat
    BY FS_CardinalityType, FS_EmptySet DEF IsHeap
  <1> DEFINE S == {i \in Nat : i <= m => IsMerged(g[i], start, i, k, w, n)}
  <1>2. 0 \in S
    <2>1. g[0] = start
      BY <1>1 DEF Merging
    <2>2. IsMerged(start, start, 0, k, w, n)
      BY <1>1 DEF IsMerged
    <2> QED BY <2>1, <2>2
  <1>3. ASSUME NEW i \in Nat, i \in S PROVE i + 1 \in S
    <2> SUFFICES ASSUME i + 1 <= m PROVE IsMerged(g[i + 1], start, i + 1, k, w, n)
      OBVIOUS
    <2>1. PICK T : T = g[i]
      OBVIOUS
    <2>2. IsMerged(T, start, i, k, w, n)
      BY <1>1, <1>3, <2>1
    <2>3. g[i + 1] = Popped(T)
      <3>1. i + 1 \in 0..m /\ i + 1 # 0 /\ (i + 1) - 1 = i
        BY <1>1
      <3>2. g[i + 1] = Popped(g[(i + 1) - 1])
        BY <3>1 DEF Merging
      <3> QED BY <2>1, <3>1, <3>2
    <2>4. IsHeap(T, k, w, n) /\ Cardinality(T) = Cardinality(start) - i
      BY <2>2 DEF IsMerged
    <2>5. Cardinality(T) > 1
      BY <1>1, <2>4
    <2>6. PICK U : U = Popped(T)
      OBVIOUS
    <2>7. /\ IsHeap(U, k, w, n) /\ Cardinality(U) = Cardinality(T) - 1
          /\ \A x : HeapHolds(T, k, x) => HeapHolds(U, k, x)
          /\ AllEven(T, k) => AllEven(U, k)
          /\ \A most : AllClose(T, k, most) => AllClose(U, k, most)
      BY <2>4, <2>5, <2>6, PoppedHeap
    <2>8. Cardinality(U) = Cardinality(start) - (i + 1)
      BY <1>1, <2>4, <2>7
    <2>9. IsMerged(U, start, i + 1, k, w, n)
      BY ONLY <2>2, <2>7, <2>8 DEF IsMerged
    <2> QED BY <2>3, <2>6, <2>9
  <1> HIDE DEF S
  <1>4. m \in S
    BY <1>1, <1>2, <1>3, Induct
  <1> QED BY <1>1, <1>4 DEF S

----------------------------------------------------------------------------
(* The states to start from.                                                *)

\* One position in a set of its own
LEMMA SinglePart ==
    ASSUME NEW n, NEW w, Weighs(w, n), NEW x \in 1..n, NEW p, p = Single(w, x)
    PROVE  /\ IsPart(p, w, n) /\ p.sum = w[x] /\ Len(p.items) = 1 /\ p.items[1] = x
           /\ w[x] \in Int /\ w[x] > 0
  <1>1. n \in Nat /\ w \in [1..n -> Int] /\ w[x] > 0
    BY DEF Weighs
  <1>2. p.sum = w[x] /\ p.items = <<x>> /\ p = [sum |-> w[x], items |-> <<x>>]
    BY DEF Single
  <1>3. Weight(w, <<x>>) = w[x]
    BY <1>1, WeightOne
  <1>4. <<x>> \in Seq(1..n) /\ Len(<<x>>) = 1 /\ <<x>>[1] = x
    OBVIOUS
  <1>5. w[x] \in Int
    BY <1>1
  <1>6. p \in SetsOf(1..n)
    BY <1>2, <1>4, <1>5 DEF SetsOf
  <1> QED BY <1>1, <1>2, <1>3, <1>4, <1>5, <1>6 DEF IsPart

\* The empty set
NoSet == [sum |-> 0, items |-> <<>>]

\* ... which weighs nothing
LEMMA NoPart ==
    ASSUME NEW n, NEW w, Weighs(w, n)
    PROVE  IsPart(NoSet, w, n) /\ NoSet.sum = 0 /\ Len(NoSet.items) = 0
  <1>1. n \in Nat /\ w \in [1..n -> Int]
    BY DEF Weighs
  <1>2. NoSet.sum = 0 /\ NoSet.items = <<>>
    BY DEF NoSet
  <1>3. <<>> \in Seq(1..n) /\ Len(<<>>) = 0
    OBVIOUS
  <1>4. Weight(w, <<>>) = 0
    BY <1>1, <1>3, WeightNone
  <1>5. NoSet \in SetsOf(1..n)
    BY <1>3 DEF SetsOf, NoSet
  <1> QED BY <1>2, <1>3, <1>4, <1>5 DEF IsPart

\* Where to start without equal sizes: one position each
Lone(w, k, x) == [j \in 1..k |-> IF j = 1 THEN Single(w, x) ELSE NoSet]

\* It is a state and holds that position only.
LEMMA LoneState ==
    ASSUME NEW n, NEW w, Weighs(w, n), NEW k \in Nat \ {0}, NEW x \in 1..n,
           NEW s, s = Lone(w, k, x)
    PROVE  IsState(s, k, w, n) /\ \A y : Holds(s, k, y) <=> y = x
  <1>1. s = [j \in 1..k |-> IF j = 1 THEN Single(w, x) ELSE NoSet] /\ 1 \in 1..k
    BY DEF Lone
  <1>2. PICK p : p = Single(w, x)
    OBVIOUS
  <1>3. /\ IsPart(p, w, n) /\ p.sum = w[x] /\ Len(p.items) = 1 /\ p.items[1] = x
        /\ w[x] \in Int /\ w[x] > 0
    BY <1>2, SinglePart
  <1>4. /\ s[1] = p /\ \A j \in 1..k : j # 1 => s[j] = NoSet
    BY <1>1, <1>2
  <1>5. IsPart(NoSet, w, n) /\ NoSet.sum = 0 /\ Len(NoSet.items) = 0
    BY NoPart
  <1>6. s \in Seq(SetsOf(1..n)) /\ Len(s) = k
    <2>1. p \in SetsOf(1..n) /\ NoSet \in SetsOf(1..n)
      BY <1>3, <1>5 DEF IsPart
    <2>2. s = [j \in 1..k |-> IF j = 1 THEN p ELSE NoSet]
      BY <1>1, <1>2
    <2> QED BY ONLY <2>1, <2>2, k \in Nat \ {0}
  <1>7. \A j \in 1..k : IsPart(s[j], w, n)
    BY <1>3, <1>4, <1>5
  <1>8. \A j \in 1..k : \A a \in 1..Len(s[j].items) : j = 1 /\ a = 1 /\ s[j].items[a] = x
    <2>1. SUFFICES ASSUME NEW j \in 1..k, NEW a \in 1..Len(s[j].items)
                   PROVE  j = 1 /\ a = 1 /\ s[j].items[a] = x
      OBVIOUS
    <2>2. j = 1
      <3>1. SUFFICES ASSUME j # 1 PROVE FALSE
        OBVIOUS
      <3>2. a \in 1..0
        BY <1>4, <1>5, <3>1
      <3> QED BY <3>2
    <2>3. a \in 1..1
      BY <1>3, <1>4, <2>2
    <2> QED BY <1>3, <1>4, <2>2, <2>3
  <1>9. Apart(s, k)
    BY <1>8 DEF Apart
  <1>10. s[1].items # <<>>
    BY <1>3, <1>4
  <1>11. Descends(s, k)
    <2>1. \A j \in 1..k : s[j].sum \in Int /\ s[1].sum >= s[j].sum /\ (j # 1 => s[j].sum = 0)
      BY <1>3, <1>4, <1>5
    <2> QED BY <2>1 DEF Descends
  <1>12. IsState(s, k, w, n)
    BY <1>1, <1>6, <1>7, <1>9, <1>10, <1>11 DEF IsState, AreSets
  <1>13. 1 \in 1..Len(s[1].items) /\ s[1].items[1] = x
    BY <1>3, <1>4
  <1>14. \A y : Holds(s, k, y) <=> y = x
    BY <1>1, <1>8, <1>13 DEF Holds
  <1> QED BY <1>12, <1>14

\* k neighbours of the sorted list
Neighbours(w, k, up, g) == [j \in 1..k |-> Single(w, up[Cell(k, g, j)])]

\* They are disjoint sets of one position each.
LEMMA NeighbourSets ==
    ASSUME NEW n, NEW w, Weighs(w, n), NEW k, NEW m, IsGrid(n, m, k),
           NEW up, IsOrder(up, n), NEW g \in 0..m - 1, NEW u, u = Neighbours(w, k, up, g)
    PROVE  /\ AreSets(u, k, w, n) /\ Even(u, k)
           /\ \A j \in 1..k : Cell(k, g, j) \in 1..n /\ u[j].sum = w[up[Cell(k, g, j)]]
           /\ \A x : Holds(u, k, x) <=> \E j \in 1..k : x = up[Cell(k, g, j)]
  <1>0. k \in Nat \ {0}
    BY DEF IsGrid
  <1>1. /\ up \in Seq(1..n) /\ Len(up) = n
        /\ \A i, j \in 1..n : up[i] = up[j] => i = j
    BY DEF IsOrder
  <1>2. ASSUME NEW j \in 1..k PROVE Cell(k, g, j) \in 1..n /\ up[Cell(k, g, j)] \in 1..n
    <2>1. Cell(k, g, j) \in 1..n
      BY Cells
    <2> QED BY <1>1, <2>1, ElementOfSeq
  <1>3. u = [j \in 1..k |-> Single(w, up[Cell(k, g, j)])]
    BY DEF Neighbours
  <1>4. ASSUME NEW j \in 1..k
        PROVE  /\ IsPart(u[j], w, n) /\ u[j].sum = w[up[Cell(k, g, j)]] /\ Len(u[j].items) = 1
               /\ u[j].items[1] = up[Cell(k, g, j)]
    <2>1. PICK p, x : p = Single(w, x) /\ x = up[Cell(k, g, j)]
      OBVIOUS
    <2>2. u[j] = p /\ x \in 1..n
      BY <1>2, <1>3, <2>1
    <2>3. IsPart(p, w, n) /\ p.sum = w[x] /\ Len(p.items) = 1 /\ p.items[1] = x
      BY <2>1, <2>2, SinglePart
    <2> QED BY ONLY <2>1, <2>2, <2>3
  <1>5. u \in Seq(SetsOf(1..n)) /\ Len(u) = k
    <2>1. \A j \in 1..k : u[j] \in SetsOf(1..n)
      BY <1>4 DEF IsPart
    <2>2. u \in [1..k -> SetsOf(1..n)]
      BY <1>3, <2>1
    <2> QED BY ONLY <1>0, <2>2
  <1>6. \A j \in 1..k : \A a \in 1..Len(u[j].items) : a = 1
    <2> SUFFICES ASSUME NEW j \in 1..k, NEW a \in 1..Len(u[j].items) PROVE a = 1
      OBVIOUS
    <2>1. Len(u[j].items) = 1
      BY <1>4
    <2> QED BY <2>1
  <1>7. Apart(u, k)
    <2>1. SUFFICES ASSUME NEW i \in 1..k, NEW j \in 1..k,
                          NEW a \in 1..Len(u[i].items), NEW b \in 1..Len(u[j].items),
                          u[i].items[a] = u[j].items[b]
                   PROVE  i = j /\ a = b
      BY DEF Apart
    <2>2. a = 1 /\ b = 1
      BY <1>6
    <2>3. up[Cell(k, g, i)] = up[Cell(k, g, j)]
      BY <1>4, <2>1, <2>2
    <2>4. Cell(k, g, i) = Cell(k, g, j)
      BY <1>1, <1>2, <2>3
    <2> QED BY <2>2, <2>4, Cells
  <1>8. \E j \in 1..k : u[j].items # <<>>
    <2>1. 1 \in 1..k
      BY <1>0
    <2> QED BY <1>4, <2>1
  <1>9. AreSets(u, k, w, n)
    BY <1>4, <1>5, <1>7, <1>8 DEF AreSets
  <1>10. Even(u, k)
    BY <1>4 DEF Even
  <1>11. ASSUME NEW x PROVE Holds(u, k, x) <=> \E j \in 1..k : x = up[Cell(k, g, j)]
    <2>1. \A j \in 1..k : 1 \in 1..Len(u[j].items) /\ u[j].items[1] = up[Cell(k, g, j)]
      BY <1>4
    <2>2. ASSUME Holds(u, k, x) PROVE \E j \in 1..k : x = up[Cell(k, g, j)]
      <3>1. PICK j \in 1..k : \E a \in 1..Len(u[j].items) : u[j].items[a] = x
        BY <2>2 DEF Holds
      <3>2. PICK a \in 1..Len(u[j].items) : u[j].items[a] = x
        BY <3>1
      <3>3. a = 1
        BY <1>6
      <3>4. x = up[Cell(k, g, j)]
        BY <2>1, <3>2, <3>3
      <3> QED BY <3>4
    <2>3. ASSUME NEW j \in 1..k, x = up[Cell(k, g, j)] PROVE Holds(u, k, x)
      <3>1. 1 \in 1..Len(u[j].items) /\ u[j].items[1] = x
        BY <2>1, <2>3
      <3> QED BY <3>1 DEF Holds
    <2> QED BY <2>2, <2>3
  <1> QED BY <1>2, <1>4, <1>9, <1>10, <1>11

\* A heap to start from
IsStart(S, k, w, n) ==
    IsHeap(S, k, w, n) /\ S # {} /\ \A x \in 1..n : HeapHolds(S, k, x)

\* Without equal sizes, the first states make a heap with all positions.
LEMMA StartUneven ==
    ASSUME NEW n, NEW w, Weighs(w, n), n > 0, NEW k \in Nat \ {0},
           NEW S, S = FirstStates(w, k, FALSE)
    PROVE  IsStart(S, k, w, n)
  <1>1. n \in Nat /\ Len(w) = n
    BY DEF Weighs
  <1> DEFINE f == [x \in 1..n |-> Lone(w, k, x)]
  <1>2. S = {f[x] : x \in 1..n}
    BY <1>1 DEF FirstStates, Lone, NoSet
  <1>3. \A x \in 1..n : f[x] = Lone(w, k, x)
    OBVIOUS
  <1>4. DOMAIN f = 1..n /\ f = [x \in 1..n |-> f[x]]
    OBVIOUS
  <1> HIDE DEF f
  <1>5. IsFiniteSet(S)
    <2>1. IsFiniteSet(1..n)
      BY <1>1, FS_Interval
    <2>2. IsImage(S, f, 1..n)
      BY <1>2, <1>4 DEF IsImage
    <2> QED BY <2>1, <2>2, ImageFinite
  <1>6. ASSUME NEW x \in 1..n
        PROVE  IsState(f[x], k, w, n) /\ \A y : Holds(f[x], k, y) <=> y = x
    BY <1>3, LoneState
  <1>7. ASSUME NEW s \in S, NEW t \in S, NEW x, Holds(s, k, x), Holds(t, k, x) PROVE s = t
    <2>1. PICK y \in 1..n : s = f[y]
      BY <1>2
    <2>2. PICK z \in 1..n : t = f[z]
      BY <1>2
    <2>3. x = y /\ x = z
      BY <1>6, <1>7, <2>1, <2>2
    <2> QED BY <2>1, <2>2, <2>3
  <1>8. \A s \in S : IsState(s, k, w, n)
    <2> SUFFICES ASSUME NEW s \in S PROVE IsState(s, k, w, n)
      OBVIOUS
    <2>1. PICK x \in 1..n : s = f[x]
      BY <1>2
    <2> QED BY <1>6, <2>1
  <1>9. ASSUME NEW x \in 1..n PROVE HeapHolds(S, k, x)
    <2>1. f[x] \in S /\ Holds(f[x], k, x)
      BY <1>2, <1>6
    <2> QED BY <2>1 DEF HeapHolds
  <1>10. S # {}
    <2>1. 1 \in 1..n
      BY <1>1
    <2> QED BY <1>2, <2>1
  <1> QED BY <1>5, <1>7, <1>8, <1>9, <1>10 DEF IsHeap, IsStart

\* With equal sizes as well, and each has one position in every set.
LEMMA StartEven ==
    ASSUME NEW n, NEW w, Weighs(w, n), n > 0, NEW k \in Nat \ {0}, n % k = 0,
           NEW S, S = FirstStates(w, k, TRUE), NEW up, up = Ascending(w)
    PROVE  IsStart(S, k, w, n) /\ AllEven(S, k)
  <1>1. n \in Nat /\ Len(w) = n /\ w \in [1..n -> Int]
    BY DEF Weighs
  <1>2. PICK m \in Nat : m = n \div k /\ n = m * k
    BY <1>1, Divides
  <1>2a. IsGrid(n, m, k)
    BY <1>1, <1>2 DEF IsGrid
  <1> DEFINE f == [g \in 0..m - 1 |-> HeaviestFirst(Neighbours(w, k, up, g))]
  <1>3. S = {f[g] : g \in 0..m - 1}
    <2>1. S = {HeaviestFirst(Neighbours(w, k, up, g)) : g \in 0..(Len(w) \div k) - 1}
      BY DEF FirstStates, Neighbours, Cell
    <2>2. S = {HeaviestFirst(Neighbours(w, k, up, g)) : g \in 0..m - 1}
      BY <1>1, <1>2, <2>1
    <2> QED BY <2>2
  <1>4. \A g \in 0..m - 1 : f[g] = HeaviestFirst(Neighbours(w, k, up, g))
    OBVIOUS
  <1>5. DOMAIN f = 0..m - 1 /\ f = [g \in 0..m - 1 |-> f[g]]
    OBVIOUS
  <1> HIDE DEF f
  <1>6. IsFiniteSet(S)
    <2>1. IsFiniteSet(0..m - 1)
      BY FS_Interval
    <2>2. IsImage(S, f, 0..m - 1)
      BY <1>3, <1>5 DEF IsImage
    <2> QED BY <2>1, <2>2, ImageFinite
  <1>7. IsOrder(up, n)
    BY <1>1, AscendingSorts
  <1>7a. \A i, j \in 1..n : up[i] = up[j] => i = j
    BY <1>7 DEF IsOrder
  <1>8. ASSUME NEW g \in 0..m - 1
        PROVE  /\ IsState(f[g], k, w, n) /\ Even(f[g], k)
               /\ \A x : Holds(f[g], k, x) <=> \E j \in 1..k : x = up[Cell(k, g, j)]
               /\ \A j \in 1..k : Cell(k, g, j) \in 1..n
    <2>1. PICK u : u = Neighbours(w, k, up, g)
      OBVIOUS
    <2>2. /\ AreSets(u, k, w, n) /\ Even(u, k)
          /\ \A x : Holds(u, k, x) <=> \E j \in 1..k : x = up[Cell(k, g, j)]
          /\ \A j \in 1..k : Cell(k, g, j) \in 1..n
      <3> QED BY <1>2a, <1>7, <2>1, NeighbourSets
    <2>3. PICK t : t = HeaviestFirst(u)
      OBVIOUS
    <2>4. /\ IsState(t, k, w, n) /\ \A x : Holds(t, k, x) <=> Holds(u, k, x)
          /\ Even(u, k) => Even(t, k)
      BY <2>2, <2>3, SortKeeps
    <2>5. f[g] = t
      BY <1>4, <2>1, <2>3
    <2>6. \A x : Holds(t, k, x) <=> \E j \in 1..k : x = up[Cell(k, g, j)]
      BY <2>2, <2>4
    <2> QED BY <2>2, <2>4, <2>5, <2>6
  <1>9. ASSUME NEW s \in S, NEW t \in S, NEW x, Holds(s, k, x), Holds(t, k, x) PROVE s = t
    <2>1. PICK g \in 0..m - 1 : s = f[g]
      BY <1>3
    <2>2. PICK h \in 0..m - 1 : t = f[h]
      BY <1>3
    <2>a. Holds(f[g], k, x) /\ Holds(f[h], k, x)
      BY <1>9, <2>1, <2>2
    <2>b. /\ \A y : Holds(f[g], k, y) <=> \E j \in 1..k : y = up[Cell(k, g, j)]
          /\ \A y : Holds(f[h], k, y) <=> \E j \in 1..k : y = up[Cell(k, h, j)]
      BY <1>8
    <2>3. PICK i \in 1..k : x = up[Cell(k, g, i)]
      BY ONLY <2>a, <2>b
    <2>4. PICK j \in 1..k : x = up[Cell(k, h, j)]
      BY ONLY <2>a, <2>b
    <2>5. Cell(k, g, i) \in 1..n /\ Cell(k, h, j) \in 1..n
      BY <1>8
    <2>6. Cell(k, g, i) = Cell(k, h, j)
      BY <1>7a, <2>3, <2>4, <2>5
    <2>7. g = h
      BY <1>2a, <2>6, Cells
    <2> QED BY <2>1, <2>2, <2>7
  <1>10. \A s \in S : IsState(s, k, w, n) /\ Even(s, k)
    BY <1>3, <1>8
  <1>11. ASSUME NEW x \in 1..n PROVE HeapHolds(S, k, x)
    <2>1. PICK p \in 1..n : up[p] = x
      BY <1>7 DEF IsOrder
    <2>2. PICK g \in 0..m - 1 : \E j \in 1..k : p = Cell(k, g, j)
      <3> QED BY <1>2a, Cells
    <2>3. Holds(f[g], k, x)
      BY <1>8, <2>1, <2>2
    <2> QED BY <1>3, <2>3 DEF HeapHolds
  <1>12. S # {}
    <2>1. m # 0
      BY <1>1, <1>2
    <2>2. 0 \in 0..m - 1
      BY <2>1
    <2> QED BY <1>3, <2>2
  <1> QED BY <1>6, <1>9, <1>10, <1>11, <1>12 DEF IsHeap, IsStart, AllEven

----------------------------------------------------------------------------
(* What the method ends with.                                               *)

\* What the method ends with
IsFinal(s, w, k, n, equalSize) ==
    /\ IsState(s, k, w, n) /\ \A x \in 1..n : Holds(s, k, x)
    /\ equalSize => Even(s, k)
    /\ \A most : AllClose(FirstStates(w, k, equalSize), k, most) => Close(s, k, most)

\* KarmarkarKarp ends with one state, that has all positions.
LEMMA KarmarkarKarpState ==
    ASSUME NEW n, NEW w, Weighs(w, n), n > 0, NEW k \in Nat \ {0},
           NEW equalSize \in BOOLEAN, equalSize => n % k = 0,
           NEW parts, parts = KarmarkarKarp(w, k, equalSize)
    PROVE  \E s : IsFinal(s, w, k, n, equalSize) /\ parts = [i \in 1..k |-> s[i].items]
  <1>1. PICK start : start = FirstStates(w, k, equalSize)
    OBVIOUS
  <1>2. IsStart(start, k, w, n) /\ (equalSize => AllEven(start, k))
    <2>1. CASE equalSize
      <3>1. start = FirstStates(w, k, TRUE)
        BY <1>1, <2>1
      <3> QED BY <2>1, <3>1, StartEven
    <2>2. CASE ~equalSize
      <3>1. start = FirstStates(w, k, FALSE)
        BY <1>1, <2>2
      <3> QED BY <2>2, <3>1, StartUneven
    <2> QED BY <2>1, <2>2
  <1>3. IsHeap(start, k, w, n) /\ start # {} /\ \A x \in 1..n : HeapHolds(start, k, x)
    BY <1>2 DEF IsStart
  <1>4. PICK m : m = Cardinality(start) - 1
    OBVIOUS
  <1>5. Cardinality(start) \in Nat \ {0} /\ m \in Nat
    BY <1>3, <1>4, FS_CardinalityType, FS_EmptySet DEF IsHeap
  <1> DEFINE first == FirstStates(w, k, equalSize)
             g == CHOOSE g : g = [i \in 0..Cardinality(first) - 1 |->
                                    IF i = 0 THEN first ELSE Popped(g[i - 1])]
             s == TopOf(g[Cardinality(first) - 1])
  <1>6. Merging(start, m, g)
    <2>1. \E h : Merging(start, m, h)
      BY <1>5, MergingExists
    <2>2. \E h : h = [i \in 0..m |-> IF i = 0 THEN start ELSE Popped(h[i - 1])]
      BY <2>1 DEF Merging
    <2>4. \E h : h = [i \in 0..Cardinality(first) - 1 |->
                        IF i = 0 THEN first ELSE Popped(h[i - 1])]
      BY <1>1, <1>4, <2>2
    <2>5. g = [i \in 0..Cardinality(first) - 1 |-> IF i = 0 THEN first ELSE Popped(g[i - 1])]
      BY ONLY <2>4 DEF g
    <2> HIDE DEF g
    <2>3. g = [i \in 0..m |-> IF i = 0 THEN start ELSE Popped(g[i - 1])]
      BY <1>1, <1>4, <2>5
    <2> HIDE DEF g
    <2> QED BY <2>3 DEF Merging
  <1>7. parts = [i \in 1..k |-> s[i].items]
    BY DEF KarmarkarKarp, Popped, TopOf
  <1>7a. s = TopOf(g[m])
    BY <1>1, <1>4
  <1> HIDE DEF g, s, first
  <1>8. PICK T : T = g[m]
    OBVIOUS
  <1>9. IsMerged(T, start, m, k, w, n)
    BY <1>3, <1>4, <1>6, <1>8, MergingKeeps
  <1>10. /\ IsHeap(T, k, w, n) /\ Cardinality(T) = Cardinality(start) - m
         /\ \A x : HeapHolds(start, k, x) => HeapHolds(T, k, x)
         /\ AllEven(start, k) => AllEven(T, k)
         /\ \A most : AllClose(start, k, most) => AllClose(T, k, most)
    BY <1>9 DEF IsMerged
  <1>11. Cardinality(T) = 1 /\ IsFiniteSet(T)
    <2>1. Cardinality(T) = 1
      BY <1>4, <1>5, <1>10
    <2> QED BY <1>10, <2>1 DEF IsHeap
  <1>12. \E t : T = {t}
    BY <1>11, FS_Singleton
  <1>13. s \in T
    <2>1. T # {}
      BY <1>12
    <2>2. TopOf(T) \in T
      BY <1>10, <2>1, TopInHeap
    <2> QED BY <1>7a, <1>8, <2>2
  <1>14. T = {s}
    BY <1>12, <1>13
  <1>15. IsState(s, k, w, n)
    BY <1>10, <1>13 DEF IsHeap
  <1>16. ASSUME NEW x \in 1..n PROVE Holds(s, k, x)
    BY <1>3, <1>10, <1>14 DEF HeapHolds
  <1>17. equalSize => Even(s, k)
    BY <1>2, <1>10, <1>13 DEF AllEven
  <1>18. \A most : AllClose(start, k, most) => Close(s, k, most)
    BY <1>10, <1>13 DEF AllClose
  <1>19. IsFinal(s, w, k, n, equalSize)
    BY <1>1, <1>15, <1>16, <1>17, <1>18 DEF IsFinal
  <1> QED BY <1>7, <1>19

\* Parts with loads that differ by no more than most
CloseParts(parts, w, k, most) ==
    \A d, e \in 1..k : Weight(w, parts[d]) - Weight(w, parts[e]) <= most

\* What BalancedPartitions promises
IsBalanced(parts, w, k, n, equalSize) ==
    /\ IsPartition(parts, k, n)
    /\ \A d \in 1..k : \A i, j \in 1..Len(parts[d]) : i < j => parts[d][i] < parts[d][j]
    /\ equalSize => \A d, e \in 1..k : Len(parts[d]) = Len(parts[e])
    /\ \A most : AllClose(FirstStates(w, k, equalSize), k, most) => CloseParts(parts, w, k, most)

\* get_seqlen_balanced_partitions puts every position in exactly one of k parts, in ascending
\* order; with equal_size the parts have equal sizes, and loads that differ by no more than the
\* sums of the states it starts from.
THEOREM BalancedPartition ==
    ASSUME NEW n, NEW w, Weighs(w, n), n > 0, NEW k \in Nat \ {0},
           NEW equalSize \in BOOLEAN, equalSize => n % k = 0,
           NEW parts, parts = BalancedPartitions(w, k, equalSize)
    PROVE  IsBalanced(parts, w, k, n, equalSize)
  <1>1. PICK rough : rough = KarmarkarKarp(w, k, equalSize)
    OBVIOUS
  <1>2. PICK s : IsFinal(s, w, k, n, equalSize) /\ rough = [i \in 1..k |-> s[i].items]
    BY <1>1, KarmarkarKarpState
  <1>3. parts = [i \in 1..k |-> Sorted(rough[i], <)]
    BY <1>1 DEF BalancedPartitions
  <1>4. /\ \A i \in 1..k : IsPart(s[i], w, n)
        /\ Apart(s, k) /\ \A x \in 1..n : Holds(s, k, x)
        /\ equalSize => Even(s, k)
    BY <1>2 DEF IsFinal, IsState, AreSets
  <1>5. ASSUME NEW i \in 1..k
        PROVE  /\ parts[i] \in Seq(1..n) /\ Len(parts[i]) = Len(s[i].items)
               /\ \A p \in 1..Len(parts[i]) : \E q \in 1..Len(s[i].items) : parts[i][p] = s[i].items[q]
               /\ \A q \in 1..Len(s[i].items) : \E p \in 1..Len(parts[i]) : parts[i][p] = s[i].items[q]
               /\ \A p, q \in 1..Len(parts[i]) : parts[i][p] = parts[i][q] => p = q
               /\ \A p, q \in 1..Len(parts[i]) : p < q => parts[i][p] < parts[i][q]
    <2>1. PICK x : x = s[i].items
      OBVIOUS
    <2>2. x \in Seq(1..n) /\ Len(x) \in Nat
      BY <1>4, <2>1, PartType
    <2>3. PICK t : t = Sorted(x, <)
      OBVIOUS
    <2>4. parts[i] = t
      BY <1>2, <1>3, <2>1, <2>3
    <2>5. PICK A : A = 1..n
      OBVIOUS
    <2>6. A \subseteq Int /\ x \in Seq(A)
      BY <2>2, <2>5
    <2>7. /\ t \in Seq(A) /\ \E at : Reordered(t, x, at, Len(x))
          /\ \A p, q \in 1..Len(x) : p < q => t[p] <= t[q]
      BY <2>3, <2>6, SortedInts
    <2>8. PICK at : Reordered(t, x, at, Len(x))
      BY <2>7
    <2>9. PICK l \in Nat : l = Len(x)
      BY <2>2
    <2>10. Reordered(t, x, at, l)
      BY <2>8, <2>9
    <2>11. /\ Len(t) = l /\ \A p \in 1..l : at[p] \in 1..l /\ t[p] = x[at[p]]
           /\ \A p, q \in 1..l : at[p] = at[q] => p = q
           /\ \A q \in 1..l : \E p \in 1..l : at[p] = q
      BY <2>10, ReorderedType, SMTT(30)
    <2>12. \A a, b \in 1..l : x[a] = x[b] => a = b
      BY <1>4, <2>1, <2>9 DEF Apart
    <2>13. \A p, q \in 1..l : t[p] = t[q] => p = q
      <3> SUFFICES ASSUME NEW p \in 1..l, NEW q \in 1..l, t[p] = t[q] PROVE p = q
        OBVIOUS
      <3>a. \A r \in 1..l : at[r] \in 1..l /\ t[r] = x[at[r]]
        BY ONLY <2>11
      <3>1. PICK a \in 1..l : a = at[p] /\ t[p] = x[a]
        BY ONLY <3>a, p \in 1..l
      <3>2. PICK b \in 1..l : b = at[q] /\ t[q] = x[b]
        BY ONLY <3>a, q \in 1..l
      <3>3. a = b
        BY <2>12, <3>1, <3>2
      <3>4. at[p] = at[q]
        BY <3>1, <3>2, <3>3
      <3>5. \A r, u \in 1..l : at[r] = at[u] => r = u
        BY ONLY <2>11
      <3> QED BY ONLY <3>4, <3>5, p \in 1..l, q \in 1..l
    <2>14. ASSUME NEW p \in 1..l, NEW q \in 1..l, p < q PROVE t[p] < t[q]
      <3>1. t[p] <= t[q]
        BY <2>7, <2>9, <2>14
      <3>2. t[p] # t[q]
        BY <2>13, <2>14
      <3>3. t[p] \in A /\ t[q] \in A
        BY <2>7, <2>9, <2>11, ElementOfSeq
      <3>4. PICK a \in Int, b \in Int : a = t[p] /\ b = t[q]
        BY <2>6, <3>3
      <3> QED BY ONLY <3>1, <3>2, <3>4
    <2>15. \A p \in 1..l : \E q \in 1..l : t[p] = x[q]
      BY <2>11
    <2>16. \A q \in 1..l : \E p \in 1..l : t[p] = x[q]
      <3> SUFFICES ASSUME NEW q \in 1..l PROVE \E p \in 1..l : t[p] = x[q]
        OBVIOUS
      <3>1. PICK p \in 1..l : at[p] = q
        BY <2>11
      <3> QED BY <2>11, <3>1
    <2>17. t \in Seq(1..n)
      BY <2>5, <2>7
    <2> QED BY ONLY <2>1, <2>4, <2>9, <2>11, <2>13, <2>14, <2>15, <2>16, <2>17
  <1>6. parts \in [1..k -> Seq(1..n)]
    BY <1>3, <1>5
  <1>7. ASSUME NEW d \in 1..k, NEW e \in 1..k, NEW i \in 1..Len(parts[d]), NEW j \in 1..Len(parts[e]),
               parts[d][i] = parts[e][j]
        PROVE  d = e /\ i = j
    <2>0. \A x \in 1..k : \A p \in 1..Len(parts[x]) : \E q \in 1..Len(s[x].items) : parts[x][p] = s[x].items[q]
      BY ONLY <1>5
    <2>1. PICK a \in 1..Len(s[d].items) : parts[d][i] = s[d].items[a]
      BY ONLY <2>0, d \in 1..k, i \in 1..Len(parts[d])
    <2>2. PICK b \in 1..Len(s[e].items) : parts[e][j] = s[e].items[b]
      BY ONLY <2>0, e \in 1..k, j \in 1..Len(parts[e])
    <2>3. s[d].items[a] = s[e].items[b]
      BY <1>7, <2>1, <2>2
    <2>4. d = e
      BY <1>4, <2>3 DEF Apart
    <2>5. j \in 1..Len(parts[d]) /\ parts[d][i] = parts[d][j]
      BY <1>7, <2>4
    <2> QED BY <1>5, <2>4, <2>5
  <1>8. ASSUME NEW x \in 1..n PROVE \E d \in 1..k : \E i \in 1..Len(parts[d]) : parts[d][i] = x
    <2>1. PICK d \in 1..k : \E a \in 1..Len(s[d].items) : s[d].items[a] = x
      BY <1>4 DEF Holds
    <2>2. PICK a \in 1..Len(s[d].items) : s[d].items[a] = x
      BY <2>1
    <2>3. \E i \in 1..Len(parts[d]) : parts[d][i] = s[d].items[a]
      BY <1>5, ZenonT(40)
    <2> QED BY <2>2, <2>3
  <1>9. IsPartition(parts, k, n)
    BY <1>6, <1>7, <1>8 DEF IsPartition
  <1>10. equalSize => \A d, e \in 1..k : Len(parts[d]) = Len(parts[e])
    <2> SUFFICES ASSUME equalSize, NEW d \in 1..k, NEW e \in 1..k PROVE Len(parts[d]) = Len(parts[e])
      OBVIOUS
    <2>1. Len(s[d].items) = Len(s[e].items)
      BY <1>4 DEF Even
    <2> QED BY <1>5, <2>1
  <1>11. \A d \in 1..k : \A i, j \in 1..Len(parts[d]) : i < j => parts[d][i] < parts[d][j]
    BY <1>5
  <1>12. n \in Nat /\ w \in [1..n -> Int]
    BY DEF Weighs
  <1>13. ASSUME NEW i \in 1..k PROVE Weight(w, parts[i]) = s[i].sum /\ s[i].sum \in Int
    <2>1. PICK x : x = s[i].items
      OBVIOUS
    <2>2. x \in Seq(1..n) /\ s[i].sum = Weight(w, x) /\ s[i].sum \in Int
      BY <1>4, <2>1, PartType DEF IsPart
    <2>3. \A a, b \in 1..Len(x) : x[a] = x[b] => a = b
      BY <1>4, <2>1 DEF Apart
    <2>4. PICK t \in Seq(1..n) : t = parts[i]
      BY <1>5
    <2>5. /\ \A p \in 1..Len(t) : \E q \in 1..Len(x) : t[p] = x[q]
          /\ \A q \in 1..Len(x) : \E p \in 1..Len(t) : t[p] = x[q]
          /\ \A p, q \in 1..Len(t) : t[p] = t[q] => p = q
      BY <1>5, <2>1, <2>4
    <2>6. Members(t) = Members(x)
      <3>1. \A p \in 1..Len(t) : t[p] \in {x[q] : q \in 1..Len(x)}
        BY ONLY <2>5
      <3>2. \A q \in 1..Len(x) : x[q] \in {t[p] : p \in 1..Len(t)}
        BY ONLY <2>5
      <3> QED BY ONLY <3>1, <3>2 DEF Members
    <2>a. n \in Nat /\ w \in [1..n -> Int]
      BY <1>12
    <2>b. NoTwice(t) /\ NoTwice(x)
      BY ONLY <2>3, <2>5 DEF NoTwice
    <2>c. x \in Seq(1..n)
      BY <2>2
    <2>7. Weight(w, t) = Iter(w)[Members(t)]
      BY ONLY <2>a, <2>b, t \in Seq(1..n), WeightOfSet
    <2>8. Weight(w, x) = Iter(w)[Members(x)]
      BY ONLY <2>a, <2>b, <2>c, WeightOfSet
    <2> QED BY ONLY <2>2, <2>4, <2>6, <2>7, <2>8
  <1>14. ASSUME NEW most, AllClose(FirstStates(w, k, equalSize), k, most)
         PROVE  CloseParts(parts, w, k, most)
    <2>1. Close(s, k, most) /\ most \in Int
      BY <1>2, <1>14 DEF IsFinal, AllClose
    <2> QED BY ONLY <1>13, <2>1 DEF CloseParts, Close
  <1> QED BY <1>9, <1>10, <1>11, <1>14 DEF IsBalanced

----------------------------------------------------------------------------
(* Micro-batches: their order, and putting outputs back.                    *)

\* The heavy in the middle, or the light at both ends
Inside(s) == Reverse(EveryOther(s, 1)) \o EveryOther(s, 2)
Outside(s) == EveryOther(s, 1) \o Reverse(EveryOther(s, 2))

\* EveryOther and Reverse rearrange a sequence, light or heavy outside.
LEMMA HalvesJoin ==
    ASSUME NEW A, NEW s \in Seq(A), NEW l \in Nat, l = Len(s)
    PROVE  /\ Inside(s) \in Seq(A) /\ \E at : Reordered(Inside(s), s, at, l)
           /\ Outside(s) \in Seq(A) /\ \E at : Reordered(Outside(s), s, at, l)
  <1> DEFINE a == (l + 1) \div 2
             b == l \div 2
             x == EveryOther(s, 1)
             y == EveryOther(s, 2)
  <1>1. a \in Nat /\ b \in Nat /\ a + b = l /\ b <= a /\ a <= b + 1
    OBVIOUS
  <1>2. x = [i \in 1..a |-> s[2 * i - 1]] /\ y = [i \in 1..b |-> s[2 * i]]
    <2>1. (l - 1) \div 2 + 1 = a /\ (l - 2) \div 2 + 1 = b
      OBVIOUS
    <2>2. \A i \in 1..a : 1 + 2 * (i - 1) = 2 * i - 1
      OBVIOUS
    <2>3. \A i \in 1..b : 2 + 2 * (i - 1) = 2 * i
      OBVIOUS
    <2>4. x = [i \in 1..(l - 1) \div 2 + 1 |-> s[1 + 2 * (i - 1)]]
          /\ y = [i \in 1..(l - 2) \div 2 + 1 |-> s[2 + 2 * (i - 1)]]
      BY DEF EveryOther
    <2> HIDE DEF x, y, a, b
    <2> QED BY ONLY <2>1, <2>2, <2>3, <2>4
  <1>3. /\ \A i \in 1..a : 2 * i - 1 \in 1..l
        /\ \A i \in 1..b : 2 * i \in 1..l
    OBVIOUS
  <1>4. \A i \in 1..l : s[i] \in A
    BY ElementOfSeq
  <1> HIDE DEF x, y, a, b
  <1>5. x \in Seq(A) /\ Len(x) = a /\ y \in Seq(A) /\ Len(y) = b
    <2>1. x \in [1..a -> A] /\ y \in [1..b -> A]
      BY <1>2, <1>3, <1>4
    <2> QED BY ONLY <1>1, <2>1
  <1>6. /\ Reverse(x) \in Seq(A) /\ Len(Reverse(x)) = a
        /\ \A i \in 1..a : Reverse(x)[i] = x[a - i + 1]
        /\ Reverse(y) \in Seq(A) /\ Len(Reverse(y)) = b
        /\ \A i \in 1..b : Reverse(y)[i] = y[b - i + 1]
    <2>1. /\ \A i \in 1..a : a - i + 1 \in 1..a /\ x[a - i + 1] \in A
          /\ \A i \in 1..b : b - i + 1 \in 1..b /\ y[b - i + 1] \in A
      BY <1>1, <1>5
    <2>2. /\ Reverse(x) = [i \in 1..a |-> x[a - i + 1]]
          /\ Reverse(y) = [i \in 1..b |-> y[b - i + 1]]
      BY <1>5 DEF Reverse
    <2> QED BY ONLY <1>1, <2>1, <2>2
  <1>7. Inside(s) \in Seq(A) /\ \E at : Reordered(Inside(s), s, at, l)
    <2> DEFINE u == Inside(s)
               at == [p \in 1..l |-> IF p <= a THEN 2 * (a - p + 1) - 1 ELSE 2 * (p - a)]
    <2>1. /\ u \in Seq(A) /\ Len(u) = l
          /\ \A p \in 1..a : u[p] = x[a - p + 1]
          /\ \A p \in 1..b : u[a + p] = y[p]
      <3>1. u = Reverse(x) \o y
        BY DEF Inside, x, y
      <3>2. PICK e \in Seq(A), f \in Seq(A) : e = Reverse(x) /\ f = y
        BY <1>5, <1>6
      <3>3. Len(e) = a /\ Len(f) = b
        BY <1>5, <1>6, <3>2
      <3>4. /\ e \o f \in Seq(A) /\ Len(e \o f) = a + b
            /\ \A p \in 1..a : (e \o f)[p] = e[p]
            /\ \A p \in 1..b : (e \o f)[a + p] = f[p]
        BY ONLY <3>3, e \in Seq(A), f \in Seq(A), SMTT(30)
      <3>5. u = e \o f
        BY <3>1, <3>2
      <3> HIDE DEF u
      <3> QED BY <1>1, <1>6, <3>2, <3>4, <3>5
    <2>2. at \in [1..l -> 1..l]
      BY <1>1
    <2>3. \A p, q \in 1..l : at[p] = at[q] => p = q
      BY <1>1
    <2>4. ASSUME NEW p \in 1..l PROVE u[p] = s[at[p]]
      <3>1. CASE p <= a
        <4>1. p \in 1..a /\ a - p + 1 \in 1..a /\ at[p] = 2 * (a - p + 1) - 1
          BY <1>1, <3>1
        <4>2. x[a - p + 1] = s[2 * (a - p + 1) - 1]
          BY ONLY <1>2, <4>1
        <4> QED BY <2>1, <4>1, <4>2
      <3>2. CASE ~(p <= a)
        <4>1. p - a \in 1..b /\ a + (p - a) = p /\ at[p] = 2 * (p - a)
          BY <1>1, <3>2
        <4>2. u[a + (p - a)] = y[p - a]
          BY <2>1, <4>1
        <4>3. y[p - a] = s[2 * (p - a)]
          BY ONLY <1>2, <4>1
        <4> QED BY <4>1, <4>2, <4>3
      <3> QED BY <3>1, <3>2
    <2> HIDE DEF at, u
    <2>5. IsOrder(at, l)
      BY <2>2, <2>3, OrderFromInjection
    <2>6. Reordered(u, s, at, l)
      BY <2>1, <2>4, <2>5 DEF Reordered
    <2> QED BY <2>1, <2>6 DEF u
  <1>8. Outside(s) \in Seq(A) /\ \E at : Reordered(Outside(s), s, at, l)
    <2> DEFINE u == Outside(s)
               at == [p \in 1..l |-> IF p <= a THEN 2 * p - 1 ELSE 2 * (b - (p - a) + 1)]
    <2>1. /\ u \in Seq(A) /\ Len(u) = l
          /\ \A p \in 1..a : u[p] = x[p]
          /\ \A p \in 1..b : u[a + p] = y[b - p + 1]
      <3>1. u = x \o Reverse(y)
        BY DEF Outside, x, y
      <3>2. PICK e \in Seq(A), f \in Seq(A) : e = x /\ f = Reverse(y)
        BY <1>5, <1>6
      <3>3. Len(e) = a /\ Len(f) = b
        BY <1>5, <1>6, <3>2
      <3>4. /\ e \o f \in Seq(A) /\ Len(e \o f) = a + b
            /\ \A p \in 1..a : (e \o f)[p] = e[p]
            /\ \A p \in 1..b : (e \o f)[a + p] = f[p]
        BY ONLY <3>3, e \in Seq(A), f \in Seq(A)
      <3>5. u = e \o f
        BY <3>1, <3>2
      <3> HIDE DEF u
      <3> QED BY <1>1, <1>6, <3>2, <3>4, <3>5
    <2>2. at \in [1..l -> 1..l]
      BY <1>1
    <2>3. \A p, q \in 1..l : at[p] = at[q] => p = q
      BY <1>1
    <2>4. ASSUME NEW p \in 1..l PROVE u[p] = s[at[p]]
      <3>1. CASE p <= a
        <4>1. p \in 1..a /\ at[p] = 2 * p - 1
          BY <1>1, <3>1
        <4>2. x[p] = s[2 * p - 1]
          BY ONLY <1>2, <4>1
        <4> QED BY <2>1, <4>1, <4>2
      <3>2. CASE ~(p <= a)
        <4>1. p - a \in 1..b /\ a + (p - a) = p /\ at[p] = 2 * (b - (p - a) + 1)
          BY <1>1, <3>2
        <4>a. b - (p - a) + 1 \in 1..b
          BY <1>1, <4>1
        <4>2. u[a + (p - a)] = y[b - (p - a) + 1]
          BY <2>1, <4>1
        <4>3. y[b - (p - a) + 1] = s[2 * (b - (p - a) + 1)]
          BY ONLY <1>2, <4>a
        <4> QED BY <4>1, <4>2, <4>3
      <3> QED BY <3>1, <3>2
    <2> HIDE DEF at, u
    <2>5. IsOrder(at, l)
      BY <2>2, <2>3, OrderFromInjection
    <2>6. Reordered(u, s, at, l)
      BY <2>1, <2>4, <2>5 DEF Reordered
    <2> QED BY <2>1, <2>6 DEF u
  <1> QED BY <1>7, <1>8

\* Workloads are positive weights.
LEMMA WorkloadsWeigh ==
    ASSUME NEW n \in Nat, NEW lens \in [1..n -> Nat \ {0}], NEW w, w = Workloads(lens)
    PROVE  Weighs(w, n) /\ \A i \in 1..n : w[i] = Workload(lens[i])
  <1>1. w = [i \in 1..n |-> Workload(lens[i])]
    BY DEF Workloads
  <1>2. ASSUME NEW l \in Nat \ {0} PROVE Workload(l) \in Int /\ Workload(l) > 0
    <2>1. l * l \in Nat
      OBVIOUS
    <2> QED BY <2>1 DEF Workload
  <1>3. \A i \in 1..n : Workload(lens[i]) \in Int /\ Workload(lens[i]) > 0
    BY <1>2
  <1>4. w \in [1..n -> Int] /\ \A i \in 1..n : w[i] > 0
    BY <1>1, <1>3
  <1> QED BY <1>1, <1>4 DEF Weighs

\* The keys of the order of micro-batches
WeightKey(w, s) == [i \in 1..Len(s) |-> -Weight(w, s[i])]
StartKey(s) == [i \in 1..Len(s) |-> IF s[i] = <<>> THEN 0 ELSE -s[i][1]]
Start(p) == IF p = <<>> THEN 0 ELSE p[1]
HeavyParts(w, s) ==
    Sorted(s, LAMBDA p, q : \/ Weight(w, p) > Weight(w, q)
                            \/ Weight(w, p) = Weight(w, q) /\ Start(p) > Start(q))

\* Ordering the micro-batches rearranges them.
LEMMA HeavyPartsSorted ==
    ASSUME NEW n, NEW w, Weighs(w, n), NEW s \in Seq(Seq(1..n)), NEW t, t = HeavyParts(w, s)
    PROVE  t \in Seq(Seq(1..n)) /\ \E at : Reordered(t, s, at, Len(s))
  <1> DEFINE k == Len(s)
             a == WeightKey(w, s)
             b == StartKey(s)
             c == NoKey(s)
             Less(p, q) == \/ Weight(w, p) > Weight(w, q)
                           \/ Weight(w, p) = Weight(w, q) /\ Start(p) > Start(q)
             place == [i \in 1..k |-> 1 + Cardinality({j \in 1..k :
                           Less(s[j], s[i]) \/ (~Less(s[i], s[j]) /\ j < i)})]
  <1>1. t = SubSeq([p \in 1..k |-> s[CHOOSE i \in 1..k : place[i] = p]], 1, k)
    BY DEF HeavyParts, Sorted
  <1>2. k \in Nat /\ \A i \in 1..k : s[i] \in Seq(1..n)
    <2>1. s \in Seq(Seq(1..n))
      OBVIOUS
    <2> QED BY ONLY <2>1 DEF k
  <1>3. n \in Nat /\ w \in [1..n -> Int]
    BY DEF Weighs
  <1>4. ASSUME NEW i \in 1..k
        PROVE  /\ Weight(w, s[i]) \in Int /\ Start(s[i]) \in Int
               /\ a[i] = -Weight(w, s[i]) /\ b[i] = -Start(s[i]) /\ c[i] = 0
    <2>1. PICK x \in Seq(1..n) : x = s[i]
      BY <1>2
    <2>2. Weight(w, x) \in Int
      BY <1>3, WeightAlong
    <2>3. Start(x) \in Int
      <3>0. x \in Seq(1..n)
        OBVIOUS
      <3>1. CASE x = <<>>
        BY ONLY <3>1 DEF Start
      <3>2. CASE x # <<>>
        <4>1. 1 \in 1..Len(x)
          BY ONLY <3>0, <3>2
        <4>2. x[1] \in 1..n
          BY ONLY <3>0, <4>1, ElementOfSeq
        <4> QED BY ONLY <1>3, <3>2, <4>2 DEF Start
      <3> QED BY <3>1, <3>2
    <2>4. a[i] = -Weight(w, s[i]) /\ c[i] = 0
      BY DEF WeightKey, NoKey
    <2>5. b[i] = -Start(s[i])
      <3>1. b[i] = IF s[i] = <<>> THEN 0 ELSE -s[i][1]
        BY DEF StartKey
      <3>2. b[i] = IF x = <<>> THEN 0 ELSE -x[1]
        BY <2>1, <3>1
      <3>3. Start(x) = IF x = <<>> THEN 0 ELSE x[1]
        BY DEF Start
      <3>4. b[i] = -Start(x)
        BY ONLY <2>3, <3>2, <3>3
      <3> QED BY <2>1, <3>4
    <2> QED BY <2>1, <2>2, <2>3, <2>4, <2>5
  <1>5. Keys(k, a, b, c)
    <2>1. a = [i \in 1..k |-> a[i]] /\ b = [i \in 1..k |-> b[i]] /\ c = [i \in 1..k |-> c[i]]
      BY DEF WeightKey, StartKey, NoKey
    <2>2. \A i \in 1..k : a[i] \in Int /\ b[i] \in Int /\ c[i] \in Int
      <3> SUFFICES ASSUME NEW i \in 1..k PROVE a[i] \in Int /\ b[i] \in Int /\ c[i] \in Int
        OBVIOUS
      <3>1. PICK u \in Int, x \in Int : u = Weight(w, s[i]) /\ x = Start(s[i])
        BY <1>4
      <3>2. a[i] = -u /\ b[i] = -x /\ c[i] = 0
        BY <1>4, <3>1
      <3> QED BY ONLY <3>2, u \in Int, x \in Int
    <2> HIDE DEF a, b, c, k
    <2> QED BY <1>2, <2>1, <2>2 DEF Keys
  <1>6. ASSUME NEW i \in 1..k, NEW j \in 1..k PROVE Less(s[j], s[i]) <=> KeyLess(a, b, c, j, i)
    <2>1. PICK u \in Int, v \in Int : u = Weight(w, s[j]) /\ v = Weight(w, s[i])
      BY <1>4
    <2>2. PICK x \in Int, y \in Int : x = Start(s[j]) /\ y = Start(s[i])
      BY <1>4
    <2>3. a[j] = -u /\ a[i] = -v /\ b[j] = -x /\ b[i] = -y /\ c[j] = 0 /\ c[i] = 0
      BY <1>4, <2>1, <2>2
    <2>4. Less(s[j], s[i]) <=> u > v \/ (u = v /\ x > y)
      BY <2>1, <2>2
    <2> HIDE DEF a, b, c, Less
    <2> QED BY ONLY <2>3, <2>4, u \in Int, v \in Int, x \in Int, y \in Int DEF KeyLess
  <1> HIDE DEF a, b, c, Less
  <1>7. place = Places(k, a, b, c)
    <2>1. ASSUME NEW i \in 1..k
          PROVE  {j \in 1..k : Less(s[j], s[i]) \/ (~Less(s[i], s[j]) /\ j < i)}
                    = {j \in 1..k : KeyBefore(a, b, c, j, i)}
      BY <1>6 DEF KeyBefore
    <2> QED BY <2>1 DEF Places
  <1> HIDE DEF place
  <1>8. t = Arranged(s, a, b, c)
    BY ONLY <1>1, <1>7 DEF Arranged, k
  <1>9. PICK A : A = Seq(1..n)
    OBVIOUS
  <1>10. s \in Seq(A)
    BY <1>9
  <1>11. t \in Seq(A) /\ SortedBy(t, s, k, a, b, c)
    BY <1>5, <1>8, <1>10, SortedByKeys
  <1> QED BY <1>9, <1>11 DEF SortedBy

\* rearrange_micro_batches puts every row of a mini-batch in exactly one micro-batch.
THEOREM MicroBatchesDivide ==
    ASSUME NEW n \in Nat \ {0}, NEW lens \in [1..n -> Nat \ {0}], NEW count \in Nat \ {0},
           NEW t, t = MicroBatches(lens, count)
    PROVE  IsPartition(t, count, n)
  <1>1. PICK w : w = Workloads(lens)
    OBVIOUS
  <1>2. Weighs(w, n)
    BY <1>1, WorkloadsWeigh
  <1>3. PICK parts : parts = BalancedPartitions(w, count, FALSE)
    OBVIOUS
  <1>4. PICK equal \in BOOLEAN : equal = FALSE
    OBVIOUS
  <1>5. IsBalanced(parts, w, count, n, equal)
    <2>1. parts = BalancedPartitions(w, count, equal)
      BY <1>3, <1>4
    <2> QED BY <1>2, <1>4, <2>1, BalancedPartition
  <1>6. IsPartition(parts, count, n)
    BY <1>5 DEF IsBalanced
  <1>7. PICK heavy : heavy = HeavyParts(w, parts)
    OBVIOUS
  <1>8. parts \in [1..count -> Seq(1..n)]
    BY <1>6 DEF IsPartition
  <1>9. parts \in Seq(Seq(1..n)) /\ Len(parts) = count
    BY ONLY <1>8, count \in Nat \ {0}
  <1>10. heavy \in Seq(Seq(1..n)) /\ \E at : Reordered(heavy, parts, at, count)
    BY <1>2, <1>7, <1>9, HeavyPartsSorted
  <1>11. t = Inside(heavy)
    <2>1. t = Inside(HeavyParts(Workloads(lens), BalancedPartitions(Workloads(lens), count, FALSE)))
      BY DEF MicroBatches, HeavyParts, Start, Inside
    <2> QED BY <1>1, <1>3, <1>7, <2>1
  <1>12. PICK at : Reordered(heavy, parts, at, count)
    BY <1>10
  <1>13. count = Len(heavy) /\ count \in Nat
    BY <1>12 DEF Reordered
  <1>14. t \in Seq(Seq(1..n)) /\ \E bt : Reordered(t, heavy, bt, count)
    <2>1. PICK A : A = Seq(1..n)
      OBVIOUS
    <2>2. heavy \in Seq(A)
      BY <1>10, <2>1
    <2>3. t \in Seq(A) /\ \E bt : Reordered(t, heavy, bt, count)
      BY <1>11, <1>13, <2>2, HalvesJoin
    <2> QED BY <2>1, <2>3
  <1>15. PICK ct : Reordered(t, parts, ct, count)
    BY <1>12, <1>13, <1>14, ReorderedAgain
  <1>16. Len(t) = count
    BY <1>15 DEF Reordered
  <1>17. t \in [1..count -> Seq(1..n)]
    BY ONLY <1>14, <1>16
  <1> QED BY <1>6, <1>15, <1>17, PartsReordered

\* The first l outputs, in the order of the parts
Emitted(o, parts, v, l) == o = [p \in 1..l |-> v[FlattenSeq(parts)[p]]]

\* Outputs that come in the order of the parts are put back.
THEOREM RestoredInOrder ==
    ASSUME NEW n \in Nat, NEW m \in Nat, NEW parts, IsPartition(parts, m, n),
           NEW o, NEW v, Emitted(o, parts, v, n)
    PROVE  Restored(o, parts) = [j \in 1..n |-> v[j]]
  <1>0. PICK t : t = Restored(o, parts)
    OBVIOUS
  <1>1. PICK flat : flat = FlattenSeq(parts)
    OBVIOUS
  <1>2. IsOrder(flat, n)
    BY <1>1, FlattenPermutes
  <1>3. /\ flat \in Seq(1..n) /\ Len(flat) = n
        /\ \A x \in 1..n : \E i \in 1..n : flat[i] = x
    BY <1>2 DEF IsOrder
  <1>7. o = [p \in 1..n |-> v[flat[p]]] /\ Len(o) = n
    BY <1>1 DEF Emitted
  <1>4. t = [j \in 1..n |-> o[ReverseIdx(flat)[j]]]
    BY <1>0, <1>1, <1>7 DEF Restored
  <1>5. ReverseIdx(flat) = [j \in 1..n |-> CHOOSE q \in 1..n : flat[q] = j]
    BY <1>3 DEF ReverseIdx
  <1>6. ASSUME NEW j \in 1..n PROVE t[j] = v[j]
    <2>1. PICK i : i = CHOOSE q \in 1..n : flat[q] = j
      OBVIOUS
    <2>2. i \in 1..n /\ flat[i] = j
      BY <1>3, <2>1
    <2>3. ReverseIdx(flat)[j] = i
      BY <1>5, <2>1
    <2>4. o[i] = v[flat[i]]
      BY <1>7, <2>2
    <2> QED BY <1>4, <2>2, <2>3, <2>4
  <1> QED BY <1>0, <1>4, <1>6

----------------------------------------------------------------------------
(* Groups of neighbours, and balancing them.                                *)

\* The beginnings of groups, ascending
IsStarts(starts, S, n) ==
    /\ n \in Nat \ {0} /\ S \subseteq 1..n /\ 1 \in S
    /\ starts \in Seq(S) /\ Len(starts) = Cardinality(S)
    /\ \A g, h \in 1..Len(starts) : g < h => starts[g] < starts[h]
    /\ \A x \in S : \E g \in 1..Len(starts) : starts[g] = x

\* Sorting the beginnings gives them in ascending order, each once.
LEMMA StartsAscend ==
    ASSUME NEW n \in Nat \ {0}, NEW S, S \subseteq 1..n, 1 \in S,
           NEW starts, starts = Sorted(SetToSeq(S), <)
    PROVE  IsStarts(starts, S, n)
  <1>1. IsFiniteSet(S) /\ S \subseteq Int
    <2>0. n \in Nat \ {0} /\ S \subseteq 1..n
      OBVIOUS
    <2>1. IsFiniteSet(1..n)
      BY ONLY <2>0, FS_Interval
    <2>2. IsFiniteSet(S)
      BY ONLY <2>0, <2>1, FS_Subset
    <2> QED BY ONLY <2>0, <2>2
  <1>2. PICK s : s = SetToSeq(S)
    OBVIOUS
  <1>3. /\ s \in Seq(S) /\ Len(s) = Cardinality(S) /\ Cardinality(S) \in Nat
        /\ \A i, j \in 1..Len(s) : s[i] = s[j] => i = j
        /\ \A x \in S : \E i \in 1..Len(s) : s[i] = x
    BY ONLY <1>1, <1>2, SetInSequence
  <1>4. PICK t : t = Sorted(s, <)
    OBVIOUS
  <1>5. starts = t
    BY <1>2, <1>4
  <1>6. /\ t \in Seq(S) /\ \E at : Reordered(t, s, at, Len(s))
        /\ \A p, q \in 1..Len(s) : p < q => t[p] <= t[q]
    BY <1>1, <1>3, <1>4, SortedInts
  <1>7. PICK l \in Nat : l = Len(s)
    BY <1>3
  <1>8. PICK at : Reordered(t, s, at, l)
    BY <1>6, <1>7
  <1>9. /\ Len(t) = l
        /\ \A p \in 1..l : at[p] \in 1..l /\ t[p] = s[at[p]]
        /\ \A p, q \in 1..l : at[p] = at[q] => p = q
        /\ \A x \in 1..l : \E p \in 1..l : at[p] = x
    BY ONLY l \in Nat, <1>8, ReorderedType
  <1>10. ASSUME NEW p \in 1..l, NEW q \in 1..l, p < q PROVE t[p] < t[q]
    <2>1. t[p] <= t[q]
      BY <1>6, <1>7, <1>10
    <2>2. at[p] # at[q] /\ at[p] \in 1..l /\ at[q] \in 1..l
      <3>1. p # q
        BY ONLY <1>10, l \in Nat, p \in 1..l, q \in 1..l
      <3> QED BY <1>9, <3>1
    <2>3. s[at[p]] # s[at[q]]
      BY <1>3, <1>7, <2>2
    <2>4. t[p] # t[q]
      BY <1>9, <2>3
    <2>5. t[p] \in S /\ t[q] \in S
      BY <1>6, <1>9, ElementOfSeq
    <2>6. PICK a \in Int, b \in Int : a = t[p] /\ b = t[q]
      BY <1>1, <2>5
    <2> QED BY ONLY <2>1, <2>4, <2>6
  <1>11. ASSUME NEW x \in S PROVE \E p \in 1..l : t[p] = x
    <2>1. PICK i \in 1..l : s[i] = x
      BY <1>3, <1>7
    <2>2. PICK p \in 1..l : at[p] = i
      BY <1>9
    <2>3. t[p] = x
      BY <1>9, <2>1, <2>2
    <2> QED BY <2>3
  <1>12. Len(t) = Cardinality(S)
    BY <1>3, <1>7, <1>9
  <1>13. IsStarts(t, S, n)
    BY ONLY <1>6, <1>9, <1>10, <1>11, <1>12, n \in Nat \ {0}, S \subseteq 1..n, 1 \in S DEF IsStarts
  <1> QED BY <1>5, <1>13

\* The groups that begin there
GroupFrom(starts, n, g) ==
    LET next == IF g < Len(starts) THEN starts[g + 1] ELSE n + 1
    IN  [i \in 1..next - starts[g] |-> starts[g] + i - 1]

\* A group is a run of positions ...
IsGroup(group, first, next) ==
    /\ Len(group) = next - first /\ \A i \in 1..Len(group) : group[i] = first + i - 1

\* ... from one beginning to the next.
AreGroups(groups, m, S) ==
    \A g \in 1..m : /\ groups[g] # <<>> /\ groups[g][1] \in S
                    /\ \A i \in 1..Len(groups[g]) : groups[g][i] = groups[g][1] + i - 1
                    /\ \A i \in 1..Len(groups[g]) : i > 1 => groups[g][i] \notin S

\* The groups divide all positions, and none goes beyond the next beginning.
LEMMA GroupsDivide ==
    ASSUME NEW n, NEW S, NEW starts, IsStarts(starts, S, n), NEW m, m = Len(starts),
           NEW groups, groups = [g \in 1..m |-> GroupFrom(starts, n, g)]
    PROVE  /\ m \in Nat \ {0} /\ IsPartition(groups, m, n) /\ AreGroups(groups, m, S)
  <1>1. /\ n \in Nat \ {0} /\ S \subseteq 1..n /\ 1 \in S /\ starts \in Seq(S) /\ m \in Nat
        /\ \A g, h \in 1..m : g < h => starts[g] < starts[h]
        /\ \A x \in S : \E g \in 1..m : starts[g] = x
    BY DEF IsStarts
  <1>2. m # 0
    <2>1. PICK g \in 1..m : starts[g] = 1
      BY <1>1
    <2> QED BY <2>1
  <1>3. \A g \in 1..m : starts[g] \in S /\ starts[g] \in 1..n
    BY <1>1, ElementOfSeq
  <1> DEFINE next == [g \in 1..m |-> IF g < m THEN starts[g + 1] ELSE n + 1]
  <1>4. ASSUME NEW g \in 1..m
        PROVE  /\ next[g] \in 1..n + 1 /\ starts[g] < next[g]
               /\ next[g] = IF g < m THEN starts[g + 1] ELSE n + 1
    <2>1. CASE g < m
      <3>1. g + 1 \in 1..m
        BY <1>1, <2>1
      <3>2. starts[g + 1] \in 1..n /\ starts[g] < starts[g + 1]
        BY <1>1, <1>3, <3>1
      <3> QED BY <1>1, <2>1, <3>2
    <2>2. CASE ~(g < m)
      BY <1>1, <1>3, <2>2
    <2> QED BY <2>1, <2>2
  <1> HIDE DEF next
  <1>5. ASSUME NEW g \in 1..m
        PROVE  /\ groups[g] \in Seq(1..n) /\ Len(groups[g]) = next[g] - starts[g]
               /\ \A i \in 1..next[g] - starts[g] : groups[g][i] = starts[g] + i - 1
    <2>1. PICK a \in 1..n, b \in 1..n + 1 : a = starts[g] /\ b = next[g]
      BY <1>3, <1>4
    <2>2. groups[g] = [i \in 1..b - a |-> a + i - 1]
      <3>1. groups[g] = GroupFrom(starts, n, g)
        OBVIOUS
      <3>2. next[g] = IF g < Len(starts) THEN starts[g + 1] ELSE n + 1
        BY <1>4
      <3> QED BY ONLY <2>1, <3>1, <3>2 DEF GroupFrom
    <2>3. a < b
      BY <1>4, <2>1
    <2>4. b - a \in Nat /\ \A i \in 1..b - a : a + i - 1 \in 1..n
      BY <1>1, <2>3
    <2>5. PICK l \in Nat : l = b - a
      BY <2>4
    <2>6. groups[g] \in [1..l -> 1..n]
      BY <2>2, <2>4, <2>5
    <2>7. groups[g] \in Seq(1..n) /\ Len(groups[g]) = l
      <3>1. PICK A : A = 1..n
        OBVIOUS
      <3>2. groups[g] \in [1..l -> A]
        BY <2>6, <3>1
      <3>3. groups[g] \in Seq(A) /\ Len(groups[g]) = l
        BY ONLY <3>2, l \in Nat
      <3> QED BY <3>1, <3>3
    <2>8. \A i \in 1..b - a : groups[g][i] = a + i - 1
      BY <2>2
    <2> QED BY ONLY <2>1, <2>5, <2>7, <2>8
  \* Later groups begin where an earlier one ends, or behind.
  <1>6. ASSUME NEW g \in 1..m, NEW h \in 1..m, g < h PROVE next[g] <= starts[h]
    <2>1. g + 1 \in 1..m /\ next[g] = starts[g + 1]
      BY <1>1, <1>4, <1>6
    <2>2. CASE g + 1 = h
      <3>1. starts[h] \in Int
        BY <1>3
      <3> QED BY <2>1, <2>2, <3>1
    <2>3. CASE g + 1 # h
      <3>1. starts[g + 1] < starts[h]
        BY <1>1, <1>6, <2>1, <2>3
      <3>2. starts[g + 1] \in Int /\ starts[h] \in Int
        BY <1>3, <2>1
      <3> QED BY <2>1, <3>1, <3>2
    <2> QED BY <2>2, <2>3
  <1>7. ASSUME NEW g \in 1..m, NEW i \in 1..Len(groups[g])
        PROVE  groups[g][i] \in Int /\ groups[g][i] = starts[g] + i - 1 /\ i \in Nat \ {0}
               /\ starts[g] <= groups[g][i] /\ groups[g][i] < next[g]
    <2>1. PICK a \in 1..n, b \in 1..n + 1 : a = starts[g] /\ b = next[g]
      BY <1>3, <1>4
    <2>2. i \in 1..b - a /\ groups[g][i] = a + i - 1
      BY <1>5, <2>1
    <2> QED BY <2>1, <2>2
  <1>8. ASSUME NEW d \in 1..m, NEW e \in 1..m, NEW i \in 1..Len(groups[d]), NEW j \in 1..Len(groups[e]),
               groups[d][i] = groups[e][j]
        PROVE  d = e /\ i = j
    <2>1. /\ groups[d][i] \in Int /\ groups[d][i] = starts[d] + i - 1 /\ i \in Nat
          /\ starts[d] <= groups[d][i] /\ groups[d][i] < next[d]
      BY <1>7
    <2>2. /\ groups[e][j] \in Int /\ groups[e][j] = starts[e] + j - 1 /\ j \in Nat
          /\ starts[e] <= groups[e][j] /\ groups[e][j] < next[e]
      BY <1>7
    <2>3. /\ starts[d] \in Int /\ starts[e] \in Int /\ next[d] \in Int /\ next[e] \in Int
      BY <1>3, <1>4
    <2>4. d < e => next[d] <= starts[e]
      BY <1>6
    <2>5. e < d => next[e] <= starts[d]
      BY <1>6
    <2>6. d = e
      <3>1. ~(d < e)
        BY ONLY <1>8, <2>1, <2>2, <2>3, <2>4
      <3>2. ~(e < d)
        BY ONLY <1>8, <2>1, <2>2, <2>3, <2>5
      <3> QED BY <3>1, <3>2
    <2>7. i = j
      <3>1. PICK a \in Int, x \in Int : a = starts[d] /\ x = groups[d][i]
        BY <2>1, <2>3
      <3>2. x = a + i - 1 /\ x = a + j - 1 /\ i \in Nat /\ j \in Nat
        BY <1>8, <2>1, <2>2, <2>6, <3>1
      <3> QED BY ONLY <3>2, a \in Int, x \in Int
    <2> QED BY <2>6, <2>7
  <1>9. ASSUME NEW x \in 1..n PROVE \E d \in 1..m : \E i \in 1..Len(groups[d]) : groups[d][i] = x
    <2> DEFINE T == {d \in Nat : d \in 1..m /\ x < next[d]}
    <2>1. m \in T
      <3>1. next[m] = n + 1
        BY <1>1, <1>2, <1>4
      <3> QED BY <1>1, <1>2, <3>1
    <2>2. PICK d \in T : \A e \in T : d <= e
      <3> HIDE DEF T
      <3>1. T \subseteq Nat /\ T # {}
        BY <2>1 DEF T
      <3> QED BY <3>1, Smallest
    <2>3. d \in 1..m /\ x < next[d]
      BY <2>2
    <2>4. starts[d] <= x
      <3>1. CASE d = 1
        <4>1. PICK g \in 1..m : starts[g] = 1
          BY <1>1
        <4>2. starts[1] \in Int /\ 1 \in 1..m
          BY <1>1, <1>2, <1>3
        <4>3. g = 1 \/ 1 < g
          BY <4>1
        <4>4. 1 < g => starts[1] < starts[g]
          BY <1>1, <4>2
        <4>5. starts[1] \in 1..n
          BY <1>3, <4>2
        <4>6. starts[1] = 1
          BY <4>1, <4>3, <4>4, <4>5
        <4> QED BY <3>1, <4>6
      <3>2. CASE d # 1
        <4>1. d - 1 \in 1..m /\ d - 1 < m /\ (d - 1) + 1 = d /\ d - 1 \in Nat /\ d - 1 < d
          BY <1>1, <2>3, <3>2
        <4>2. d - 1 \notin T
          BY <2>2, <4>1
        <4>3. ~(x < next[d - 1])
          BY <4>1, <4>2
        <4>4. next[d - 1] = starts[d]
          BY <1>4, <4>1
        <4>5. starts[d] \in Int
          BY <1>3, <2>3
        <4> QED BY <4>3, <4>4, <4>5
      <3> QED BY <3>1, <3>2
    <2>5. PICK a \in Int, b \in Int : a = starts[d] /\ b = next[d]
      BY <1>3, <1>4, <2>3
    <2>6. x - a + 1 \in 1..b - a /\ a + (x - a + 1) - 1 = x
      BY <2>3, <2>4, <2>5
    <2>7. groups[d][x - a + 1] = x /\ x - a + 1 \in 1..Len(groups[d])
      BY <1>5, <2>3, <2>5, <2>6
    <2> QED BY <2>3, <2>7
  <1>10. groups \in [1..m -> Seq(1..n)]
    BY <1>5
  <1>11. IsPartition(groups, m, n)
    BY <1>8, <1>9, <1>10 DEF IsPartition
  <1>12. ASSUME NEW g \in 1..m
         PROVE  /\ groups[g] # <<>> /\ groups[g][1] \in S
                /\ \A i \in 1..Len(groups[g]) : groups[g][i] = groups[g][1] + i - 1
                /\ \A i \in 1..Len(groups[g]) : i > 1 => groups[g][i] \notin S
    <2>1. PICK a \in 1..n, b \in 1..n + 1 : a = starts[g] /\ b = next[g]
      BY <1>3, <1>4
    <2>2. Len(groups[g]) = b - a /\ a < b
      BY <1>4, <1>5, <2>1
    <2>3. groups[g] # <<>>
      BY <2>2
    <2>4. \A i \in 1..Len(groups[g]) : groups[g][i] = a + i - 1 /\ i \in Nat
      BY <1>7, <2>1
    <2>5. groups[g][1] \in S /\ \A i \in 1..Len(groups[g]) : groups[g][i] = groups[g][1] + i - 1
      <3>1. 1 \in 1..Len(groups[g])
        BY ONLY <2>2, a \in 1..n, b \in 1..n + 1
      <3>2. groups[g][1] = a
        BY ONLY <2>4, <3>1, a \in 1..n
      <3>3. a \in S
        BY <1>3, <2>1
      <3> QED BY ONLY <2>4, <3>2, <3>3
    <2>6. ASSUME NEW i \in 1..Len(groups[g]), i > 1, groups[g][i] \in S PROVE FALSE
      <3>1. PICK h \in 1..m : starts[h] = groups[g][i]
        BY <1>1, <2>6
      <3>2. i \in Nat /\ starts[h] = a + i - 1 /\ starts[h] < b /\ starts[h] > a
        <4>1. i \in Nat /\ groups[g][i] = a + i - 1 /\ groups[g][i] < b
          BY <1>7, <2>1
        <4> QED BY ONLY <3>1, <4>1, <2>6, a \in 1..n
      <3>3. ~(h < g)
        <4>1. h < g => starts[h] < a
          BY <1>1, <2>1
        <4>2. starts[h] \in Int
          BY <1>3
        <4> QED BY ONLY <3>2, <4>1, <4>2, a \in 1..n
      <3>4. h # g
        BY <2>1, <3>2
      <3>5. ~(g < h)
        <4>1. g < h => b <= starts[h]
          BY <1>6, <2>1
        <4>2. starts[h] \in Int
          BY <1>3
        <4> QED BY ONLY <3>2, <4>1, <4>2, b \in 1..n + 1
      <3> QED BY <3>3, <3>4, <3>5
    <2> QED BY <2>3, <2>5, <2>6
  <1>13. AreGroups(groups, m, S)
    BY ONLY <1>12 DEF AreGroups
  <1> QED BY <1>1, <1>2, <1>11, <1>13

\* Every part sorted
SortedAll(s, k) == [p \in 1..k |-> Sorted(s[p], <)]

\* t divides groups, which are not broken up, among k parts.
KeepsGroups(t, groups, parts, m, k, n) ==
    /\ IsPartition(groups, m, n) /\ IsPartition(parts, k, m) /\ IsPartition(t, k, n)
    /\ \A d, e \in 1..k : Len(parts[d]) = Len(parts[e])
    /\ Unbroken(t, groups, parts, k)

\* Sorting within the parts keeps the partition.
LEMMA SortedParts ==
    ASSUME NEW k \in Nat, NEW n \in Nat, NEW s, IsPartition(s, k, n),
           NEW t, t = SortedAll(s, k)
    PROVE  SameParts(t, s, k, n) /\ IsPartition(t, k, n)
  <1>1. s \in [1..k -> Seq(1..n)]
    BY DEF IsPartition
  <1>2. ASSUME NEW p \in 1..k
        PROVE  t[p] \in Seq(1..n) /\ \E at : Reordered(t[p], s[p], at, Len(s[p]))
    <2>1. PICK x \in Seq(1..n) : x = s[p]
      BY <1>1
    <2>2. PICK y : y = Sorted(x, <)
      OBVIOUS
    <2>3. PICK A : A = 1..n
      OBVIOUS
    <2>4. A \subseteq Int /\ x \in Seq(A)
      <3>1. 1..n \subseteq Int
        OBVIOUS
      <3> QED BY ONLY <2>3, <3>1, x \in Seq(1..n)
    <2>5. y \in Seq(A) /\ \E at : Reordered(y, x, at, Len(x))
      BY ONLY <2>2, <2>4, SortedInts
    <2>6. t[p] = y
      BY <2>1, <2>2 DEF SortedAll
    <2> QED BY ONLY <2>1, <2>3, <2>5, <2>6
  <1>3. t \in [1..k -> Seq(1..n)]
    <2>1. t = [p \in 1..k |-> t[p]]
      BY DEF SortedAll
    <2> QED BY ONLY <1>2, <2>1
  <1>4. SameParts(t, s, k, n)
    BY ONLY <1>2, <1>3 DEF SameParts
  <1>5. IsPartition(t, k, n)
    BY <1>4, WithinReordered
  <1> QED BY ONLY <1>4, <1>5

\* Parts that are the same but for their order hold the same groups.
LEMMA UnbrokenWithin ==
    ASSUME NEW n \in Nat, NEW k \in Nat, NEW s, IsPartition(s, k, n), NEW t, SameParts(t, s, k, n),
           NEW groups, NEW parts, Unbroken(s, groups, parts, k)
    PROVE  Unbroken(t, groups, parts, k)
  <1>1. s \in [1..k -> Seq(1..n)]
    BY DEF IsPartition
  <1>2. ASSUME NEW p \in 1..k
        PROVE  /\ \A i \in 1..Len(t[p]) : \E g \in 1..Len(parts[p]) :
                     \E j \in 1..Len(groups[parts[p][g]]) : t[p][i] = groups[parts[p][g]][j]
               /\ \A g \in 1..Len(parts[p]) : \A j \in 1..Len(groups[parts[p][g]]) :
                     \E i \in 1..Len(t[p]) : t[p][i] = groups[parts[p][g]][j]
    <2>1. PICK x \in Seq(1..n) : x = s[p]
      BY <1>1
    <2>2. PICK l \in Nat : l = Len(x)
      BY ONLY x \in Seq(1..n)
    <2>3. PICK at : Reordered(t[p], s[p], at, Len(s[p]))
      BY DEF SameParts
    <2>4. Reordered(t[p], x, at, l)
      BY ONLY <2>1, <2>2, <2>3
    <2>5. /\ Len(t[p]) = l /\ \A i \in 1..l : at[i] \in 1..l /\ t[p][i] = x[at[i]]
          /\ \A j \in 1..l : \E i \in 1..l : at[i] = j
      <3>1. /\ Len(t[p]) = l
            /\ \A i \in 1..l : at[i] \in 1..l /\ t[p][i] = x[at[i]]
            /\ \A i, j \in 1..l : at[i] = at[j] => i = j
            /\ \A j \in 1..l : \E i \in 1..l : at[i] = j
        <4>1. PICK y : y = t[p]
          OBVIOUS
        <4>2. Reordered(y, x, at, l)
          BY ONLY <2>4, <4>1
        <4>3. /\ Len(y) = l
              /\ \A i \in 1..l : at[i] \in 1..l /\ y[i] = x[at[i]]
              /\ \A i, j \in 1..l : at[i] = at[j] => i = j
              /\ \A j \in 1..l : \E i \in 1..l : at[i] = j
          <5>1. IsRearrangement(y, x, at, l)
            BY ONLY <4>2, l \in Nat, ReorderedFacts
          <5> QED BY ONLY <5>1 DEF IsRearrangement
        <4> QED BY ONLY <4>1, <4>3
      <3> QED BY ONLY <3>1
    <2>6. /\ \A i \in 1..Len(s[p]) : \E g \in 1..Len(parts[p]) :
                 \E j \in 1..Len(groups[parts[p][g]]) : s[p][i] = groups[parts[p][g]][j]
          /\ \A g \in 1..Len(parts[p]) : \A j \in 1..Len(groups[parts[p][g]]) :
                 \E i \in 1..Len(s[p]) : s[p][i] = groups[parts[p][g]][j]
      BY ONLY p \in 1..k, Unbroken(s, groups, parts, k) DEF Unbroken
    <2>7. ASSUME NEW i \in 1..Len(t[p])
          PROVE  \E g \in 1..Len(parts[p]) :
                     \E j \in 1..Len(groups[parts[p][g]]) : t[p][i] = groups[parts[p][g]][j]
      <3>1. at[i] \in 1..Len(s[p]) /\ t[p][i] = s[p][at[i]]
        BY ONLY <2>1, <2>2, <2>5, i \in 1..Len(t[p])
      <3>2. PICK e \in 1..Len(s[p]) : e = at[i]
        BY ONLY <3>1
      <3>3. \E g \in 1..Len(parts[p]) : \E j \in 1..Len(groups[parts[p][g]]) : s[p][e] = groups[parts[p][g]][j]
        BY ONLY <2>6, e \in 1..Len(s[p])
      <3> QED BY ONLY <3>1, <3>2, <3>3
    <2>8. ASSUME NEW g \in 1..Len(parts[p]), NEW j \in 1..Len(groups[parts[p][g]])
          PROVE  \E i \in 1..Len(t[p]) : t[p][i] = groups[parts[p][g]][j]
      <3>1. PICK e \in 1..Len(s[p]) : s[p][e] = groups[parts[p][g]][j]
        BY ONLY <2>6, g \in 1..Len(parts[p]), j \in 1..Len(groups[parts[p][g]])
      <3>2. PICK i \in 1..l : at[i] = e
        BY ONLY <2>1, <2>2, <2>5, e \in 1..Len(s[p])
      <3>3. i \in 1..Len(t[p]) /\ t[p][i] = s[p][e]
        BY ONLY <2>1, <2>5, <3>2, i \in 1..l
      <3> QED BY ONLY <3>1, <3>3
    <2> QED BY ONLY <2>7, <2>8
  <1> QED BY ONLY <1>2 DEF Unbroken

\* Groups start at S.
StartAt(S, uid, n) == Len(uid) = n /\ S = {i \in 1..n : i = 1 \/ uid[i] # uid[i - 1]}

\* t keeps the groups that start at S together.
Keeps(t, S, k, n) ==
    /\ Cardinality(S) \in Nat \ {0}
    /\ \E groups, parts : /\ KeepsGroups(t, groups, parts, Cardinality(S), k, n)
                          /\ AreGroups(groups, Cardinality(S), S)

\* GroupBalancedPartitions divides the groups of equal neighbours, breaks up none, and gives
\* every part as many.
LEMMA GroupsBalanced ==
    ASSUME NEW n \in Nat \ {0}, NEW w, Weighs(w, n), NEW uid, NEW k \in Nat \ {0},
           NEW S, StartAt(S, uid, n), Cardinality(S) % k = 0,
           NEW t, t = GroupBalancedPartitions(w, uid, k)
    PROVE  Keeps(t, S, k, n)
  <1>0. Len(uid) = n /\ S = {i \in 1..n : i = 1 \/ uid[i] # uid[i - 1]}
    BY DEF StartAt
  <1>1. S \subseteq 1..n /\ 1 \in S
    BY <1>0
  <1>2. PICK starts : starts = Sorted(SetToSeq(S), <)
    OBVIOUS
  <1>3. IsStarts(starts, S, n)
    BY ONLY n \in Nat \ {0}, <1>1, <1>2, StartsAscend
  <1>4. PICK m : m = Len(starts)
    OBVIOUS
  <1>5. PICK groups : groups = [g \in 1..m |-> GroupFrom(starts, n, g)]
    OBVIOUS
  <1>6. m \in Nat \ {0} /\ IsPartition(groups, m, n) /\ AreGroups(groups, m, S)
    BY ONLY <1>3, <1>4, <1>5, GroupsDivide
  <1>7. m = Cardinality(S)
    BY <1>3, <1>4 DEF IsStarts
  <1>8. PICK v : v = [g \in 1..m |-> Weight(w, groups[g])]
    OBVIOUS
  <1>9. Weighs(v, m)
    <2>1. n \in Nat /\ w \in [1..n -> Int] /\ \A i \in 1..n : w[i] > 0
      BY DEF Weighs
    <2>2. ASSUME NEW g \in 1..m PROVE Weight(w, groups[g]) \in Int /\ Weight(w, groups[g]) > 0
      <3>1. PICK x \in Seq(1..n) : x = groups[g]
        BY <1>6 DEF IsPartition
      <3>2. x # <<>>
        BY <1>6, <3>1 DEF AreGroups
      <3>3. Weight(w, x) \in Nat /\ Weight(w, x) # 0
        BY <2>1, <3>2, WeightPositive
      <3> QED BY <3>1, <3>3
    <2>3. v \in [1..m -> Int] /\ \A g \in 1..m : v[g] > 0
      BY <1>8, <2>2
    <2> QED BY <1>6, <2>3 DEF Weighs
  <1>10. PICK parts : parts = BalancedPartitions(v, k, TRUE)
    OBVIOUS
  <1>11. PICK equal \in BOOLEAN : equal = TRUE
    OBVIOUS
  <1>12. IsBalanced(parts, v, k, m, equal)
    <2>1. parts = BalancedPartitions(v, k, equal) /\ m % k = 0 /\ m > 0
      BY <1>6, <1>7, <1>10, <1>11
    <2> QED BY <1>9, <2>1, BalancedPartition
  <1>13. IsPartition(parts, k, m) /\ \A d, e \in 1..k : Len(parts[d]) = Len(parts[e])
    BY <1>11, <1>12 DEF IsBalanced
  <1>14. PICK s : s = Flattened(groups, parts, k)
    OBVIOUS
  <1>15. IsPartition(s, k, n) /\ Unbroken(s, groups, parts, k)
    <2>1. n \in Nat /\ m \in Nat /\ k \in Nat
      BY <1>6
    <2> QED BY ONLY <1>6, <1>13, <1>14, <2>1, Grouped
  <1>16. t = SortedAll(s, k)
    <2>1. Sorted(SetToSeq({i \in 1..Len(uid) : i = 1 \/ uid[i] # uid[i - 1]}), <) = starts
      BY <1>0, <1>2
    <2>2. DOMAIN parts = 1..k /\ \A p \in 1..k : DOMAIN parts[p] = 1..Len(parts[p]) /\
            \A g \in 1..Len(parts[p]) : parts[p][g] \in 1..m
      <3>1. parts \in [1..k -> Seq(1..m)]
        BY <1>13 DEF IsPartition
      <3>2. \A p \in 1..k : \A g \in 1..Len(parts[p]) : parts[p][g] \in 1..m
        BY <3>1, ElementOfSeq
      <3> QED BY <3>1, <3>2
    <2>3. \A g \in 1..m : groups[g] = GroupFrom(starts, n, g)
      BY <1>5
    <2>4. v = [g \in 1..Len(starts) |-> Weight(w, GroupFrom(starts, Len(uid), g))]
      BY <1>0, <1>4, <1>8, <2>3
    <2> DEFINE st == Sorted(SetToSeq({i \in 1..Len(uid) : i = 1 \/ uid[i] # uid[i - 1]}), <)
               vv == [g \in 1..Len(st) |-> Weight(w, GroupFrom(st, Len(uid), g))]
               pp == BalancedPartitions(vv, k, TRUE)
    <2>5. t = [p \in 1..k |-> Sorted(FlattenSeq([g \in 1..Len(pp[p]) |->
                                         GroupFrom(st, Len(uid), pp[p][g])]), <)]
      BY DEF GroupBalancedPartitions, GroupFrom
    <2>6. st = starts
      BY <2>1
    <2>7. vv = v
      BY <2>4, <2>6
    <2>8. pp = parts
      BY <1>10, <2>7
    <2> HIDE DEF pp, st, vv
    <2>9. ASSUME NEW p \in 1..k
          PROVE  FlattenSeq([g \in 1..Len(pp[p]) |-> GroupFrom(st, Len(uid), pp[p][g])]) = s[p]
      <3>1. [g \in 1..Len(pp[p]) |-> GroupFrom(st, Len(uid), pp[p][g])]
              = [g \in 1..Len(parts[p]) |-> groups[parts[p][g]]]
        <4>1. \A g \in 1..Len(parts[p]) : GroupFrom(starts, n, parts[p][g]) = groups[parts[p][g]]
          BY ONLY <2>2, <2>3, p \in 1..k
        <4>2. [g \in 1..Len(pp[p]) |-> GroupFrom(st, Len(uid), pp[p][g])]
                = [g \in 1..Len(parts[p]) |-> GroupFrom(starts, n, parts[p][g])]
          BY ONLY <1>0, <2>6, <2>8
        <4> QED BY ONLY <4>1, <4>2
      <3> QED BY <1>14, <3>1 DEF Flattened
    <2>10. ASSUME NEW p \in 1..k
           PROVE  Sorted(FlattenSeq([g \in 1..Len(pp[p]) |-> GroupFrom(st, Len(uid), pp[p][g])]), <)
                    = Sorted(s[p], <)
      BY ONLY <2>9, p \in 1..k
    <2> QED BY ONLY <2>5, <2>10 DEF SortedAll
  <1>17. SameParts(t, s, k, n) /\ IsPartition(t, k, n) /\ Unbroken(t, groups, parts, k)
    <2>1. n \in Nat /\ k \in Nat
      OBVIOUS
    <2>2. SameParts(t, s, k, n) /\ IsPartition(t, k, n)
      BY ONLY <1>15, <1>16, <2>1, SortedParts
    <2> QED BY ONLY <1>15, <2>1, <2>2, UnbrokenWithin
  <1>18. KeepsGroups(t, groups, parts, m, k, n)
    BY ONLY <1>6, <1>13, <1>17 DEF KeepsGroups
  <1> QED BY ONLY <1>6, <1>7, <1>18 DEF Keeps

----------------------------------------------------------------------------
(* Rows, shares and chunks of a batch; generation.                          *)

\* Rows of a batch, and of the share of a data parallel rank
Total == Prompts * N
Share == Total \div DpSize

\* What BatchAssumption says of the sizes.
LEMMA Sizes ==
    ASSUME BatchAssumption
    PROVE  /\ Prompts \in Nat \ {0} /\ N \in Nat \ {0} /\ DpSize \in Nat \ {0} /\ SpSize \in Nat \ {0}
           /\ AgentWorkers \in Nat \ {0} /\ RewardWorkers \in Nat \ {0} /\ MicroRows \in Nat \ {0}
           /\ MiniPrompts \in Nat \ {0} /\ MaxTokens \in Nat \ {0} /\ InferTokens \in Nat \ {0}
           /\ Epochs \in Nat \ {0}
           /\ Total \in Nat \ {0} /\ Share \in Nat \ {0} /\ MiniRows \in Nat \ {0}
           /\ Rows = 1..Total
           /\ IsGrid(Total, Prompts, N) /\ IsGrid(Total, DpSize, Share)
           /\ IsGrid(MiniPrompts * N, DpSize, MiniRows)
  <1>1. /\ Prompts \in Nat \ {0} /\ N \in Nat \ {0} /\ DpSize \in Nat \ {0} /\ SpSize \in Nat \ {0}
        /\ AgentWorkers \in Nat \ {0} /\ RewardWorkers \in Nat \ {0} /\ MicroRows \in Nat \ {0}
        /\ MiniPrompts \in Nat \ {0} /\ MaxTokens \in Nat \ {0} /\ InferTokens \in Nat \ {0}
        /\ Epochs \in Nat \ {0}
    BY DEF BatchAssumption
  <1>2. (Prompts * N) % DpSize = 0 /\ (MiniPrompts * N) % DpSize = 0
    BY DEF BatchAssumption
  <1>3. Prompts * N \in Nat \ {0} /\ MiniPrompts * N \in Nat \ {0}
    BY <1>1
  <1>4. IsGrid(Prompts * N, DpSize, Share) /\ Share \in Nat \ {0}
    BY <1>1, <1>2, <1>3, GridOf DEF Share, Total
  <1>5. IsGrid(MiniPrompts * N, DpSize, MiniRows) /\ MiniRows \in Nat \ {0}
    BY <1>1, <1>2, <1>3, GridOf DEF MiniRows
  <1>6. IsGrid(Total, Prompts, N)
    BY <1>1, <1>3 DEF IsGrid, Total
  <1> QED BY <1>1, <1>3, <1>4, <1>5, <1>6 DEF Total, Rows

\* The rows of a mini-batch cut the share of a rank into whole numbers of pieces.
LEMMA MiniSizes ==
    ASSUME BatchAssumption
    PROVE  /\ IsGrid(Share, Share \div MiniRows, MiniRows) /\ Share \div MiniRows \in Nat \ {0}
           /\ IsGrid(MiniRows, MiniRows \div MicroRows, MicroRows)
           /\ IsGrid(Share, Share \div MicroRows, MicroRows)
           /\ MiniRows \div MicroRows \in Nat \ {0} /\ Share \div MicroRows \in Nat \ {0}
  <1>1. PICK d \in Nat \ {0}, n \in Nat \ {0}, p \in Nat \ {0}, q \in Nat \ {0}, c \in Nat \ {0} :
           d = DpSize /\ n = N /\ p = Prompts /\ q = MiniPrompts /\ c = MicroRows
    BY Sizes
  <1>2. PICK s \in Nat \ {0}, m \in Nat \ {0} : s = Share /\ m = MiniRows
    BY Sizes
  <1>3. p * n = d * s /\ q * n = d * m
    BY <1>1, <1>2, Sizes DEF IsGrid, Total
  <1>4. PICK a \in Nat \ {0} : p = q * a
    <2>1. p % q = 0
      BY <1>1 DEF BatchAssumption
    <2>2. IsGrid(p, q, p \div q) /\ p \div q \in Nat \ {0}
      BY <2>1, GridOf
    <2> QED BY <2>2 DEF IsGrid
  <1>5. PICK b \in Nat \ {0} : m = b * c /\ b = m \div c
    <2>1. m % c = 0
      BY <1>1, <1>2 DEF BatchAssumption
    <2>2. IsGrid(m, c, m \div c) /\ m \div c \in Nat \ {0}
      BY <2>1, GridOf
    <2>3. PICK b \in Nat \ {0} : b = m \div c
      BY <2>2
    <2>4. m = c * b
      BY <2>2, <2>3 DEF IsGrid
    <2>5. m = b * c
      BY ONLY <2>4, b \in Nat, c \in Nat
    <2> QED BY ONLY <2>3, <2>5, b \in Nat \ {0}
  <1>6. d * s = d * (a * m)
    <2>1. p * n = a * (q * n)
      BY <1>4
    <2>2. a * (q * n) = a * (d * m)
      BY <1>3
    <2>3. a * (d * m) = d * (a * m)
      OBVIOUS
    <2> QED BY <1>3, <2>1, <2>2, <2>3
  <1>7. s = a * m
    <2>1. PICK t \in Nat \ {0} : t = a * m
      OBVIOUS
    <2>2. d * s = d * t
      BY <1>6, <2>1
    <2>3. s = t
      BY ONLY <2>2, d \in Nat \ {0}, s \in Nat, t \in Nat
    <2> QED BY <2>1, <2>3
  <1>8. PICK e \in Nat \ {0} : e = a * b /\ s = e * c
    <2>1. s = a * (b * c)
      BY ONLY <1>5, <1>7
    <2>2. a * (b * c) = (a * b) * c /\ a * b \in Nat \ {0}
      BY ONLY a \in Nat \ {0}, b \in Nat \ {0}, c \in Nat
    <2>3. PICK e \in Nat \ {0} : e = a * b
      BY ONLY <2>2
    <2> QED BY ONLY <2>1, <2>2, <2>3
  <1>9. ASSUME NEW x \in Nat \ {0}, NEW y \in Nat \ {0}, NEW z \in Nat \ {0}, x = y * z
        PROVE  x \div z = y /\ IsGrid(x, y, z)
    <2>4. x \div z = y
      <3>0. x \div z \in Nat /\ x % z \in 0..z - 1
        BY ONLY x \in Nat, z \in Nat \ {0}
      <3>1. PICK u \in Nat : u = x \div z
        BY ONLY <3>0
      <3>2. z \in Int /\ z > 0 /\ x \in Int
        OBVIOUS
      <3>3. x = z * (x \div z) + (x % z)
        BY ONLY <3>2
      <3>4. PICK v \in 0..z - 1 : v = x % z
        BY ONLY <3>0
      <3>a. x = z * u + v
        BY ONLY <3>1, <3>3, <3>4
      <3>5. u * z + (v + 1) = y * z + 1 /\ v + 1 \in 1..z /\ 1 \in 1..z
        <4>1. z * u = u * z /\ u * z \in Nat /\ y * z \in Nat
          BY ONLY u \in Nat, z \in Nat, y \in Nat
        <4> QED BY ONLY <1>9, <3>a, <4>1, z \in Nat \ {0}, v \in 0..z - 1
      <3>6. u = y
        BY <3>5, GridApart
      <3> QED BY <3>1, <3>6
    <2> QED BY <1>9, <2>4 DEF IsGrid
  <1>10. s \div m = a /\ IsGrid(s, a, m)
    BY <1>7, <1>9
  <1>11. IsGrid(m, b, c)
    BY <1>5, <1>9
  <1>12. s \div c = e /\ IsGrid(s, e, c)
    BY <1>8, <1>9
  <1> QED BY <1>1, <1>2, <1>5, <1>10, <1>11, <1>12

\* Chunk takes a row of the grid.
LEMMA ChunkAt ==
    ASSUME NEW A, NEW seq \in Seq(A), NEW n, n = Len(seq), NEW k, NEW size, IsGrid(n, k, size),
           NEW w \in 1..k
    PROVE  Chunk(seq, k, w) = [j \in 1..size |-> seq[Cell(size, w - 1, j)]]
  <1>1. n \in Nat /\ k \in Nat \ {0} /\ size \in Nat \ {0} /\ n = k * size
    BY DEF IsGrid
  <1>2. Len(seq) \div k = size
    <2>1. n = size * k
      BY <1>1
    <2>2. PICK u \in Nat : u = n \div k
      BY <1>1
    <2>3. n = k * (n \div k) + (n % k)
      <3>1. k \in Int /\ k > 0 /\ n \in Int
        BY <1>1
      <3> QED BY ONLY <3>1
    <2>4. PICK v \in 0..k - 1 : v = n % k
      BY <1>1
    <2>5. u * k + (v + 1) = size * k + 1 /\ v + 1 \in 1..k /\ 1 \in 1..k
      BY <1>1, <2>1, <2>2, <2>3, <2>4
    <2>6. u = size
      BY <1>1, <2>5, GridApart
    <2> QED BY <2>2, <2>6
  <1>3. PICK a \in Nat : a = (w - 1) * size
    BY <1>1
  <1>4. w * size = a + size
    BY <1>1, <1>3
  <1>5. Chunk(seq, k, w) = SubSeq(seq, a + 1, a + size)
    BY <1>2, <1>3, <1>4 DEF Chunk
  <1>6. a + size <= n
    <2>1. Cell(size, w - 1, size) \in 1..n
      <3>1. w - 1 \in 0..k - 1 /\ size \in 1..size
        BY <1>1
      <3> QED BY <3>1, Cells
    <2> QED BY <1>3, <2>1 DEF Cell
  <1>7. SubSeq(seq, a + 1, a + size) = [j \in 1..size |-> seq[a + j]]
    BY <1>1, <1>6
  <1>8. \A j \in 1..size : Cell(size, w - 1, j) = a + j
    BY <1>3 DEF Cell
  <1> QED BY <1>5, <1>7, <1>8

\* All chunks of v
Chunks(v, k, size) == [w \in 1..k |-> [j \in 1..size |-> v[Cell(size, w - 1, j)]]]

\* Chunks, one after the other, are what was cut into them.
LEMMA ChunksJoin ==
    ASSUME NEW n, NEW k, NEW size, IsGrid(n, k, size), NEW v
    PROVE  FlattenSeq(Chunks(v, k, size)) = [i \in 1..n |-> v[i]]
  <1>1. n \in Nat /\ k \in Nat /\ size \in Nat \ {0} /\ n = k * size
    BY DEF IsGrid
  <1>2. PICK A : A = {v[i] : i \in 1..n}
    OBVIOUS
  <1>3. PICK parts : parts = Chunks(v, k, size)
    OBVIOUS
  <1>4. ASSUME NEW w \in 1..k
        PROVE  /\ parts[w] \in Seq(A) /\ Len(parts[w]) = size
               /\ \A j \in 1..size : /\ parts[w][j] = v[Cell(size, w - 1, j)]
                                     /\ Cell(size, w - 1, j) \in 1..n
    <2>1. parts[w] = [j \in 1..size |-> v[Cell(size, w - 1, j)]]
      BY <1>3 DEF Chunks
    <2>2. \A j \in 1..size : Cell(size, w - 1, j) \in 1..n
      <3>1. w - 1 \in 0..k - 1
        BY <1>1
      <3> QED BY <3>1, Cells
    <2>3. parts[w] \in [1..size -> A]
      BY <1>2, <2>1, <2>2
    <2>4. parts[w] \in Seq(A) /\ Len(parts[w]) = size
      BY ONLY <2>3, <1>1
    <2> QED BY <2>1, <2>2, <2>4
  <1>5. parts \in [1..k -> Seq(A)]
    <2>1. parts = [w \in 1..k |-> parts[w]]
      BY <1>3 DEF Chunks
    <2> QED BY ONLY <1>4, <2>1
  <1>6. PICK off : off = [w \in 1..k + 1 |-> (w - 1) * size]
    OBVIOUS
  <1>7. \A w \in 1..k + 1 : off[w] = (w - 1) * size /\ off[w] \in Nat
    BY <1>1, <1>6
  <1>8. IsOffset(off, parts, k)
    <2>1. off \in [1..k + 1 -> Nat] /\ off[1] = 0
      BY <1>1, <1>6, <1>7
    <2>2. ASSUME NEW w \in 1..k PROVE off[w + 1] = off[w] + Len(parts[w])
      <3>1. w + 1 \in 1..k + 1 /\ w \in 1..k + 1 /\ w \in Nat
        BY <1>1
      <3>2. off[w + 1] = w * size /\ off[w] = (w - 1) * size
        BY <1>7, <3>1
      <3>3. w * size = (w - 1) * size + size
        BY <1>1, <3>1
      <3> QED BY <1>4, <3>2, <3>3
    <2> QED BY <2>1, <2>2 DEF IsOffset
  <1>9. PICK flat : flat = FlattenSeq(parts)
    OBVIOUS
  <1>10. flat \in Seq(A) /\ IsFlat(flat, parts, k, off)
    BY ONLY <1>1, <1>5, <1>8, <1>9, FlattenAt
  <1>11. off[k + 1] = n
    BY <1>1, <1>7
  <1>12. Len(flat) = n /\ \A w \in 1..k : \A j \in 1..Len(parts[w]) : flat[off[w] + j] = parts[w][j]
    BY <1>10, <1>11 DEF IsFlat
  <1>13. ASSUME NEW i \in 1..n PROVE flat[i] = v[i]
    <2>1. \E g \in 0..k - 1 : \E j \in 1..size : i = Cell(size, g, j)
      BY Cells
    <2>2. PICK g \in 0..k - 1 : \E j \in 1..size : i = Cell(size, g, j)
      BY <2>1
    <2>3. PICK j \in 1..size : i = Cell(size, g, j)
      BY <2>2
    <2>4. g + 1 \in 1..k /\ (g + 1) - 1 = g /\ g + 1 \in 1..k + 1
      BY <1>1
    <2>5. parts[g + 1][j] = v[Cell(size, g, j)] /\ Len(parts[g + 1]) = size
      BY <1>4, <2>4
    <2>6. flat[off[g + 1] + j] = parts[g + 1][j]
      BY <1>12, <2>4, <2>5
    <2>7. off[g + 1] + j = Cell(size, g, j)
      BY <1>7, <2>4 DEF Cell
    <2> QED BY <2>3, <2>5, <2>6, <2>7
  <1>14. flat = [i \in 1..n |-> flat[i]]
    BY <1>10, <1>12
  <1> QED BY ONLY <1>3, <1>9, <1>13, <1>14

\* A chunk has the rows of its worker.
LEMMA ChunkRow ==
    ASSUME NEW A, NEW seq \in Seq(A), NEW n, n = Len(seq), NEW k, NEW size, IsGrid(n, k, size),
           NEW w \in 1..k
    PROVE  /\ Len(Chunk(seq, k, w)) = size
           /\ \A j \in 1..size : Chunk(seq, k, w)[j] = seq[Cell(size, w - 1, j)]
  <1>1. Chunk(seq, k, w) = [j \in 1..size |-> seq[Cell(size, w - 1, j)]]
    BY ChunkAt
  <1>2. size \in Nat
    BY DEF IsGrid
  <1> QED BY ONLY <1>1, <1>2

\* PromptOf gives N neighbours each prompt.
LEMMA PromptOfRow ==
    ASSUME BatchAssumption
    PROVE  /\ PromptOf = [i \in Rows |-> (i - 1) \div N + 1]
           /\ \A i \in Rows : PromptOf[i] \in 1..Prompts
           /\ \A g \in 0..Prompts - 1 : \A i \in 1..N :
                 Cell(N, g, i) \in Rows /\ PromptOf[Cell(N, g, i)] = g + 1
  <1>1. Prompts \in Nat \ {0} /\ N \in Nat \ {0} /\ IsGrid(Total, Prompts, N) /\ Rows = 1..Total
    BY Sizes
  <1>2. PromptOf = [i \in 1..Prompts * N |-> [p \in 1..Prompts |-> p][(i - 1) \div N + 1]]
    BY <1>1 DEF PromptOf, Repeated
  <1>3. \A g \in 0..Prompts - 1 : \A i \in 1..N : Cell(N, g, i) \in Rows
    BY <1>1, Cells
  <1>4. ASSUME NEW i \in Rows PROVE (i - 1) \div N + 1 \in 1..Prompts
    <2>1. PICK g \in 0..Prompts - 1 : \E j \in 1..N : i = Cell(N, g, j)
      BY <1>1, Cells
    <2>2. PICK j \in 1..N : i = Cell(N, g, j)
      BY <2>1
    <2>3. (i - 1) \div N = g
      <3>1. g \in Nat
        OBVIOUS
      <3> QED BY <1>1, <2>2, <3>1, CellIndex
    <2>4. g + 1 \in 1..Prompts
      <3>1. Prompts \in Nat /\ g \in 0..Prompts - 1
        BY ONLY <1>1, g \in 0..Prompts - 1
      <3> QED BY ONLY <3>1
    <2> QED BY ONLY <2>3, <2>4
  <1>5. Rows = 1..Prompts * N
    BY DEF Rows
  <1>6. PromptOf = [i \in Rows |-> (i - 1) \div N + 1]
    BY <1>2, <1>4, <1>5
  <1>7. ASSUME NEW g \in 0..Prompts - 1, NEW i \in 1..N PROVE PromptOf[Cell(N, g, i)] = g + 1
    <2>1. (Cell(N, g, i) - 1) \div N = g
      <3>1. g \in Nat
        OBVIOUS
      <3> QED BY <1>1, <3>1, CellIndex
    <2> QED BY <1>3, <1>6, <2>1
  <1> QED BY <1>3, <1>4, <1>6, <1>7

\* A row without columns, the batch as asked and as answered
FreshRow(p, x, b) ==
    [uid |-> p, response |-> x, baseline |-> b, old_log_prob |-> 0,
     ref_log_prob |-> 0, values |-> 0, advantage |-> <<0, 1>>, return |-> <<0, 1>>]
Asked == [p \in 1..Prompts |-> FreshRow(p, 0, 0)]
Baseline(x) == IF input.estimator = "remax" THEN input.baseline[PromptOf[x]] ELSE 0
Answered == [x \in 1..Total |-> FreshRow(PromptOf[x], x, Baseline(x))]

\* Generate answers every prompt N times, the rows of a prompt next to each other, each with its
\* prompt's greedy baseline.
LEMMA GenerateAnswers ==
    ASSUME BatchAssumption, input \in Inputs, batch = Asked, Generate
    PROVE  batch' = Answered
  <1>1. /\ Prompts \in Nat \ {0} /\ N \in Nat \ {0} /\ AgentWorkers \in Nat \ {0}
        /\ Total \in Nat \ {0} /\ Rows = 1..Total /\ Total = Prompts * N
    BY Sizes DEF Total
  <1>2. PICK size : IsGrid(Prompts, AgentWorkers, size)
    <2>1. Prompts % AgentWorkers = 0
      BY DEF BatchAssumption
    <2> QED BY <1>1, <2>1, GridOf
  <1>3. IsGrid(Total, AgentWorkers, size * N)
    BY <1>1, <1>2, GridThrough
  <1> DEFINE greedy == ByWorkers(batch, AgentWorkers, LAMBDA b : input.baseline[b.uid])
             sampled == ByWorkers([x \in 1..Prompts * N |-> x], AgentWorkers, LAMBDA x : x)
             based == IF input.estimator = "remax"
                      THEN [p \in 1..Prompts |-> [batch[p] EXCEPT !.baseline = greedy[p]]]
                      ELSE batch
  <1>4. batch' = [i \in 1..Prompts * N |-> [Repeated(based)[i] EXCEPT !.response = sampled[i]]]
    BY DEF Generate
  <1>5. greedy = [p \in 1..Prompts |-> input.baseline[p]]
    <2>1. PICK A : A = {batch[p] : p \in 1..Prompts}
      OBVIOUS
    <2>2. batch \in Seq(A) /\ Len(batch) = Prompts
      <3>1. batch = [p \in 1..Prompts |-> batch[p]]
        BY DEF Asked
      <3>2. batch \in [1..Prompts -> A]
        BY <2>1, <3>1
      <3> QED BY ONLY <1>1, <3>2
    <2>3. PICK v : v = [p \in 1..Prompts |-> input.baseline[p]]
      OBVIOUS
    <2>4. ASSUME NEW w \in 1..AgentWorkers
          PROVE  [i \in 1..Len(Chunk(batch, AgentWorkers, w)) |->
                    input.baseline[Chunk(batch, AgentWorkers, w)[i].uid]]
                   = [j \in 1..size |-> v[Cell(size, w - 1, j)]]
      <3>1. /\ Len(Chunk(batch, AgentWorkers, w)) = size
            /\ \A j \in 1..size : Chunk(batch, AgentWorkers, w)[j] = batch[Cell(size, w - 1, j)]
        BY ONLY <1>2, <2>2, w \in 1..AgentWorkers, ChunkRow
      <3>2. \A j \in 1..size : Cell(size, w - 1, j) \in 1..Prompts
        <4>1. w - 1 \in 0..AgentWorkers - 1
          BY <1>1
        <4> QED BY <1>2, <4>1, Cells
      <3>3. \A p \in 1..Prompts : batch[p].uid = p /\ v[p] = input.baseline[p]
        BY <2>3 DEF Asked, FreshRow
      <3>4. \A j \in 1..size : input.baseline[Chunk(batch, AgentWorkers, w)[j].uid]
                                 = v[Cell(size, w - 1, j)]
        <4> SUFFICES ASSUME NEW j \in 1..size
                     PROVE  input.baseline[Chunk(batch, AgentWorkers, w)[j].uid] = v[Cell(size, w - 1, j)]
          OBVIOUS
        <4>1. PICK p \in 1..Prompts : p = Cell(size, w - 1, j)
          BY ONLY <3>2, j \in 1..size
        <4>2. Chunk(batch, AgentWorkers, w)[j] = batch[p]
          BY ONLY <3>1, <4>1, j \in 1..size
        <4> QED BY ONLY <3>3, <4>1, <4>2, p \in 1..Prompts
      <3> QED BY ONLY <3>1, <3>4
    <2>5. greedy = FlattenSeq([w \in 1..AgentWorkers |->
                      [i \in 1..Len(Chunk(batch, AgentWorkers, w)) |->
                         input.baseline[Chunk(batch, AgentWorkers, w)[i].uid]]])
      BY DEF ByWorkers
    <2>6. greedy = FlattenSeq(Chunks(v, AgentWorkers, size))
      <3> HIDE DEF greedy
      <3> QED BY ONLY <2>4, <2>5 DEF Chunks
    <2>7. FlattenSeq(Chunks(v, AgentWorkers, size)) = [p \in 1..Prompts |-> v[p]]
      BY <1>2, ChunksJoin
    <2> HIDE DEF greedy
    <2> QED BY <2>3, <2>6, <2>7
  <1>6. sampled = [x \in 1..Total |-> x]
    <2>1. PICK seq : seq = [x \in 1..Prompts * N |-> x]
      OBVIOUS
    <2>2. seq \in Seq(Nat) /\ Len(seq) = Total /\ \A x \in 1..Total : seq[x] = x
      BY <1>1, <2>1
    <2>3. PICK l : IsGrid(Total, AgentWorkers, l)
      BY <1>3
    <2>4. ASSUME NEW w \in 1..AgentWorkers
          PROVE  [i \in 1..Len(Chunk(seq, AgentWorkers, w)) |-> Chunk(seq, AgentWorkers, w)[i]]
                   = [j \in 1..l |-> seq[Cell(l, w - 1, j)]]
      <3>1. /\ Len(Chunk(seq, AgentWorkers, w)) = l
            /\ \A j \in 1..l : Chunk(seq, AgentWorkers, w)[j] = seq[Cell(l, w - 1, j)]
        BY ONLY <2>2, <2>3, w \in 1..AgentWorkers, ChunkRow
      <3> QED BY ONLY <3>1
    <2>5. sampled = FlattenSeq([w \in 1..AgentWorkers |->
                      [i \in 1..Len(Chunk(seq, AgentWorkers, w)) |-> Chunk(seq, AgentWorkers, w)[i]]])
      BY <2>1 DEF ByWorkers
    <2>6. sampled = FlattenSeq(Chunks(seq, AgentWorkers, l))
      <3> HIDE DEF sampled
      <3> QED BY ONLY <2>4, <2>5 DEF Chunks
    <2>7. FlattenSeq(Chunks(seq, AgentWorkers, l)) = [x \in 1..Total |-> seq[x]]
      BY ONLY <2>3, ChunksJoin
    <2> HIDE DEF sampled
    <2> QED BY <2>2, <2>6, <2>7
  <1> HIDE DEF greedy, sampled
  <1>7. /\ DOMAIN based = 1..Prompts /\ Len(based) = Prompts
        /\ \A p \in 1..Prompts :
              based[p] = FreshRow(p, 0, IF input.estimator = "remax" THEN input.baseline[p] ELSE 0)
    <2>1. \A p \in 1..Prompts : batch[p] = FreshRow(p, 0, 0)
      BY DEF Asked
    <2>2. CASE input.estimator = "remax"
      <3>1. based = [p \in 1..Prompts |-> [batch[p] EXCEPT !.baseline = greedy[p]]]
        BY <2>2
      <3>2. ASSUME NEW p \in 1..Prompts
            PROVE  based[p] = FreshRow(p, 0, input.baseline[p])
        <4>1. based[p] = [FreshRow(p, 0, 0) EXCEPT !.baseline = input.baseline[p]]
          BY <1>5, <2>1, <3>1
        <4> QED BY ONLY <4>1 DEF FreshRow
      <3>3. Len(based) = Prompts
        BY <1>1, <3>1
      <3> QED BY ONLY <2>2, <3>1, <3>2, <3>3
    <2>3. CASE input.estimator # "remax"
      <3>1. based = Asked
        BY <2>3
      <3>2. Len(Asked) = Prompts /\ DOMAIN Asked = 1..Prompts
        BY <1>1 DEF Asked
      <3> QED BY ONLY <2>1, <2>3, <3>1, <3>2, batch = Asked
    <2> QED BY <2>2, <2>3
  <1>8. ASSUME NEW i \in 1..Total
        PROVE  [Repeated(based)[i] EXCEPT !.response = sampled[i]] = FreshRow(PromptOf[i], i, Baseline(i))
    <2>1. PromptOf[i] = (i - 1) \div N + 1 /\ PromptOf[i] \in 1..Prompts
      BY <1>1, PromptOfRow
    <2>2. Repeated(based)[i] = based[PromptOf[i]]
      <3> HIDE DEF based
      <3>1. Repeated(based) = [j \in 1..Prompts * N |-> based[(j - 1) \div N + 1]]
        BY <1>7 DEF Repeated
      <3> QED BY <1>1, <2>1, <3>1
    <2>3. Repeated(based)[i] = FreshRow(PromptOf[i], 0, Baseline(i))
      BY <1>7, <2>1, <2>2 DEF Baseline
    <2>4. sampled[i] = i
      BY <1>6
    <2>5. [Repeated(based)[i] EXCEPT !.response = sampled[i]]
             = [FreshRow(PromptOf[i], 0, Baseline(i)) EXCEPT !.response = i]
      BY ONLY <2>3, <2>4
    <2> QED BY ONLY <2>5 DEF FreshRow
  <1> QED BY ONLY <1>1, <1>4, <1>8 DEF Answered

----------------------------------------------------------------------------
(* Shares: their sizes and their loads.                                     *)

\* The weights of the positions of s, ...
WeightsAt(w, s) == [i \in 1..Len(s) |-> w[s[i]]]

\* ... and s in their order
LightFirst(w, s) == Sorted(s, LAMBDA i, j : w[i] < w[j] \/ (w[i] = w[j] /\ i < j))

\* It is a rearrangement.
LEMMA LightFirstSorted ==
    ASSUME NEW n \in Nat, NEW w \in [1..n -> Int], NEW A, A = 1..n, NEW s \in Seq(A),
           NEW t, t = LightFirst(w, s)
    PROVE  t \in Seq(A) /\ \E at : Reordered(t, s, at, Len(s))
  <1> DEFINE k == Len(s)
             a == WeightsAt(w, s)
             b == ValueKey(s)
             c == NoKey(s)
             Less(i, j) == w[i] < w[j] \/ (w[i] = w[j] /\ i < j)
             place == [i \in 1..k |-> 1 + Cardinality({j \in 1..k :
                           Less(s[j], s[i]) \/ (~Less(s[i], s[j]) /\ j < i)})]
  <1>1. t = SubSeq([p \in 1..k |-> s[CHOOSE i \in 1..k : place[i] = p]], 1, k)
    BY DEF LightFirst, Sorted
  <1>2. k \in Nat
    BY ONLY s \in Seq(A) DEF k
  <1>3. ASSUME NEW i \in 1..k
        PROVE  /\ s[i] \in Int /\ w[s[i]] \in Int
               /\ a[i] = w[s[i]] /\ b[i] = s[i] /\ c[i] = 0
    <2>1. s[i] \in A
      BY ElementOfSeq
    <2>2. s[i] \in Int /\ w[s[i]] \in Int
      BY <2>1
    <2> QED BY <2>2 DEF WeightsAt, ValueKey, NoKey
  <1>4. Keys(k, a, b, c)
    <2>1. a = [i \in 1..k |-> a[i]] /\ b = [i \in 1..k |-> b[i]] /\ c = [i \in 1..k |-> c[i]]
      BY DEF WeightsAt, ValueKey, NoKey
    <2>2. \A i \in 1..k : a[i] \in Int /\ b[i] \in Int /\ c[i] \in Int
      <3> HIDE DEF a, b, c
      <3> QED BY <1>3
    <2> HIDE DEF a, b, c, k
    <2> QED BY <1>2, <2>1, <2>2 DEF Keys
  <1>5. ASSUME NEW i \in 1..k, NEW j \in 1..k PROVE Less(s[j], s[i]) <=> KeyLess(a, b, c, j, i)
    <2>1. PICK u \in Int, v \in Int : u = w[s[j]] /\ v = w[s[i]]
      BY <1>3
    <2>2. PICK x \in Int, y \in Int : x = s[j] /\ y = s[i]
      BY <1>3
    <2>3. a[j] = u /\ a[i] = v /\ b[j] = x /\ b[i] = y /\ c[j] = 0 /\ c[i] = 0
      BY <1>3, <2>1, <2>2
    <2>4. Less(s[j], s[i]) <=> u < v \/ (u = v /\ x < y)
      BY <2>1, <2>2
    <2> HIDE DEF a, b, c, Less
    <2> QED BY ONLY <2>3, <2>4, u \in Int, v \in Int, x \in Int, y \in Int DEF KeyLess
  <1> HIDE DEF a, b, c, Less
  <1>6. place = Places(k, a, b, c)
    <2>1. ASSUME NEW i \in 1..k
          PROVE  {j \in 1..k : Less(s[j], s[i]) \/ (~Less(s[i], s[j]) /\ j < i)}
                    = {j \in 1..k : KeyBefore(a, b, c, j, i)}
      BY <1>5 DEF KeyBefore
    <2> QED BY <2>1 DEF Places
  <1> HIDE DEF place
  <1>7. t = Arranged(s, a, b, c)
    BY ONLY <1>1, <1>6 DEF Arranged, k
  <1>8. t \in Seq(A) /\ SortedBy(t, s, k, a, b, c)
    BY <1>4, <1>7, SortedByKeys
  <1> QED BY <1>8 DEF SortedBy

\* Light rows outside: a share keeps its rows.
LEMMA LightOutsideReorders ==
    ASSUME NEW n \in Nat, NEW w \in [1..n -> Int], NEW A, A = 1..n, NEW s \in Seq(A)
    PROVE  LightOutside(w, s) \in Seq(A) /\ \E at : Reordered(LightOutside(w, s), s, at, Len(s))
  <1>1. PICK up : up = LightFirst(w, s)
    OBVIOUS
  <1>2. PICK l \in Nat : l = Len(s)
    BY ONLY s \in Seq(A)
  <1>3. up \in Seq(A) /\ \E at : Reordered(up, s, at, Len(s))
    BY <1>1, LightFirstSorted
  <1>4. PICK at : Reordered(up, s, at, l)
    BY ONLY <1>2, <1>3
  <1>5. Len(up) = l
    BY ONLY <1>4 DEF Reordered
  <1>6. PICK t : t = Outside(up)
    OBVIOUS
  <1>7. t \in Seq(A) /\ \E bt : Reordered(t, up, bt, l)
    BY ONLY <1>3, <1>5, <1>6, l \in Nat, HalvesJoin
  <1>8. PICK bt : Reordered(t, up, bt, l)
    BY ONLY <1>7
  <1>9. \E ct : Reordered(t, s, ct, l)
    BY ONLY <1>4, <1>8, l \in Nat, ReorderedAgain
  <1>10. LightOutside(w, s) = t
    BY <1>1, <1>6 DEF LightOutside, LightFirst, Outside
  <1> QED BY ONLY <1>2, <1>7, <1>9, <1>10

\* Parts of equal length
\* The parts are l long, and stand one after the other.
AreEven(parts, k, l, n) ==
    /\ l \in Nat /\ n = k * l
    /\ \A d \in 1..k : \A j \in 1..l : /\ Cell(l, d - 1, j) \in 1..n
                                       /\ FlattenSeq(parts)[Cell(l, d - 1, j)] = parts[d][j]

\* Parts of equal length stand in a grid.
LEMMA EvenShares ==
    ASSUME NEW n \in Nat, NEW k \in Nat \ {0}, NEW parts, IsPartition(parts, k, n),
           NEW l, AllLong(parts, k, l)
    PROVE  AreEven(parts, k, l, n)
  <1>0. \A d \in 1..k : Len(parts[d]) = l
    BY DEF AllLong
  <1>1. PICK A : A = 1..n
    OBVIOUS
  <1>2. parts \in [1..k -> Seq(A)]
    BY <1>1 DEF IsPartition
  <1>3. l \in Nat
    <2>1. 1 \in 1..k
      OBVIOUS
    <2>2. PICK x \in Seq(A) : x = parts[1]
      BY <1>2, <2>1
    <2>3. Len(x) \in Nat
      BY ONLY x \in Seq(A)
    <2> QED BY <1>0, <2>1, <2>2, <2>3
  <1>4. PICK off : off = [d \in 1..k + 1 |-> (d - 1) * l]
    OBVIOUS
  <1>5. \A d \in 1..k + 1 : off[d] = (d - 1) * l /\ off[d] \in Nat
    BY <1>3, <1>4
  <1>6. IsOffset(off, parts, k)
    <2>1. off \in [1..k + 1 -> Nat] /\ off[1] = 0
      BY <1>3, <1>4, <1>5
    <2>2. ASSUME NEW d \in 1..k PROVE off[d + 1] = off[d] + Len(parts[d])
      <3>1. d + 1 \in 1..k + 1 /\ d \in 1..k + 1 /\ d \in Nat
        OBVIOUS
      <3>2. off[d + 1] = d * l /\ off[d] = (d - 1) * l
        BY <1>5, <3>1
      <3>3. d * l = (d - 1) * l + l
        BY <1>3, <3>1
      <3>4. Len(parts[d]) = l
        BY <1>0
      <3> QED BY ONLY <3>2, <3>3, <3>4
    <2> QED BY <2>1, <2>2 DEF IsOffset
  <1>7. PICK flat : flat = FlattenSeq(parts)
    OBVIOUS
  <1>8. flat \in Seq(A) /\ IsFlat(flat, parts, k, off)
    BY ONLY <1>2, <1>6, <1>7, k \in Nat \ {0}, FlattenAt
  <1>9. IsOrder(flat, n)
    BY <1>7, FlattenPermutes
  <1>10. off[k + 1] = k * l
    BY <1>3, <1>5
  <1>11. n = k * l
    BY <1>8, <1>9, <1>10 DEF IsFlat, IsOrder
  <1>12. ASSUME NEW d \in 1..k, NEW j \in 1..l
         PROVE  Cell(l, d - 1, j) \in 1..n /\ flat[Cell(l, d - 1, j)] = parts[d][j]
    <2>1. off[d] + j \in 1..n /\ flat[off[d] + j] = parts[d][j]
      BY <1>0, <1>8, <1>10, <1>11 DEF IsFlat
    <2>2. off[d] + j = Cell(l, d - 1, j)
      BY <1>5 DEF Cell
    <2> QED BY <2>1, <2>2
  <1> QED BY <1>3, <1>7, <1>11, <1>12 DEF AreEven

\* The widest spread of k neighbours
IsWidest(most, w, k, up, m) ==
    \E g \in 0..m - 1 : most = w[up[Cell(k, g, k)]] - w[up[Cell(k, g, 1)]]

\* In a first state with equal sizes, the sums differ by no more than the widest spread of k
\* neighbours.
LEMMA StartClose ==
    ASSUME NEW n, NEW w, Weighs(w, n), n > 0, NEW k \in Nat \ {0}, NEW m, IsGrid(n, m, k),
           NEW S, S = FirstStates(w, k, TRUE), NEW up, up = Ascending(w)
    PROVE  \E most : AllClose(S, k, most) /\ IsWidest(most, w, k, up, m)
  <1>1. n \in Nat /\ Len(w) = n /\ w \in [1..n -> Int] /\ m \in Nat /\ n = m * k
    BY DEF Weighs, IsGrid
  <1>2. Len(w) \div k = m
    <2>1. PICK u \in Nat : u = n \div k
      BY <1>1
    <2>2. n = k * (n \div k) + (n % k)
      <3>1. k \in Int /\ k > 0 /\ n \in Int
        BY <1>1
      <3> QED BY ONLY <3>1
    <2>3. PICK v \in 0..k - 1 : v = n % k
      BY <1>1
    <2>4. u * k + (v + 1) = m * k + 1 /\ v + 1 \in 1..k /\ 1 \in 1..k
      BY <1>1, <2>1, <2>2, <2>3
    <2>5. u = m
      BY <1>1, <2>4, GridApart
    <2> QED BY <1>1, <2>1, <2>5
  <1>3. S = {HeaviestFirst(Neighbours(w, k, up, g)) : g \in 0..m - 1}
    <2>1. S = {HeaviestFirst(Neighbours(w, k, up, g)) : g \in 0..(Len(w) \div k) - 1}
      BY DEF FirstStates, Neighbours, Cell
    <2> QED BY <1>2, <2>1
  <1>4. IsOrder(up, n) /\ \A p, q \in 1..n : p < q => w[up[p]] <= w[up[q]]
    BY <1>1, AscendingSorts
  <1>5. m # 0
    BY <1>1
  <1>6. ASSUME NEW g \in 0..m - 1, NEW j \in 1..k
        PROVE  /\ Cell(k, g, j) \in 1..n /\ w[up[Cell(k, g, j)]] \in Int
               /\ w[up[Cell(k, g, 1)]] <= w[up[Cell(k, g, j)]]
               /\ w[up[Cell(k, g, j)]] <= w[up[Cell(k, g, k)]]
               /\ w[up[Cell(k, g, 1)]] \in Int /\ w[up[Cell(k, g, k)]] \in Int
    <2>1. 1 \in 1..k /\ k \in 1..k
      OBVIOUS
    <2>2. Cell(k, g, j) \in 1..n /\ Cell(k, g, 1) \in 1..n /\ Cell(k, g, k) \in 1..n
      BY <2>1, Cells
    <2>3. PICK a \in 1..n, b \in 1..n, c \in 1..n :
             a = Cell(k, g, j) /\ b = Cell(k, g, 1) /\ c = Cell(k, g, k)
      BY <2>2
    <2>4. b <= a /\ a <= c
      <3>1. PICK d \in Nat : d = g * k
        OBVIOUS
      <3> QED BY <2>3, <3>1 DEF Cell
    <2>5. up[a] \in 1..n /\ up[b] \in 1..n /\ up[c] \in 1..n
      BY <1>4, ElementOfSeq DEF IsOrder
    <2>6. w[up[a]] \in Int /\ w[up[b]] \in Int /\ w[up[c]] \in Int
      BY <1>1, <2>5
    <2>7. (b < a => w[up[b]] <= w[up[a]]) /\ (a < c => w[up[a]] <= w[up[c]])
      BY <1>4
    <2>8. b = a \/ b < a
      BY <2>4
    <2>9. a = c \/ a < c
      BY <2>4
    <2>10. w[up[b]] <= w[up[a]] /\ w[up[a]] <= w[up[c]]
      BY ONLY <2>6, <2>7, <2>8, <2>9
    <2> QED BY <2>2, <2>3, <2>6, <2>10
  <1>7. PICK f : f = [g \in 0..m - 1 |-> w[up[Cell(k, g, k)]] - w[up[Cell(k, g, 1)]]]
    OBVIOUS
  <1>8. f \in [0..m - 1 -> Int]
    <2>1. 1 \in 1..k
      OBVIOUS
    <2>2. \A g \in 0..m - 1 : w[up[Cell(k, g, k)]] \in Int /\ w[up[Cell(k, g, 1)]] \in Int
      BY <1>6, <2>1
    <2>3. \A g \in 0..m - 1 : f[g] \in Int
      BY <1>7, <2>2
    <2> QED BY <1>7, <2>3
  <1>9. PICK g \in 0..m - 1 : \A h \in 0..m - 1 : f[h] <= f[g]
    BY <1>1, <1>5, <1>8, Greatest
  <1>10. PICK most \in Int : most = f[g]
    BY <1>8
  <1>11. ASSUME NEW s \in S PROVE Close(s, k, most)
    <2>1. PICK h \in 0..m - 1 : s = HeaviestFirst(Neighbours(w, k, up, h))
      BY <1>3
    <2>2. PICK u : u = Neighbours(w, k, up, h)
      OBVIOUS
    <2>3. AreSets(u, k, w, n) /\ \A j \in 1..k : u[j].sum = w[up[Cell(k, h, j)]]
      BY <1>4, <2>2, NeighbourSets
    <2>4. ASSUME NEW i \in 1..k, NEW j \in 1..k PROVE u[i].sum - u[j].sum <= most
      <3>1. PICK a \in Int, b \in Int : a = w[up[Cell(k, h, i)]] /\ b = w[up[Cell(k, h, j)]]
        BY <1>6
      <3>2. PICK c \in Int, d \in Int : c = w[up[Cell(k, h, k)]] /\ d = w[up[Cell(k, h, 1)]]
        BY <1>6
      <3>3. a <= c /\ d <= b
        BY <1>6, <3>1, <3>2
      <3>4. f[h] = c - d /\ f[h] <= most
        BY <1>7, <1>9, <1>10, <3>2
      <3>5. u[i].sum = a /\ u[j].sum = b
        BY <2>3, <3>1
      <3> QED BY ONLY <3>3, <3>4, <3>5, a \in Int, b \in Int, c \in Int, d \in Int, most \in Int
    <2>5. Close(u, k, most)
      BY <2>4 DEF Close
    <2> QED BY <2>1, <2>2, <2>3, <2>5, SortKeeps
  <1>12. most = w[up[Cell(k, g, k)]] - w[up[Cell(k, g, 1)]]
    BY <1>7, <1>10
  <1> QED BY <1>10, <1>11, <1>12 DEF AllClose, IsWidest

\* Groups that begin at these positions are the rows of the grid.
LEMMA GroupsAreRows ==
    ASSUME NEW n, NEW m, NEW k, IsGrid(n, m, k), NEW groups, NEW l \in Nat, IsPartition(groups, l, n),
           AreGroups(groups, l, Firsts(k, m)), NEW g \in 1..l
    PROVE  Len(groups[g]) = k /\ \E h \in 0..m - 1 : \A j \in 1..k : groups[g][j] = Cell(k, h, j)
  <1>1. m \in Nat /\ k \in Nat \ {0} /\ n \in Nat
    BY DEF IsGrid
  <1>2. ASSUME NEW q \in 1..l
        PROVE  \E h \in 0..m - 1 : /\ Len(groups[q]) \in Nat /\ 1 \in 1..Len(groups[q])
                                   /\ groups[q][1] = Cell(k, h, 1)
                                   /\ \A i \in 1..Len(groups[q]) : i <= k /\ groups[q][i] = Cell(k, h, i)
    <2>1. PICK x \in Seq(1..n) : x = groups[q]
      BY DEF IsPartition
    <2>2. PICK len \in Nat : len = Len(x)
      BY ONLY x \in Seq(1..n)
    <2>3. /\ x # <<>> /\ x[1] \in Firsts(k, m)
          /\ \A i \in 1..len : x[i] = x[1] + i - 1
          /\ \A i \in 1..len : i > 1 => x[i] \notin Firsts(k, m)
      BY <2>1, <2>2 DEF AreGroups
    <2>4. PICK h \in 0..m - 1 : x[1] = Cell(k, h, 1)
      BY <2>3 DEF Firsts
    <2>5. PICK p \in Nat : p = h * k
      BY <1>1
    <2>6. \A j : Cell(k, h, j) = p + j
      BY <2>5 DEF Cell
    <2>7. \A i \in 1..len : x[i] = p + i
      BY <2>3, <2>4, <2>6
    <2>8. ASSUME NEW i \in 1..len, ~(i <= k) PROVE FALSE
      <3>1. k + 1 \in 1..len /\ k + 1 > 1
        BY <1>1, <2>8
      <3>2. x[k + 1] = p + (k + 1)
        BY <2>7, <3>1
      <3>3. x[k + 1] \in 1..n
        BY <2>2, <3>1, ElementOfSeq
      <3>4. PICK e \in 0..m - 1 : \E j \in 1..k : x[k + 1] = Cell(k, e, j)
        BY <3>3, Cells
      <3>5. PICK j \in 1..k : x[k + 1] = Cell(k, e, j)
        BY <3>4
      <3>6. (h + 1) * k + 1 = e * k + j
        <4>1. (h + 1) * k = p + k
          BY <1>1, <2>5
        <4>2. PICK ek \in Nat : ek = e * k
          BY <1>1
        <4>3. p + (k + 1) = ek + j
          BY <3>2, <3>5, <4>2 DEF Cell
        <4>4. (p + k) + 1 = ek + j
          BY ONLY <4>3, <1>1, p \in Nat, ek \in Nat, j \in 1..k
        <4> QED BY ONLY <4>1, <4>2, <4>4
      <3>7. h + 1 = e /\ j = 1
        <4>1. h + 1 \in Nat /\ e \in Nat /\ 1 \in 1..k
          BY <1>1
        <4>2. h + 1 = e /\ 1 = j
          BY ONLY <1>1, <3>6, <4>1, j \in 1..k, GridApart
        <4> QED BY <4>2
      <3>8. x[k + 1] \in Firsts(k, m)
        BY <3>5, <3>7 DEF Firsts
      <3> QED BY <2>3, <3>1, <3>8
    <2>9. 1 \in 1..len
      BY <2>2, <2>3
    <2> QED BY <2>1, <2>2, <2>4, <2>6, <2>7, <2>8, <2>9
  <1>3. PICK h \in 0..m - 1 : /\ Len(groups[g]) \in Nat
                              /\ groups[g][1] = Cell(k, h, 1) /\ 1 \in 1..Len(groups[g])
                              /\ \A i \in 1..Len(groups[g]) : i <= k /\ groups[g][i] = Cell(k, h, i)
    BY <1>2
  <1>4. k \in 1..Len(groups[g])
    <2>1. k \in 1..k /\ 1 \in 1..k
      BY <1>1
    <2>2. Cell(k, h, k) \in 1..n
      BY <2>1, Cells
    <2>3. PICK q \in 1..l : \E i \in 1..Len(groups[q]) : groups[q][i] = Cell(k, h, k)
      BY <2>2 DEF IsPartition
    <2>4. PICK i \in 1..Len(groups[q]) : groups[q][i] = Cell(k, h, k)
      BY <2>3
    <2>5. PICK e \in 0..m - 1 : /\ Len(groups[q]) \in Nat
                                /\ groups[q][1] = Cell(k, e, 1) /\ 1 \in 1..Len(groups[q])
                                /\ \A j \in 1..Len(groups[q]) : j <= k /\ groups[q][j] = Cell(k, e, j)
      BY <1>2
    <2>6. i \in 1..k /\ Cell(k, e, i) = Cell(k, h, k)
      BY <2>4, <2>5
    <2>7. e = h /\ i = k
      BY ONLY <2>1, <2>6, IsGrid(n, m, k), e \in 0..m - 1, h \in 0..m - 1, Cells
    <2>8. groups[q][1] = groups[g][1]
      BY <1>3, <2>5, <2>7
    <2>9. q = g
      <3>1. 1 \in 1..Len(groups[q]) /\ 1 \in 1..Len(groups[g])
        BY <1>3, <2>5
      <3> QED BY ONLY <2>8, <3>1, q \in 1..l, g \in 1..l, IsPartition(groups, l, n) DEF IsPartition
    <2> QED BY <2>7, <2>9
  <1>5. Len(groups[g]) = k
    BY ONLY <1>1, <1>3, <1>4
  <1> QED BY <1>3, <1>5

\* Where the rows of a prompt begin
LEMMA PromptStarts ==
    ASSUME BatchAssumption
    PROVE  {i \in 1..Total : i = 1 \/ PromptOf[i] # PromptOf[i - 1]} = Firsts(N, Prompts)
  <1>1. Prompts \in Nat \ {0} /\ N \in Nat \ {0} /\ IsGrid(Total, Prompts, N) /\ Rows = 1..Total
    BY Sizes
  <1>2. \A g \in 0..Prompts - 1 : \A i \in 1..N :
           Cell(N, g, i) \in 1..Total /\ PromptOf[Cell(N, g, i)] = g + 1
    BY <1>1, PromptOfRow
  <1>3. 1 \in 1..N /\ N \in 1..N
    BY <1>1
  <1>4. ASSUME NEW i \in 1..Total, i = 1 \/ PromptOf[i] # PromptOf[i - 1]
        PROVE  i \in Firsts(N, Prompts)
    <2>1. PICK g \in 0..Prompts - 1 : \E j \in 1..N : i = Cell(N, g, j)
      <3>1. \A p \in 1..Total : \E e \in 0..Prompts - 1 : \E j \in 1..N : p = Cell(N, e, j)
        BY <1>1, Cells, SMTT(30)
      <3> QED BY ONLY <3>1, i \in 1..Total
    <2>2. PICK j \in 1..N : i = Cell(N, g, j)
      BY <2>1
    <2>3. ASSUME j # 1 PROVE FALSE
      <3>1. PICK h \in 1..N : h = j - 1
        BY <1>1, <2>3, SMTT(30)
      <3>2. PICK p \in Nat : p = g * N
        BY <1>1
      <3>3. i = p + j
        BY <2>2, <3>2 DEF Cell
      <3>4. i - 1 = p + h /\ i # 1
        <4>1. N \in Nat /\ j \in 1..N /\ h \in 1..N /\ j # 1 /\ p \in Nat
          BY <1>1, <2>3
        <4> QED BY ONLY <3>1, <3>3, <4>1
      <3>5. i - 1 = Cell(N, g, h)
        BY <3>2, <3>4 DEF Cell
      <3>6. PromptOf[i] = g + 1 /\ PromptOf[i - 1] = g + 1
        BY <1>2, <2>2, <3>5
      <3> QED BY <1>4, <3>4, <3>6
    <2> QED BY <2>2, <2>3 DEF Firsts
  <1>5. ASSUME NEW g \in 0..Prompts - 1, NEW i, i = Cell(N, g, 1)
        PROVE  i \in 1..Total /\ (i = 1 \/ PromptOf[i] # PromptOf[i - 1])
    <2>1. i \in 1..Total /\ PromptOf[i] = g + 1
      BY <1>2, <1>3, <1>5
    <2>2. CASE g = 0
      <3>1. i = 1
        BY <1>1, <1>5, <2>2 DEF Cell
      <3> QED BY <2>1, <3>1
    <2>3. CASE g # 0
      <3>1. PICK h \in 0..Prompts - 1 : h = g - 1
        BY <1>1, <2>3
      <3>2. PICK p \in Nat : p = h * N
        BY <1>1
      <3>3. g * N = p + N
        BY <1>1, <3>1, <3>2
      <3>4. i - 1 = Cell(N, h, N)
        BY <1>1, <1>5, <3>2, <3>3 DEF Cell
      <3>5. PromptOf[i - 1] = h + 1
        BY <1>2, <1>3, <3>4
      <3> QED BY <2>1, <3>1, <3>5
    <2> QED BY <2>2, <2>3
  <1>6. PICK S, T : /\ S = {i \in 1..Total : i = 1 \/ PromptOf[i] # PromptOf[i - 1]}
                    /\ T = Firsts(N, Prompts)
    OBVIOUS
  <1>7. ASSUME NEW i \in S PROVE i \in T
    BY <1>4, <1>6
  <1>8. ASSUME NEW i \in T PROVE i \in S
    <2>1. PICK g \in 0..Prompts - 1 : i = Cell(N, g, 1)
      BY <1>6 DEF Firsts
    <2>2. i \in 1..Total /\ (i = 1 \/ PromptOf[i] # PromptOf[i - 1])
      BY <1>5, <2>1
    <2> QED BY <1>6, <2>2
  <1> QED BY <1>6, <1>7, <1>8

\* The rows of a prompt are in one share.
PromptsApart(s) ==
    \A c, d \in 1..DpSize : c # d =>
        \A i \in 1..Len(s[c]) : \A j \in 1..Len(s[d]) : PromptOf[s[c][i]] # PromptOf[s[d][j]]

\* Shares of equal size of all rows
AreShares(s) == IsPartition(s, DpSize, Total) /\ \A d \in 1..DpSize : Len(s[d]) = Share

\* A partition of the batch in parts of equal length gives everyone Share rows.
LEMMA EqualAreShares ==
    ASSUME BatchAssumption, NEW s, IsPartition(s, DpSize, Total),
           \A c, d \in 1..DpSize : Len(s[c]) = Len(s[d])
    PROVE  AreShares(s)
  <1>1. /\ DpSize \in Nat \ {0} /\ Total \in Nat \ {0} /\ Share \in Nat \ {0}
        /\ IsGrid(Total, DpSize, Share)
    BY Sizes
  <1>2. PICK l : l = Len(s[1])
    OBVIOUS
  <1>3. \A d \in 1..DpSize : Len(s[d]) = l
    BY <1>1, <1>2
  <1>4. l \in Nat /\ Total = DpSize * l
    <2>1. AllLong(s, DpSize, l) /\ Total \in Nat
      BY <1>1, <1>3 DEF AllLong
    <2>2. AreEven(s, DpSize, l, Total)
      BY ONLY <1>1, <2>1, IsPartition(s, DpSize, Total), EvenShares
    <2> QED BY ONLY <2>2 DEF AreEven
  <1>5. Total = DpSize * Share
    BY <1>1 DEF IsGrid
  <1>6. l = Share
    <2>1. PICK k \in Nat \ {0}, a \in Nat : k = DpSize /\ a = Share
      BY <1>1
    <2>2. k * l = k * a
      BY <1>4, <1>5, <2>1
    <2>3. l = a
      BY ONLY <1>4, <2>2, k \in Nat \ {0}, a \in Nat
    <2> QED BY <2>1, <2>3
  <1> QED BY <1>3, <1>6 DEF AreShares

\* Prefix grouping gives shares of equal size, and breaks up no prompt.
LEMMA GroupedShares ==
    ASSUME BatchAssumption, NEW w, Weighs(w, Total), Prompts % DpSize = 0,
           NEW s, s = GroupBalancedPartitions(w, PromptOf, DpSize)
    PROVE  AreShares(s) /\ PromptsApart(s)
  <1>1. /\ Prompts \in Nat \ {0} /\ N \in Nat \ {0} /\ IsGrid(Total, Prompts, N)
        /\ DpSize \in Nat \ {0} /\ Total \in Nat \ {0} /\ Share \in Nat \ {0} /\ Rows = 1..Total
        /\ IsGrid(Total, DpSize, Share)
    BY Sizes
  <1>2. PICK S : S = Firsts(N, Prompts)
    OBVIOUS
  <1>3. S = {i \in 1..Total : i = 1 \/ PromptOf[i] # PromptOf[i - 1]}
    BY <1>2, PromptStarts
  <1>4. Cardinality(S) = Prompts
    BY <1>1, <1>2, FirstsCounted
  <1>5. Len(PromptOf) = Total
    <2>1. PromptOf = [i \in 1..Total |-> (i - 1) \div N + 1]
      BY <1>1, PromptOfRow
    <2> QED BY ONLY <1>1, <2>1
  <1>6. PICK uid : uid = PromptOf
    OBVIOUS
  <1>7. Cardinality(S) % DpSize = 0
    BY <1>4
  <1>8. Keeps(s, S, DpSize, Total)
    <2>1. StartAt(S, uid, Total)
      BY <1>3, <1>5, <1>6 DEF StartAt
    <2>2. s = GroupBalancedPartitions(w, uid, DpSize)
      BY <1>6
    <2> QED BY ONLY <1>1, <1>7, <2>1, <2>2, Weighs(w, Total), GroupsBalanced
  <1>9. PICK groups, parts : /\ KeepsGroups(s, groups, parts, Prompts, DpSize, Total)
                             /\ AreGroups(groups, Prompts, S)
    BY <1>4, <1>8 DEF Keeps
  <1>10. /\ IsPartition(groups, Prompts, Total) /\ IsPartition(parts, DpSize, Prompts)
         /\ IsPartition(s, DpSize, Total)
         /\ \A d, e \in 1..DpSize : Len(parts[d]) = Len(parts[e])
         /\ Unbroken(s, groups, parts, DpSize)
    BY <1>9 DEF KeepsGroups
  <1>11. ASSUME NEW g \in 1..Prompts
         PROVE  Len(groups[g]) = N /\ \E h \in 0..Prompts - 1 : \A j \in 1..N : groups[g][j] = Cell(N, h, j)
    <2>1. AreGroups(groups, Prompts, Firsts(N, Prompts)) /\ Prompts \in Nat
      BY <1>1, <1>2, <1>9
    <2> QED BY ONLY <1>1, <1>10, <2>1, g \in 1..Prompts, GroupsAreRows
  <1>12. ASSUME NEW p \in 1..DpSize PROVE Len(s[p]) = Len(parts[p]) * N
    <2>1. AllLong(groups, Prompts, N)
      BY <1>11 DEF AllLong
    <2>2. PICK n, k, l, c : n = Total /\ k = N /\ l = Prompts /\ c = DpSize
      OBVIOUS
    <2>3. n \in Nat /\ k \in Nat \ {0} /\ l \in Nat /\ c \in Nat
      BY <1>1, <2>2
    <2>4. /\ IsPartition(groups, l, n) /\ AllLong(groups, l, k) /\ IsPartition(parts, c, l)
          /\ IsPartition(s, c, n) /\ Unbroken(s, groups, parts, c)
      BY <1>10, <2>1, <2>2
    <2>5. IsStretched(s, parts, c, k)
      BY ONLY <2>3, <2>4, GroupedLength
    <2> QED BY <2>2, <2>5 DEF IsStretched
  <1>13. \A c, d \in 1..DpSize : Len(s[c]) = Len(s[d])
    BY <1>10, <1>12
  <1>14. AreShares(s)
    BY <1>10, <1>13, EqualAreShares
  <1>15. ASSUME NEW c \in 1..DpSize, NEW d \in 1..DpSize, NEW i \in 1..Len(s[c]), NEW j \in 1..Len(s[d]),
                PromptOf[s[c][i]] = PromptOf[s[d][j]]
         PROVE  c = d
    <2>0. \A p \in 1..DpSize : \A q \in 1..Len(s[p]) : \E g \in 1..Len(parts[p]) :
             \E e \in 1..Len(groups[parts[p][g]]) : s[p][q] = groups[parts[p][g]][e]
      BY <1>10 DEF Unbroken
    <2>1. PICK a \in 1..Len(parts[c]) : \E e \in 1..Len(groups[parts[c][a]]) : s[c][i] = groups[parts[c][a]][e]
      BY ONLY <2>0, c \in 1..DpSize, i \in 1..Len(s[c])
    <2>2. PICK b \in 1..Len(parts[d]) : \E e \in 1..Len(groups[parts[d][b]]) : s[d][j] = groups[parts[d][b]][e]
      BY ONLY <2>0, d \in 1..DpSize, j \in 1..Len(s[d])
    <2>3. parts \in [1..DpSize -> Seq(1..Prompts)]
      BY <1>10 DEF IsPartition
    <2>4. PICK u \in 1..Prompts : u = parts[c][a]
      <3>1. PICK x \in Seq(1..Prompts) : x = parts[c]
        BY <2>3
      <3>2. x[a] \in 1..Prompts
        BY ONLY <3>1, a \in 1..Len(parts[c]), ElementOfSeq
      <3> QED BY <3>1, <3>2
    <2>5. PICK v \in 1..Prompts : v = parts[d][b]
      <3>1. PICK x \in Seq(1..Prompts) : x = parts[d]
        BY <2>3
      <3>2. x[b] \in 1..Prompts
        BY ONLY <3>1, b \in 1..Len(parts[d]), ElementOfSeq
      <3> QED BY <3>1, <3>2
    <2>6. PICK e \in 1..N : s[c][i] = groups[u][e]
      BY <1>11, <2>1, <2>4
    <2>7. PICK f \in 1..N : s[d][j] = groups[v][f]
      BY <1>11, <2>2, <2>5
    <2>8. PICK g \in 0..Prompts - 1 : \A q \in 1..N : groups[u][q] = Cell(N, g, q)
      BY <1>11
    <2>9. PICK h \in 0..Prompts - 1 : \A q \in 1..N : groups[v][q] = Cell(N, h, q)
      BY <1>11
    <2>10. PromptOf[s[c][i]] = g + 1 /\ PromptOf[s[d][j]] = h + 1
      <3>1. s[c][i] = Cell(N, g, e) /\ s[d][j] = Cell(N, h, f)
        BY <2>6, <2>7, <2>8, <2>9
      <3>2. \A x \in 0..Prompts - 1 : \A y \in 1..N : PromptOf[Cell(N, x, y)] = x + 1
        BY PromptOfRow
      <3>3. PromptOf[Cell(N, g, e)] = g + 1 /\ PromptOf[Cell(N, h, f)] = h + 1
        BY ONLY <3>2, g \in 0..Prompts - 1, h \in 0..Prompts - 1, e \in 1..N, f \in 1..N
      <3> QED BY ONLY <3>1, <3>3
    <2>11. g = h
      <3>1. g + 1 = h + 1
        BY <1>15, <2>10
      <3> QED BY ONLY <3>1, g \in 0..Prompts - 1, h \in 0..Prompts - 1
    <2>12. groups[u][1] = groups[v][1] /\ 1 \in 1..Len(groups[u]) /\ 1 \in 1..Len(groups[v])
      <3>1. Len(groups[u]) = N /\ Len(groups[v]) = N
        BY <1>11
      <3>2. 1 \in 1..N
        BY <1>1
      <3>3. groups[u][1] = Cell(N, g, 1) /\ groups[v][1] = Cell(N, h, 1)
        BY ONLY <2>8, <2>9, <3>2
      <3> QED BY ONLY <2>11, <3>1, <3>2, <3>3
    <2>13. u = v
      <3>1. \A y, z \in 1..Prompts : \A p \in 1..Len(groups[y]), q \in 1..Len(groups[z]) :
               groups[y][p] = groups[z][q] => y = z /\ p = q
        BY <1>10 DEF IsPartition
      <3> QED BY ONLY <2>12, <3>1, u \in 1..Prompts, v \in 1..Prompts
    <2>14. \A y, z \in 1..DpSize : \A p \in 1..Len(parts[y]), q \in 1..Len(parts[z]) :
               parts[y][p] = parts[z][q] => y = z /\ p = q
      BY <1>10 DEF IsPartition
    <2>15. parts[c][a] = parts[d][b]
      BY <2>4, <2>5, <2>13
    <2> QED BY ONLY <2>14, <2>15, c \in 1..DpSize, d \in 1..DpSize, a \in 1..Len(parts[c]), b \in 1..Len(parts[d])
  <1>16. PromptsApart(s)
    BY <1>15, ZenonT(40) DEF PromptsApart
  <1> QED BY <1>14, <1>16

\* y is x in another order.
IsRearranged(y, x, n) ==
    /\ x \in Seq(1..n) /\ NoTwice(x) /\ y \in Seq(1..n) /\ NoTwice(y)
    /\ \E at : Reordered(y, x, at, Len(x))

\* The order in a part does not matter to its weight.
LEMMA WeightReordered ==
    ASSUME NEW n, NEW w, Weighs(w, n), NEW x, NEW y, IsRearranged(y, x, n)
    PROVE  Weight(w, y) = Weight(w, x)
  <1>0. /\ n \in Nat /\ w \in [1..n -> Int] /\ x \in Seq(1..n) /\ NoTwice(x)
        /\ y \in Seq(1..n) /\ NoTwice(y)
    BY DEF IsRearranged, Weighs
  <1>a. PICK at : Reordered(y, x, at, Len(x))
    BY DEF IsRearranged
  <1>1. PICK l \in Nat : l = Len(x)
    BY ONLY <1>0
  <1>2. /\ Len(y) = l /\ \A p \in 1..l : at[p] \in 1..l /\ y[p] = x[at[p]]
        /\ \A q \in 1..l : \E p \in 1..l : at[p] = q
    <2>1. Reordered(y, x, at, l)
      BY <1>1, <1>a
    <2> QED BY ONLY l \in Nat, <2>1, ReorderedType
  <1>3. PICK M, L : M = Members(x) /\ L = Members(y)
    OBVIOUS
  <1>4. M = {x[i] : i \in 1..l} /\ L = {y[i] : i \in 1..l}
    BY <1>1, <1>2, <1>3 DEF Members
  <1>5. ASSUME NEW z \in M PROVE z \in L
    <2>1. PICK q \in 1..l : z = x[q]
      BY <1>4
    <2>2. PICK p \in 1..l : at[p] = q
      BY <1>2
    <2>3. y[p] = z
      BY <1>2, <2>1, <2>2
    <2> QED BY <1>4, <2>3
  <1>6. ASSUME NEW z \in L PROVE z \in M
    <2>1. PICK p \in 1..l : z = y[p]
      BY <1>4
    <2>2. at[p] \in 1..l /\ y[p] = x[at[p]]
      BY ONLY <1>2, p \in 1..l
    <2> QED BY <1>4, <2>1, <2>2
  <1>7. M = L
    BY <1>5, <1>6
  <1>8. Weight(w, x) = Iter(w)[M] /\ Weight(w, y) = Iter(w)[L]
    BY ONLY <1>0, <1>3, WeightOfSet
  <1> QED BY <1>7, <1>8

\* Without grouping, the shares have equal sizes and loads no further apart than k neighbours.
LEMMA EvenlyLoaded ==
    ASSUME BatchAssumption, NEW w, Weighs(w, Total), NEW parts, parts = BalancedPartitions(w, DpSize, TRUE),
           NEW s, s = [d \in 1..DpSize |-> LightOutside(w, parts[d])]
    PROVE  /\ AreShares(s)
           /\ \E most : /\ IsWidest(most, w, DpSize, Ascending(w), Share)
                        /\ CloseParts(s, w, DpSize, most)
  <1>1. /\ DpSize \in Nat \ {0} /\ Total \in Nat \ {0} /\ Share \in Nat \ {0}
        /\ IsGrid(Total, DpSize, Share) /\ Total % DpSize = 0
    BY Sizes DEF BatchAssumption, Total
  <1>2. IsGrid(Total, Share, DpSize)
    BY <1>1 DEF IsGrid
  <1>3. IsBalanced(parts, w, DpSize, Total, TRUE)
    <2>1. Total > 0
      BY <1>1
    <2> QED BY ONLY <1>1, <2>1, Weighs(w, Total), parts = BalancedPartitions(w, DpSize, TRUE), BalancedPartition
  <1>4. /\ IsPartition(parts, DpSize, Total)
        /\ \A d, e \in 1..DpSize : Len(parts[d]) = Len(parts[e])
        /\ \A most : AllClose(FirstStates(w, DpSize, TRUE), DpSize, most) => CloseParts(parts, w, DpSize, most)
    BY <1>3 DEF IsBalanced
  <1>5. PICK n, A : n = Total /\ A = 1..n
    OBVIOUS
  <1>6. n \in Nat /\ w \in [1..n -> Int]
    BY <1>1, <1>5 DEF Weighs
  <1>7. parts \in [1..DpSize -> Seq(A)]
    BY <1>4, <1>5 DEF IsPartition
  <1>8. ASSUME NEW d \in 1..DpSize
        PROVE  s[d] \in Seq(A) /\ \E at : Reordered(s[d], parts[d], at, Len(parts[d]))
    <2>1. PICK x \in Seq(A) : x = parts[d]
      BY <1>7
    <2>2. LightOutside(w, x) \in Seq(A) /\ \E at : Reordered(LightOutside(w, x), x, at, Len(x))
      BY ONLY <1>5, <1>6, x \in Seq(A), LightOutsideReorders
    <2>3. s[d] = LightOutside(w, x)
      BY <2>1
    <2> QED BY <2>1, <2>2, <2>3
  <1>9. SameParts(s, parts, DpSize, Total)
    <2>1. s \in [1..DpSize -> Seq(A)]
      <3>1. s = [d \in 1..DpSize |-> s[d]]
        OBVIOUS
      <3>2. \A d \in 1..DpSize : s[d] \in Seq(A)
        BY <1>8
      <3> QED BY ONLY <3>1, <3>2
    <2>2. \A d \in 1..DpSize : \E at : Reordered(s[d], parts[d], at, Len(parts[d]))
      BY <1>8
    <2> QED BY <1>5, <2>1, <2>2 DEF SameParts
  <1>10. IsPartition(s, DpSize, Total) /\ \A d \in 1..DpSize : Len(s[d]) = Len(parts[d])
    <2>1. DpSize \in Nat
      BY <1>1
    <2>2. IsPartition(parts, DpSize, Total)
      BY <1>4
    <2> QED BY ONLY <2>1, <2>2, <1>9, WithinReordered
  <1>11. AreShares(s)
    <2>1. \A c, d \in 1..DpSize : Len(s[c]) = Len(s[d])
      BY <1>4, <1>10
    <2> QED BY <1>10, <2>1, EqualAreShares
  <1>12. ASSUME NEW d \in 1..DpSize PROVE Weight(w, s[d]) = Weight(w, parts[d])
    <2>1. PICK x, y : x = parts[d] /\ y = s[d]
      OBVIOUS
    <2>2. x \in Seq(1..n) /\ y \in Seq(1..n)
      BY <1>5, <1>7, <1>8, <2>1
    <2>3. PICK at : Reordered(y, x, at, Len(x))
      BY <1>8, <2>1
    <2>4. NoTwice(x) /\ NoTwice(y)
      <3>1. /\ \A i \in 1..Len(parts[d]), j \in 1..Len(parts[d]) : parts[d][i] = parts[d][j] => i = j
            /\ \A i \in 1..Len(s[d]), j \in 1..Len(s[d]) : s[d][i] = s[d][j] => i = j
        <4>1. /\ \A a, b \in 1..DpSize : \A i \in 1..Len(parts[a]), j \in 1..Len(parts[b]) :
                    parts[a][i] = parts[b][j] => a = b /\ i = j
              /\ \A a, b \in 1..DpSize : \A i \in 1..Len(s[a]), j \in 1..Len(s[b]) :
                    s[a][i] = s[b][j] => a = b /\ i = j
          BY ONLY <1>4, <1>10 DEF IsPartition
        <4> QED BY ONLY <4>1, d \in 1..DpSize
      <3> QED BY ONLY <2>1, <3>1 DEF NoTwice
    <2>6. IsRearranged(y, x, n)
      BY ONLY <2>2, <2>3, <2>4 DEF IsRearranged
    <2>7. Weighs(w, n)
      BY <1>5
    <2>5. Weight(w, y) = Weight(w, x)
      BY ONLY <2>6, <2>7, WeightReordered
    <2> QED BY <2>1, <2>5
  <1>13. PICK most : /\ AllClose(FirstStates(w, DpSize, TRUE), DpSize, most)
                     /\ IsWidest(most, w, DpSize, Ascending(w), Share)
    <2>1. Total > 0
      BY <1>1
    <2>2. PICK S, up : S = FirstStates(w, DpSize, TRUE) /\ up = Ascending(w)
      OBVIOUS
    <2>3. \E most : AllClose(S, DpSize, most) /\ IsWidest(most, w, DpSize, up, Share)
      BY ONLY <1>1, <1>2, <2>1, <2>2, Weighs(w, Total), StartClose
    <2> QED BY ONLY <2>2, <2>3
  <1>14. CloseParts(s, w, DpSize, most)
    <2>1. CloseParts(parts, w, DpSize, most)
      BY <1>4, <1>13
    <2> QED BY <1>12, <2>1 DEF CloseParts
  <1> QED BY <1>11, <1>13, <1>14

----------------------------------------------------------------------------
(* The batch in every phase.                                                *)

\* What the rows cost
Loads == Workloads(input.len)

\* What _balance_batch promises of the shares
IsFair(s) ==
    /\ AreShares(s)
    /\ IF input.grouper THEN PromptsApart(s)
       ELSE \E most : /\ IsWidest(most, Loads, DpSize, Ascending(Loads), Share)
                      /\ CloseParts(s, Loads, DpSize, most)

\* What is known of the inputs
LEMMA InputType ==
    ASSUME BatchAssumption, input \in Inputs
    PROVE  /\ input.len \in [1..Total -> Nat \ {0}] /\ input.len \in [1..Total -> 1..MaxTokens]
           /\ input.score \in [1..Total -> Nat] /\ input.baseline \in [1..Prompts -> Nat]
           /\ input.dynamic \in BOOLEAN /\ input.grouper \in BOOLEAN /\ input.legacy \in BOOLEAN
           /\ input.ref \in BOOLEAN /\ input.critic \in BOOLEAN
           /\ input.grouper => Prompts % DpSize = 0
           /\ input.mode \in LossModes
  <1>1. /\ input.len \in [Rows -> 1..MaxTokens] /\ input.score \in [Rows -> Nat]
        /\ input.baseline \in [1..Prompts -> Nat]
        /\ {input.dynamic, input.grouper, input.legacy, input.ref, input.critic} \subseteq BOOLEAN
        /\ input.grouper => Prompts % DpSize = 0
        /\ input.mode \in LossModes
    BY DEF BatchAssumption
  <1>2. Rows = 1..Total /\ MaxTokens \in Nat
    BY Sizes
  <1>3. input.len \in [1..Total -> Nat \ {0}]
    <2>1. \A x \in 1..MaxTokens : x \in Nat \ {0}
      BY <1>2
    <2> QED BY <1>1, <1>2, <2>1
  <1> QED BY <1>1, <1>2, <1>3

\* Balancing the answers keeps that promise.
LEMMA SharesDivide ==
    ASSUME BatchAssumption, input \in Inputs, batch = Answered, NEW s, s = BalancedShares(batch)
    PROVE  IsFair(s)
  <1>1. Total \in Nat \ {0} /\ Rows = 1..Total
    BY Sizes
  <1>2. /\ input.len \in [1..Total -> Nat \ {0}] /\ input.grouper \in BOOLEAN
        /\ input.grouper => Prompts % DpSize = 0
    BY InputType
  <1>3. /\ Len(batch) = Total
        /\ \A i \in 1..Total : batch[i].response = i /\ batch[i].uid = PromptOf[i]
    BY <1>1 DEF Answered, FreshRow
  <1>4. Lens(batch) = input.len
    <2>1. Lens(batch) = [i \in 1..Total |-> input.len[i]]
      BY <1>3 DEF Lens
    <2> QED BY <1>2, <2>1
  <1>5. Uids(batch) = PromptOf
    <2>1. Uids(batch) = [i \in 1..Total |-> PromptOf[i]]
      BY <1>3 DEF Uids
    <2>2. PromptOf = [i \in 1..Total |-> (i - 1) \div N + 1]
      BY <1>1, PromptOfRow
    <2> QED BY <2>1, <2>2
  <1>6. Weighs(Loads, Total)
    <2>1. PICK lens, w, n : lens = input.len /\ w = Loads /\ n = Total
      OBVIOUS
    <2>2. lens \in [1..n -> Nat \ {0}] /\ n \in Nat /\ w = Workloads(lens)
      BY <1>1, <1>2, <2>1 DEF Loads
    <2> QED BY <2>1, <2>2, WorkloadsWeigh
  <1>7. CASE input.grouper
    <2>1. s = GroupBalancedPartitions(Loads, PromptOf, DpSize)
      BY <1>4, <1>5, <1>7 DEF BalancedShares, Loads
    <2>2. AreShares(s) /\ PromptsApart(s)
      BY <1>2, <1>6, <1>7, <2>1, GroupedShares
    <2> QED BY <1>7, <2>2 DEF IsFair
  <1>8. CASE ~input.grouper
    <2>1. PICK parts : parts = BalancedPartitions(Loads, DpSize, TRUE)
      OBVIOUS
    <2>2. s = [d \in 1..DpSize |-> LightOutside(Loads, parts[d])]
      BY <1>4, <1>8, <2>1 DEF BalancedShares, Loads
    <2>3. /\ AreShares(s)
          /\ \E most : /\ IsWidest(most, Loads, DpSize, Ascending(Loads), Share)
                       /\ CloseParts(s, Loads, DpSize, most)
      <3>1. PICK w : w = Loads
        OBVIOUS
      <3>2. /\ Weighs(w, Total) /\ parts = BalancedPartitions(w, DpSize, TRUE)
            /\ s = [d \in 1..DpSize |-> LightOutside(w, parts[d])]
        BY <1>6, <2>1, <2>2, <3>1
      <3>3. /\ AreShares(s)
            /\ \E most : /\ IsWidest(most, w, DpSize, Ascending(w), Share)
                         /\ CloseParts(s, w, DpSize, most)
        BY ONLY BatchAssumption, <3>2, EvenlyLoaded
      <3> QED BY ONLY <3>1, <3>3
    <2> QED BY <1>8, <2>3 DEF IsFair
  <1> QED BY <1>2, <1>7, <1>8

\* The load of a share, as the property adds it up
LEMMA LoadIsSum ==
    ASSUME NEW n, n \in Nat, NEW len, len \in [1..n -> Nat \ {0}], NEW S, S \subseteq 1..n
    PROVE  MapThenSumSet(LAMBDA x : Workload(len[x]), S) = Iter(Workloads(len))[S]
  <1> DEFINE iter == CHOOSE iter : iter = [s \in SUBSET S |->
                         IF s = {} THEN 0
                         ELSE Workload(len[CHOOSE x \in s : TRUE]) + iter[s \ {CHOOSE x \in s : TRUE}]]
  <1>1. MapThenSumSet(LAMBDA x : Workload(len[x]), S) = iter[S]
    BY DEF MapThenSumSet, MapThenFoldSet
  <1>2. PICK w : w = Workloads(len)
    OBVIOUS
  <1>3. Summable(w, 1..n) /\ \A i \in 1..n : w[i] = Workload(len[i])
    <2>1. Weighs(w, n) /\ \A i \in 1..n : w[i] = Workload(len[i])
      BY <1>2, WorkloadsWeigh
    <2> QED BY <2>1, FS_Interval DEF Weighs, Summable
  <1>4. PICK F : F = [x \in S |-> w[x]]
    OBVIOUS
  <1>5. IsFiniteSet(S) /\ F \in [S -> Int] /\ DOMAIN F = S
    <2>1. IsFiniteSet(S)
      <3>1. PICK T : T = 1..n
        OBVIOUS
      <3>2. IsFiniteSet(T) /\ S \subseteq T
        BY <3>1, FS_Interval
      <3> QED BY ONLY <3>2, FS_Subset
    <2> QED BY <1>3, <1>4, <2>1 DEF Summable
  <1>6. ASSUME NEW s \in SUBSET S, s # {} PROVE Pick(s) \in s /\ F[Pick(s)] = Workload(len[Pick(s)])
    <2>1. Pick(s) \in s
      BY <1>6 DEF Pick
    <2> QED BY <1>3, <1>4, <2>1
  <1>7. \E g : g = [s \in SUBSET S |->
                       IF s = {} THEN 0
                       ELSE Workload(len[CHOOSE x \in s : TRUE]) + g[s \ {CHOOSE x \in s : TRUE}]]
    <2>1. PICK pick : pick = [s \in SUBSET S |-> Pick(s)]
      OBVIOUS
    <2>2. \A s \in SUBSET S : s # {} => pick[s] \in s
      BY <1>6, <2>1
    <2>3. PICK g : SumsWith(S, F, pick, g)
      BY <1>5, <2>2, SumsExist
    <2>4. g = [s \in SUBSET S |-> IF s = {} THEN 0 ELSE F[pick[s]] + g[s \ {pick[s]}]]
      BY <2>3 DEF SumsWith
    <2>5. g = [s \in SUBSET S |-> IF s = {} THEN 0 ELSE Workload(len[Pick(s)]) + g[s \ {Pick(s)}]]
      <3>1. \A s \in SUBSET S : (IF s = {} THEN 0 ELSE F[pick[s]] + g[s \ {pick[s]}])
                                 = IF s = {} THEN 0 ELSE Workload(len[Pick(s)]) + g[s \ {Pick(s)}]
        BY <1>6, <2>1
      <3> QED BY ONLY <2>4, <3>1
    <2> QED BY ONLY <2>5 DEF Pick
  <1>8. iter = [s \in SUBSET S |->
                       IF s = {} THEN 0
                       ELSE Workload(len[CHOOSE x \in s : TRUE]) + iter[s \ {CHOOSE x \in s : TRUE}]]
    BY ONLY <1>7 DEF iter
  <1> HIDE DEF iter
  <1>9. iter = [s \in SUBSET S |-> IF s = {} THEN 0 ELSE Workload(len[Pick(s)]) + iter[s \ {Pick(s)}]]
    BY ONLY <1>8 DEF Pick
  <1>10. iter[S] = SumFunction(F)
    <2>1. iter[{}] = 0
      BY <1>9
    <2>2. ASSUME NEW s \in SUBSET S, s # {} PROVE \E p \in s : iter[s] = F[p] + iter[s \ {p}]
      <3>1. iter[s] = Workload(len[Pick(s)]) + iter[s \ {Pick(s)}]
        BY <1>9, <2>2
      <3> QED BY <1>6, <2>2, <3>1
    <2> QED BY <1>5, <2>1, <2>2, SumUnique
  <1>11. SumFunction(F) = Iter(F)[S]
    BY <1>5, SumUnfolds
  <1>12. Iter(F)[S] = Iter(w)[S]
    <2>1. Agrees(F, S, w, 1..n, S)
      BY <1>3, <1>4, <1>5 DEF Summable, Agrees
    <2> QED BY <2>1, SumAgrees
  <1> QED BY <1>1, <1>2, <1>10, <1>11, <1>12

Phases == {"generate", "balance", "reward", "old_log_prob", "ref_log_prob", "values", "advantage",
           "update_critic", "update_actor", "done"}

\* b is the row of response x.
IsRow(b, x) ==
    b = [uid |-> PromptOf[x], response |-> x, baseline |-> Baseline(x),
         old_log_prob |-> b.old_log_prob, ref_log_prob |-> b.ref_log_prob, values |-> b.values,
         advantage |-> b.advantage, return |-> b.return]

\* Columns can be set.
LEMMA RowSet ==
    ASSUME NEW b, NEW x, IsRow(b, x), NEW z, NEW y
    PROVE  /\ IsRow([b EXCEPT !.advantage = z, !.return = y], x)
           /\ IsRow([b EXCEPT !["old_log_prob"] = z], x)
           /\ IsRow([b EXCEPT !["ref_log_prob"] = z], x)
           /\ IsRow([b EXCEPT !["values"] = z], x)
  <1>1. PICK u, l, o, r, v, a, t :
           b = [uid |-> u, response |-> x, baseline |-> l, old_log_prob |-> o,
                ref_log_prob |-> r, values |-> v, advantage |-> a, return |-> t]
           /\ u = PromptOf[x] /\ l = Baseline(x)
    BY DEF IsRow
  <1>2. [b EXCEPT !.advantage = z, !.return = y] =
           [uid |-> u, response |-> x, baseline |-> l, old_log_prob |-> o,
                ref_log_prob |-> r, values |-> v, advantage |-> z, return |-> y]
    <2>1. PICK c : c = [uid |-> u, response |-> x, baseline |-> l, old_log_prob |-> o,
                        ref_log_prob |-> r, values |-> v, advantage |-> z, return |-> t]
      OBVIOUS
    <2>2. [b EXCEPT !.advantage = z] = c
      BY ONLY <1>1, <2>1
    <2>3. [c EXCEPT !.return = y] =
             [uid |-> u, response |-> x, baseline |-> l, old_log_prob |-> o,
                  ref_log_prob |-> r, values |-> v, advantage |-> z, return |-> y]
      BY ONLY <2>1
    <2>4. [b EXCEPT !.advantage = z, !.return = y] = [[b EXCEPT !.advantage = z] EXCEPT !.return = y]
      OBVIOUS
    <2> QED BY ONLY <2>2, <2>3, <2>4
  <1>3. [b EXCEPT !["old_log_prob"] = z] =
           [uid |-> u, response |-> x, baseline |-> l, old_log_prob |-> z,
                ref_log_prob |-> r, values |-> v, advantage |-> a, return |-> t]
    BY ONLY <1>1
  <1>4. [b EXCEPT !["ref_log_prob"] = z] =
           [uid |-> u, response |-> x, baseline |-> l, old_log_prob |-> o,
                ref_log_prob |-> z, values |-> v, advantage |-> a, return |-> t]
    BY ONLY <1>1
  <1>5. [b EXCEPT !["values"] = z] =
           [uid |-> u, response |-> x, baseline |-> l, old_log_prob |-> o,
                ref_log_prob |-> r, values |-> z, advantage |-> a, return |-> t]
    BY ONLY <1>1
  <1>6. ASSUME NEW c, NEW o1, NEW r1, NEW v1, NEW a1, NEW t1,
               c = [uid |-> u, response |-> x, baseline |-> l, old_log_prob |-> o1,
                    ref_log_prob |-> r1, values |-> v1, advantage |-> a1, return |-> t1]
        PROVE  IsRow(c, x)
    BY <1>1, <1>6 DEF IsRow
  <1> QED BY <1>2, <1>3, <1>4, <1>5, <1>6

\* The batch is the shares, one after the other.
IsBatch(s) ==
    /\ batch = [i \in 1..Total |-> batch[i]]
    /\ \A d \in 1..DpSize : \A j \in 1..Share : IsRow(batch[Cell(Share, d - 1, j)], s[d][j])

\* ... for shares that are fair.
Balanced == \E s : IsFair(s) /\ IsBatch(s)

\* The batch in every phase: as asked, as answered, then balanced shares whatever columns it has.
BatchInv ==
    /\ input \in Inputs /\ phase \in Phases
    /\ phase = "generate" => batch = Asked
    /\ phase = "balance" => batch = Answered
    /\ phase \notin {"generate", "balance"} => Balanced

\* It holds in the beginning.
LEMMA BatchInit ==
    ASSUME BatchAssumption, Init PROVE BatchInv
  BY DEF Init, BatchInv, Phases, Asked, FreshRow

\* Whatever keeps what rows are keeps the batch.
LEMMA BatchKept ==
    ASSUME BatchAssumption, Balanced, input' = input, batch' = [i \in 1..Total |-> batch'[i]],
           \A i \in 1..Total : \A x : IsRow(batch[i], x) => IsRow(batch'[i], x)
    PROVE  Balanced'
  <1>1. PICK s : IsFair(s) /\ IsBatch(s)
    BY DEF Balanced
  <1>2. IsFair(s)'
    BY <1>1 DEF IsFair, Loads
  <1>3. ASSUME NEW d \in 1..DpSize, NEW j \in 1..Share PROVE Cell(Share, d - 1, j) \in 1..Total
    <2>1. DpSize \in Nat \ {0} /\ IsGrid(Total, DpSize, Share)
      BY Sizes
    <2>2. d - 1 \in 0..DpSize - 1
      BY ONLY <2>1, d \in 1..DpSize
    <2> QED BY ONLY <2>1, <2>2, j \in 1..Share, Cells
  <1>4. ASSUME NEW d \in 1..DpSize, NEW j \in 1..Share
        PROVE  IsRow(batch[Cell(Share, d - 1, j)], s[d][j])'
    <2>1. IsRow(batch[Cell(Share, d - 1, j)], s[d][j])
      BY <1>1 DEF IsBatch
    <2>2. PICK i \in 1..Total : i = Cell(Share, d - 1, j)
      BY <1>3
    <2>3. IsRow(batch'[i], s[d][j])
      BY <2>1, <2>2
    <2>4. IsRow(batch[i], s[d][j])'
      BY <2>3 DEF IsRow, Baseline
    <2> QED BY <2>2, <2>4
  <1>5. IsBatch(s)'
    BY <1>4 DEF IsBatch
  <1> QED BY <1>2, <1>5 DEF Balanced

\* It depends on the driver's variables.
LEMMA BatchUnmoved ==
    ASSUME BatchInv, UNCHANGED driverVars
    PROVE  BatchInv'
  <1>1. input' = input /\ phase' = phase /\ batch' = batch
    BY DEF driverVars
  <1>2. Asked' = Asked /\ Answered' = Answered
    BY <1>1 DEF Asked, Answered, Baseline
  <1>3. Balanced => Balanced'
    BY <1>1 DEF Balanced, IsFair, IsBatch, IsRow, Baseline, Loads
  <1> QED BY <1>1, <1>2, <1>3 DEF BatchInv

\* Generation keeps it.
LEMMA BatchGenerate ==
    ASSUME BatchAssumption, BatchInv, Generate PROVE BatchInv'
  <1>1. input' = input /\ phase' = "balance" /\ phase = "generate" /\ input \in Inputs /\ batch = Asked
    BY DEF Generate, BatchInv
  <1>2. batch' = Answered
    BY <1>1, GenerateAnswers
  <1>3. Answered' = Answered
    BY <1>1 DEF Answered, Baseline
  <1> QED BY <1>1, <1>2, <1>3 DEF BatchInv, Phases

\* Balancing keeps it.
LEMMA BatchBalance ==
    ASSUME BatchAssumption, BatchInv, Balance PROVE BatchInv'
  <1>1. input' = input /\ phase' = "reward" /\ input \in Inputs /\ batch = Answered
    BY DEF Balance, BatchInv
  <1>2. PICK s : s = BalancedShares(batch)
    OBVIOUS
  <1>3. IsFair(s)
    BY <1>1, <1>2, SharesDivide
  <1>4. PICK order : order = FlattenSeq(s)
    OBVIOUS
  <1>5. batch' = [i \in 1..Len(order) |-> batch[order[i]]]
    BY <1>2, <1>4 DEF Balance
  <1>6. /\ DpSize \in Nat \ {0} /\ Total \in Nat \ {0} /\ Share \in Nat \ {0} /\ Rows = 1..Total
        /\ IsGrid(Total, DpSize, Share)
    BY Sizes
  <1>7. IsPartition(s, DpSize, Total) /\ \A d \in 1..DpSize : Len(s[d]) = Share
    BY <1>3 DEF IsFair, AreShares
  <1>8. IsOrder(order, Total)
    <2>1. DpSize \in Nat /\ Total \in Nat
      BY <1>6
    <2> QED BY ONLY <2>1, <1>4, <1>7, FlattenPermutes
  <1>9. Len(order) = Total
    BY <1>8 DEF IsOrder
  <1>10. batch' = [i \in 1..Total |-> batch[order[i]]]
    BY <1>5, <1>9
  <1>11. ASSUME NEW d \in 1..DpSize, NEW j \in 1..Share
         PROVE  IsRow(batch[Cell(Share, d - 1, j)], s[d][j])'
    <2>1. Cell(Share, d - 1, j) \in 1..Total /\ order[Cell(Share, d - 1, j)] = s[d][j]
      <3>1. PICK l : l = Share
        OBVIOUS
      <3>2. AllLong(s, DpSize, l) /\ Total \in Nat
        BY <1>6, <1>7, <3>1 DEF AllLong
      <3>4. AreEven(s, DpSize, l, Total)
        BY ONLY <1>6, <1>7, <3>2, EvenShares
      <3>3. \A e \in 1..DpSize : \A i \in 1..l : /\ Cell(l, e - 1, i) \in 1..Total
                                                 /\ FlattenSeq(s)[Cell(l, e - 1, i)] = s[e][i]
        BY ONLY <3>4 DEF AreEven
      <3> QED BY ONLY <1>4, <3>1, <3>3, d \in 1..DpSize, j \in 1..Share
    <2>2. PICK i \in 1..Total : i = Cell(Share, d - 1, j)
      BY <2>1
    <2>3. s[d][j] \in 1..Total
      <3>1. PICK y \in Seq(1..Total) : y = s[d]
        BY <1>7 DEF IsPartition
      <3>2. y[j] \in 1..Total
        BY <1>7, <3>1, ElementOfSeq
      <3> QED BY <3>1, <3>2
    <2>4. PICK x \in 1..Total : x = s[d][j]
      BY <2>3
    <2>5. batch'[i] = Answered[x]
      BY <1>1, <1>10, <2>1, <2>2, <2>4
    <2>6. batch'[i] = FreshRow(PromptOf[x], x, Baseline(x))
      BY <2>5 DEF Answered
    <2>7. Baseline(x)' = Baseline(x)
      BY <1>1 DEF Baseline
    <2>8. IsRow(batch[i], x)'
      BY <2>6, <2>7 DEF IsRow, FreshRow
    <2> QED BY <2>2, <2>4, <2>8
  <1>12. IsBatch(s)'
    <2>1. batch' = [i \in 1..Total |-> batch'[i]]
      BY <1>10
    <2> QED BY <1>11, <2>1 DEF IsBatch
  <1>13. IsFair(s)'
    BY <1>1, <1>3 DEF IsFair, Loads
  <1>14. Balanced'
    BY <1>12, <1>13 DEF Balanced
  <1> QED BY <1>1, <1>14 DEF BatchInv, Phases

\* The batch has all its rows.
LEMMA BatchLength ==
    ASSUME BatchAssumption, Balanced
    PROVE  Len(batch) = Total /\ batch = [i \in 1..Total |-> batch[i]]
  <1>1. batch = [i \in 1..Total |-> batch[i]] /\ Total \in Nat
    BY Sizes DEF Balanced, IsBatch
  <1> QED BY <1>1

\* Collecting a column keeps it.
LEMMA BatchCollect ==
    ASSUME BatchAssumption, BatchInv, Collect PROVE BatchInv'
  <1>1. /\ input' = input /\ phase \in Inference \cup Updates /\ phase' = After(phase) /\ input \in Inputs
        /\ Balanced
    BY DEF Collect, BatchInv, Inference, Updates
  <1>2. phase' \in Phases \ {"generate", "balance"}
    BY <1>1 DEF After, Phases, Inference, Updates
  <1>3. Len(batch) = Total /\ batch = [i \in 1..Total |-> batch[i]]
    BY <1>1, BatchLength
  <1>4. Balanced'
    <2>1. CASE phase \in Updates
      <3>1. batch' = batch
        BY <2>1 DEF Collect
      <3> QED BY <1>1, <1>3, <3>1, BatchKept
    <2>2. CASE phase \notin Updates
      <3>1. PICK column : batch' = [i \in 1..Total |-> [batch[i] EXCEPT ![phase] = column[i]]]
        BY <1>3, <2>2 DEF Collect
      <3>2. ASSUME NEW i \in 1..Total, NEW x, IsRow(batch[i], x) PROVE IsRow(batch'[i], x)
        <4>1. batch'[i] = [batch[i] EXCEPT ![phase] = column[i]]
          BY <3>1
        <4>2. PICK b : b = batch[i]
          OBVIOUS
        <4>3. phase \in {"old_log_prob", "ref_log_prob", "values"}
          BY <1>1, <2>2 DEF Inference
        <4>4. /\ IsRow([b EXCEPT !["old_log_prob"] = column[i]], x)
              /\ IsRow([b EXCEPT !["ref_log_prob"] = column[i]], x)
              /\ IsRow([b EXCEPT !["values"] = column[i]], x)
          BY <3>2, <4>2, RowSet
        <4> QED BY <4>1, <4>2, <4>3, <4>4
      <3>3. batch' = [i \in 1..Total |-> batch'[i]]
        BY <3>1
      <3> QED BY <1>1, <3>2, <3>3, BatchKept
    <2> QED BY <2>1, <2>2
  <1> QED BY <1>1, <1>2, <1>4 DEF BatchInv

\* Computing advantages keeps it.
LEMMA BatchAdvantage ==
    ASSUME BatchAssumption, BatchInv, ComputeAdvantage PROVE BatchInv'
  <1>1. /\ input' = input /\ phase = "advantage" /\ phase' \in {"update_critic", "update_actor"}
        /\ input \in Inputs /\ Balanced
    BY DEF ComputeAdvantage, BatchInv
  <1>3. Len(batch) = Total /\ batch = [i \in 1..Total |-> batch[i]]
    BY <1>1, BatchLength
  <1>4. PICK a, v : batch' = [i \in 1..Total |-> [batch[i] EXCEPT !.advantage = a[i], !.return = v[i]]]
    <2> DEFINE b == [uid |-> Uids(batch), score |-> reward, len |-> Lens(batch),
                     baseline |-> [i \in 1..Len(batch) |-> batch[i].baseline]]
               a == [i \in 1..Total |-> Advantage(input.estimator, b, i)]
               v == [i \in 1..Total |-> Return(input.estimator, b, i)]
    <2>1. batch' = [i \in 1..Total |-> [batch[i] EXCEPT !.advantage = Advantage(input.estimator, b, i),
                                                        !.return = Return(input.estimator, b, i)]]
      BY <1>3 DEF ComputeAdvantage
    <2>2. \A i \in 1..Total : a[i] = Advantage(input.estimator, b, i) /\ v[i] = Return(input.estimator, b, i)
      OBVIOUS
    <2> HIDE DEF a, v, b
    <2>3. batch' = [i \in 1..Total |-> [batch[i] EXCEPT !.advantage = a[i], !.return = v[i]]]
      BY ONLY <2>1, <2>2
    <2> QED BY ONLY <2>3
  <1>5. ASSUME NEW i \in 1..Total, NEW x, IsRow(batch[i], x) PROVE IsRow(batch'[i], x)
    <2>1. batch'[i] = [batch[i] EXCEPT !.advantage = a[i], !.return = v[i]]
      BY <1>4
    <2>2. PICK b : b = batch[i]
      OBVIOUS
    <2>3. IsRow([b EXCEPT !.advantage = a[i], !.return = v[i]], x)
      BY <1>5, <2>2, RowSet
    <2> QED BY <2>1, <2>2, <2>3
  <1>6. batch' = [i \in 1..Total |-> batch'[i]]
    BY <1>4
  <1>7. Balanced'
    BY <1>1, <1>5, <1>6, BatchKept
  <1> QED BY <1>1, <1>7 DEF BatchInv, Phases

\* Every step keeps it.
LEMMA BatchStep ==
    ASSUME BatchAssumption, BatchInv, [Next]_vars PROVE BatchInv'
  <1>1. CASE Generate
    BY <1>1, BatchGenerate
  <1>2. CASE Balance
    BY <1>2, BatchBalance
  <1>3. CASE Score
    <2>1. input' = input /\ batch' = batch /\ phase = "reward" /\ phase' = "old_log_prob" /\ Balanced
      BY <1>3 DEF Score, BatchInv
    <2>2. Balanced'
      <3>1. batch' = [i \in 1..Total |-> batch'[i]]
        BY <2>1, BatchLength
      <3>2. \A i \in 1..Total : \A x : IsRow(batch[i], x) => IsRow(batch'[i], x)
        BY <2>1
      <3> QED BY <2>1, <3>1, <3>2, BatchKept
    <2> QED BY <2>1, <2>2 DEF BatchInv, Phases
  <1>4. CASE Dispatch
    BY <1>4, BatchUnmoved, SMTT(30) DEF Dispatch
  <1>5. CASE Collect
    BY <1>5, BatchCollect
  <1>6. CASE ComputeAdvantage
    BY <1>6, BatchAdvantage
  <1>7. CASE \E r \in Ranks : Rank(r)
    BY <1>7, BatchUnmoved DEF Rank, Begin, Agree, Forward, ReturnOutputs, Step
  <1>8. CASE UNCHANGED vars
    BY <1>8, BatchUnmoved DEF vars
  <1> QED BY <1>1, <1>2, <1>3, <1>4, <1>5, <1>6, <1>7, <1>8 DEF Next, Driver

----------------------------------------------------------------------------
(* The shares are fair.                                                     *)

\* The responses of share d, as SharesAreFair has them
ResponsesOf(d) == {b.response : b \in ToSet(Chunk(batch, DpSize, d))}

\* The responses in a chunk of the batch are those of the share.
LEMMA ChunkIsShare ==
    ASSUME BatchAssumption, NEW s, AreShares(s), IsBatch(s), NEW d \in 1..DpSize
    PROVE  ResponsesOf(d) = Members(s[d])
  <1>1. /\ DpSize \in Nat \ {0} /\ Total \in Nat \ {0} /\ Share \in Nat \ {0}
        /\ IsGrid(Total, DpSize, Share)
    BY Sizes
  <1>2. batch = [i \in 1..Total |-> batch[i]]
    BY DEF IsBatch
  <1>3. PICK A : A = {batch[i] : i \in 1..Total}
    OBVIOUS
  <1>4. batch \in Seq(A) /\ Len(batch) = Total
    <2>1. batch \in [1..Total -> A]
      BY <1>2, <1>3
    <2> QED BY ONLY <1>1, <2>1
  <1>5. PICK seq, n : seq = batch /\ n = Total
    OBVIOUS
  <1>6. PICK c : c = Chunk(batch, DpSize, d)
    OBVIOUS
  <1>7. c = [j \in 1..Share |-> batch[Cell(Share, d - 1, j)]]
    <2>1. seq \in Seq(A) /\ n = Len(seq) /\ IsGrid(n, DpSize, Share)
      BY <1>1, <1>4, <1>5
    <2>2. Chunk(seq, DpSize, d) = [j \in 1..Share |-> seq[Cell(Share, d - 1, j)]]
      BY ONLY <2>1, d \in 1..DpSize, ChunkAt
    <2> QED BY <1>5, <1>6, <2>2
  <1>8. \A j \in 1..Share : c[j].response = s[d][j]
    <2> SUFFICES ASSUME NEW j \in 1..Share PROVE c[j].response = s[d][j]
      OBVIOUS
    <2>1. IsRow(batch[Cell(Share, d - 1, j)], s[d][j])
      BY DEF IsBatch
    <2>2. IsRow(c[j], s[d][j])
      BY <1>7, <2>1
    <2> QED BY <2>2 DEF IsRow
  <1>9. ToSet(c) = {c[j] : j \in 1..Share}
    BY <1>7 DEF ToSet
  <1>10. Members(s[d]) = {s[d][j] : j \in 1..Share}
    BY DEF Members, AreShares
  <1>11. ResponsesOf(d) = {b.response : b \in ToSet(c)}
    BY <1>6 DEF ResponsesOf
  <1>12. PICK R, M : R = ResponsesOf(d) /\ M = Members(s[d])
    OBVIOUS
  <1>13. ASSUME NEW z \in R PROVE z \in M
    <2>1. PICK b \in ToSet(c) : z = b.response
      BY <1>11, <1>12
    <2>2. PICK j \in 1..Share : b = c[j]
      BY <1>9
    <2> QED BY <1>8, <1>10, <1>12, <2>1, <2>2
  <1>14. ASSUME NEW z \in M PROVE z \in R
    <2>1. PICK j \in 1..Share : z = s[d][j]
      BY <1>10, <1>12
    <2>2. c[j] \in ToSet(c) /\ c[j].response = z
      BY <1>8, <1>9, <2>1
    <2> QED BY <1>11, <1>12, <2>2
  <1> QED BY <1>12, <1>13, <1>14

\* A longer row weighs more.
LEMMA WorkloadGrows ==
    ASSUME NEW a \in Nat, NEW b \in Nat, a < b
    PROVE  Workload(a) < Workload(b) /\ Workload(a) \in Int /\ Workload(b) \in Int
  <1>1. PICK c \in Nat : b = a + c /\ c > 0
    <2>1. b - a \in Nat /\ b = a + (b - a) /\ b - a > 0
      OBVIOUS
    <2> QED BY <2>1
  <1>2. b * b = a * a + (2 * (a * c) + c * c)
    BY <1>1
  <1>3. PICK p \in Nat, q \in Nat, t \in Nat : p = a * a /\ q = a * c /\ t = c * c
    BY <1>1
  <1>4. Workload(a) = 24576 * a + p /\ Workload(b) = 24576 * (a + c) + (p + (2 * q + t))
    BY <1>1, <1>2, <1>3 DEF Workload
  <1> QED BY ONLY <1>1, <1>4, a \in Nat, c \in Nat, p \in Nat, q \in Nat, t \in Nat

\* Rows of a length between those of two, as SharesAreFair has them
Between(x, y) == {z \in Rows : input.len[y] < input.len[z] /\ input.len[z] < input.len[x]}

\* Between the first and the last of k neighbours lie k - 2 others.
LEMMA FewBetween ==
    ASSUME BatchAssumption, input \in Inputs, NEW most,
           IsWidest(most, Loads, DpSize, Ascending(Loads), Share), DpSize > 1
    PROVE  \E x, y \in Rows : /\ Cardinality(Between(x, y)) < DpSize - 1
                              /\ most = Workload(input.len[x]) - Workload(input.len[y])
  <1>1. /\ DpSize \in Nat \ {0} /\ Total \in Nat \ {0} /\ Share \in Nat \ {0} /\ Rows = 1..Total
        /\ IsGrid(Total, DpSize, Share)
    BY Sizes
  <1>2. IsGrid(Total, Share, DpSize)
    BY <1>1 DEF IsGrid
  <1>3. PICK len, n, w, k : len = input.len /\ n = Total /\ w = Loads /\ k = DpSize
    OBVIOUS
  <1>4. n \in Nat /\ len \in [1..n -> Nat \ {0}] /\ w = Workloads(len) /\ k \in Nat /\ k > 1
    BY <1>1, <1>3, InputType DEF Loads
  <1>5. w \in [1..n -> Int] /\ \A i \in 1..n : w[i] = Workload(len[i])
    <2>1. Weighs(w, n) /\ \A i \in 1..n : w[i] = Workload(len[i])
      BY ONLY <1>4, WorkloadsWeigh
    <2> QED BY <2>1 DEF Weighs
  <1>6. PICK up : up = Ascending(w)
    OBVIOUS
  <1>7. IsOrder(up, n) /\ \A p, q \in 1..n : p < q => w[up[p]] <= w[up[q]]
    BY ONLY <1>4, <1>5, <1>6, AscendingSorts
  <1>8. PICK g \in 0..Share - 1 : most = w[up[Cell(k, g, k)]] - w[up[Cell(k, g, 1)]]
    BY <1>3, <1>6 DEF IsWidest
  <1>9. \A j \in 1..k : Cell(k, g, j) \in 1..n
    BY <1>2, <1>3, Cells
  <1>10. PICK a \in 1..n, b \in 1..n : a = Cell(k, g, 1) /\ b = Cell(k, g, k)
    BY <1>4, <1>9, SMTT(30)
  <1>11. PICK base \in Nat : base = g * k
    <2>1. g \in Nat /\ k \in Nat
      BY ONLY <1>3, <1>4, <1>1, g \in 0..Share - 1
    <2> QED BY ONLY <2>1
  <1>12. a = base + 1 /\ b = base + k
    BY <1>10, <1>11 DEF Cell
  <1>13. \A p \in 1..n : up[p] \in 1..n
    BY <1>7, ElementOfSeq DEF IsOrder
  <1>14. PICK x \in 1..n, y \in 1..n : x = up[b] /\ y = up[a]
    BY <1>13
  <1>15. most = Workload(input.len[x]) - Workload(input.len[y])
    BY <1>3, <1>5, <1>8, <1>10, <1>14
  <1>16. PICK Q : Q = 2..k - 1
    OBVIOUS
  <1>17. IsFiniteSet(Q) /\ Cardinality(Q) = k - 2
    <2>1. 2 \in Int /\ k - 1 \in Int
      BY <1>4
    <2>2. IsFiniteSet(2..k - 1) /\ Cardinality(2..k - 1) = IF 2 > k - 1 THEN 0 ELSE (k - 1) - 2 + 1
      BY ONLY <2>1, FS_Interval
    <2>3. (IF 2 > k - 1 THEN 0 ELSE (k - 1) - 2 + 1) = k - 2
      <3>1. k \in Nat /\ k > 1
        BY ONLY <1>4
      <3> QED BY ONLY <3>1
    <2> QED BY ONLY <1>16, <2>2, <2>3
  <1>18. PICK h : h = [j \in Q |-> up[base + j]]
    OBVIOUS
  <1>19. PICK B : B = Between(x, y)
    OBVIOUS
  <1>20. ASSUME NEW z \in B PROVE \E j \in Q : h[j] = z
    <2>1. z \in 1..n /\ len[y] < len[z] /\ len[z] < len[x]
      BY <1>1, <1>3, <1>19 DEF Between
    <2>2. w[y] < w[z] /\ w[z] < w[x]
      <3>1. PICK e \in Nat, f \in Nat, i \in Nat : e = len[y] /\ f = len[z] /\ i = len[x]
        BY <1>4, <2>1
      <3>2. Workload(e) < Workload(f) /\ Workload(f) < Workload(i)
        BY <2>1, <3>1, WorkloadGrows
      <3> QED BY <1>5, <2>1, <3>1, <3>2
    <2>3. PICK q \in 1..n : up[q] = z
      BY <1>7, <2>1 DEF IsOrder
    <2>4. w[up[a]] < w[up[q]] /\ w[up[q]] < w[up[b]]
      BY <1>14, <2>2, <2>3
    <2>5. PICK wa \in Int, wq \in Int, wb \in Int : wa = w[up[a]] /\ wq = w[up[q]] /\ wb = w[up[b]]
      BY <1>5, <1>13
    <2>6. ~(q < a) /\ ~(b < q) /\ q # a /\ q # b
      <3>1. wa < wq /\ wq < wb
        BY <2>4, <2>5
      <3>2. ~(wq <= wa) /\ ~(wb <= wq) /\ wa # wq /\ wb # wq
        BY ONLY <3>1, wa \in Int, wq \in Int, wb \in Int
      <3>3. (q < a => wq <= wa) /\ (b < q => wb <= wq)
        BY <1>7, <2>5
      <3> QED BY <2>5, <3>2, <3>3
    <2>7. PICK j \in Int : j = q - base
      BY <1>11, SMTT(30)
    <2>8. j \in Q /\ base + j = q
      BY <1>4, <1>12, <1>16, <2>6, <2>7
    <2> QED BY <1>18, <2>3, <2>8
  <1>21. PICK T : T = {h[j] : j \in Q}
    OBVIOUS
  <1>22. IsFiniteSet(T) /\ Cardinality(T) <= k - 2
    <2>1. h \in Surjection(Q, T)
      <3>1. h \in [Q -> T] /\ \A t \in T : \E j \in Q : h[j] = t
        BY <1>18, <1>21
      <3> QED BY <3>1 DEF Surjection
    <2> QED BY <1>17, <2>1, FS_Surjection
  <1>23. B \subseteq T
    BY <1>20, <1>21
  <1>24. Cardinality(B) <= Cardinality(T) /\ Cardinality(B) \in Nat /\ Cardinality(T) \in Nat
    BY <1>22, <1>23, FS_Subset, FS_CardinalityType
  <1>25. Cardinality(B) < k - 1
    BY <1>4, <1>22, <1>24
  <1> QED BY <1>1, <1>3, <1>15, <1>19, <1>25

\* The invariant implies SharesAreFair.
LEMMA FairShares ==
    ASSUME BatchAssumption, BatchInv PROVE SharesAreFair
  <1> SUFFICES ASSUME phase \in {"reward", "done"} PROVE SharesAreFair
    BY DEF SharesAreFair
  <1>1. /\ DpSize \in Nat \ {0} /\ Total \in Nat \ {0} /\ Share \in Nat \ {0} /\ Rows = 1..Total
    BY Sizes
  <1>2. input \in Inputs /\ Balanced
    BY DEF BatchInv
  <1>3. PICK s : IsFair(s) /\ IsBatch(s)
    BY <1>2 DEF Balanced
  <1>4. AreShares(s) /\ IsPartition(s, DpSize, Total) /\ \A d \in 1..DpSize : Len(s[d]) = Share
    BY <1>3 DEF IsFair, AreShares
  <1>5. \A d \in 1..DpSize : ResponsesOf(d) = Members(s[d])
    BY <1>3, <1>4, ChunkIsShare
  <1>6. UNION {ResponsesOf(d) : d \in 1..DpSize} = Rows
    <2>1. ASSUME NEW x \in Rows PROVE \E d \in 1..DpSize : x \in ResponsesOf(d)
      <3>1. PICK d \in 1..DpSize : \E i \in 1..Len(s[d]) : s[d][i] = x
        BY <1>1, <1>4 DEF IsPartition
      <3>2. x \in Members(s[d])
        BY <3>1 DEF Members
      <3> QED BY <1>5, <3>2
    <2>2. ASSUME NEW d \in 1..DpSize, NEW x \in ResponsesOf(d) PROVE x \in Rows
      <3>0. x \in Members(s[d])
        BY <1>5
      <3>1. PICK i \in 1..Len(s[d]) : x = s[d][i]
        BY ONLY <3>0 DEF Members
      <3>2. PICK t \in Seq(1..Total) : t = s[d]
        BY <1>4 DEF IsPartition
      <3>3. t[i] \in 1..Total
        BY <3>1, <3>2, ElementOfSeq
      <3> QED BY <1>1, <3>1, <3>2, <3>3
    <2> QED BY <2>1, <2>2
  <1>7. ASSUME NEW c \in 1..DpSize, NEW d \in 1..DpSize, c # d, input.grouper,
               NEW x \in ResponsesOf(c), NEW y \in ResponsesOf(d)
        PROVE  PromptOf[x] # PromptOf[y]
    <2>0. x \in Members(s[c]) /\ y \in Members(s[d])
      BY <1>5
    <2>1. PICK i \in 1..Len(s[c]) : x = s[c][i]
      BY ONLY <2>0 DEF Members
    <2>2. PICK j \in 1..Len(s[d]) : y = s[d][j]
      BY ONLY <2>0 DEF Members
    <2>3. PromptsApart(s)
      BY <1>3, <1>7 DEF IsFair
    <2> QED BY <1>7, <2>1, <2>2, <2>3 DEF PromptsApart
  <1>8. ASSUME NEW c \in 1..DpSize, NEW d \in 1..DpSize, c # d, ~input.grouper
        PROVE  \E x, y \in Rows :
                  /\ Cardinality(Between(x, y)) < DpSize - 1
                  /\ MapThenSumSet(LAMBDA z : Workload(input.len[z]), ResponsesOf(c))
                       - MapThenSumSet(LAMBDA z : Workload(input.len[z]), ResponsesOf(d))
                       <= Workload(input.len[x]) - Workload(input.len[y])
    <2>1. PICK most : /\ IsWidest(most, Loads, DpSize, Ascending(Loads), Share)
                      /\ CloseParts(s, Loads, DpSize, most)
      BY <1>3, <1>8 DEF IsFair
    <2>2. DpSize > 1
      BY <1>1, <1>8
    <2>3. PICK x \in Rows, y \in Rows : /\ Cardinality(Between(x, y)) < DpSize - 1
                                        /\ most = Workload(input.len[x]) - Workload(input.len[y])
      BY <1>2, <2>1, <2>2, FewBetween
    <2>4. ASSUME NEW e \in 1..DpSize
          PROVE  MapThenSumSet(LAMBDA z : Workload(input.len[z]), ResponsesOf(e)) = Weight(Loads, s[e])
      <3>1. PICK n, len, S, w, t : /\ n = Total /\ len = input.len /\ S = ResponsesOf(e) /\ w = Loads
                                   /\ t = s[e]
        OBVIOUS
      <3>2. n \in Nat /\ len \in [1..n -> Nat \ {0}] /\ S \subseteq 1..n /\ w = Workloads(len)
        BY <1>1, <1>2, <1>6, <3>1, InputType DEF Loads
      <3>3. MapThenSumSet(LAMBDA z : Workload(len[z]), S) = Iter(Workloads(len))[S]
        BY ONLY <3>2, LoadIsSum
      <3>4. Weighs(w, n)
        BY ONLY <3>2, WorkloadsWeigh
      <3>5. t \in Seq(1..n) /\ NoTwice(t)
        <4>1. s \in [1..DpSize -> Seq(1..Total)]
          BY <1>4 DEF IsPartition
        <4>2. \A a, b \in 1..DpSize : \A i \in 1..Len(s[a]), j \in 1..Len(s[b]) :
                    s[a][i] = s[b][j] => a = b /\ i = j
          BY ONLY <1>4 DEF IsPartition
        <4> QED BY ONLY <3>1, <4>1, <4>2, e \in 1..DpSize DEF NoTwice
      <3>6. Weight(w, t) = Iter(w)[Members(t)]
        BY <3>2, <3>4, <3>5, WeightOfSet DEF Weighs
      <3>7. S = Members(t)
        BY <1>5, <3>1
      <3> QED BY <3>1, <3>2, <3>3, <3>6, <3>7
    <2>5. Weight(Loads, s[c]) - Weight(Loads, s[d]) <= most
      BY <2>1 DEF CloseParts
    <2> QED BY <2>3, <2>4, <2>5
  <1> DEFINE load(d) == MapThenSumSet(LAMBDA z : Workload(input.len[z]), ResponsesOf(d))
             near == {p \in Rows \X Rows : Cardinality(Between(p[1], p[2])) < DpSize - 1}
             differences == {Workload(input.len[p[1]]) - Workload(input.len[p[2]]) : p \in near}
  <1>9. ASSUME NEW c \in 1..DpSize, NEW d \in 1..DpSize, c # d, ~input.grouper
        PROVE  \E most \in differences : load(c) - load(d) <= most
    <2>1. PICK x \in Rows, y \in Rows :
             /\ Cardinality(Between(x, y)) < DpSize - 1
             /\ load(c) - load(d) <= Workload(input.len[x]) - Workload(input.len[y])
      BY <1>8, <1>9
    <2> HIDE DEF load
    <2>2. PICK p \in Rows \X Rows : p[1] = x /\ p[2] = y
      <3> DEFINE pair == <<x, y>>
      <3>1. pair \in Rows \X Rows /\ pair[1] = x /\ pair[2] = y
        OBVIOUS
      <3> HIDE DEF pair
      <3> QED BY ONLY <3>1
    <2>3. p \in near
      BY <2>1, <2>2
    <2> QED BY <2>1, <2>2, <2>3
  <1> HIDE DEF load, near, differences
  <1>10. /\ UNION {ResponsesOf(d) : d \in 1..DpSize} = Rows
         /\ \A c, d \in 1..DpSize : c # d =>
                IF input.grouper
                THEN \A x \in ResponsesOf(c), y \in ResponsesOf(d) : PromptOf[x] # PromptOf[y]
                ELSE \E most \in differences : load(c) - load(d) <= most
    BY <1>6, <1>7, <1>9
  <1> QED BY ONLY <1>10 DEF SharesAreFair, ResponsesOf, Between, load, near, differences

----------------------------------------------------------------------------
(* What a rank is given, and the mini-batches it cuts.                      *)

\* The rows of a mini-batch and the mini-batches of a call
CallRows == IF phase \in Inference THEN Share ELSE MiniRows
CallMinis == IF phase \in Inference THEN 1 ELSE Epochs * (Share \div MiniRows)

\* What a rank is given in a call, and the rows of its mini-batches
Given(r) == Chunk(batch, DpSize, DpRank(r))
Piece(r, m) ==
    IF phase \in Inference
    THEN Given(r)
    ELSE LET k == m % (Share \div MiniRows)
         IN  SubSeq(Given(r), k * MiniRows + 1, (k + 1) * MiniRows)

\* Micro-batches that a rank needs for a mini-batch
Needed(r, m) == MicroBatchNumber(Lens(Piece(r, m)), TokenLimit)

\* A rank has what was dispatched to it.
HasData(r) == data[r] = Given(r)

\* These are positive numbers.
LEMMA CallSizes ==
    ASSUME BatchAssumption
    PROVE  CallRows \in Nat \ {0} /\ CallMinis \in Nat \ {0} /\ TokenLimit \in Nat \ {0}
  <1>1. PICK e \in Nat \ {0}, q \in Nat \ {0} : e = Epochs /\ q = Share \div MiniRows
    BY Sizes, MiniSizes
  <1>2. PICK p \in Nat : p = e * q
    OBVIOUS
  <1>3. p # 0
    BY ONLY <1>2, e \in Nat \ {0}, q \in Nat \ {0}
  <1>4. Epochs * (Share \div MiniRows) \in Nat \ {0}
    BY <1>1, <1>2, <1>3
  <1>5. CallMinis \in Nat \ {0}
    BY <1>4 DEF CallMinis
  <1> QED BY <1>5, Sizes DEF CallRows, TokenLimit

\* Where a rank is in the mesh.
LEMMA DpRankOf ==
    ASSUME BatchAssumption, NEW r \in Ranks
    PROVE  DpRank(r) \in 1..DpSize /\ \E i \in 1..SpSize : r = Cell(SpSize, DpRank(r) - 1, i)
  <1>1. PICK d \in Nat \ {0}, s \in Nat \ {0} : d = DpSize /\ s = SpSize
    BY Sizes
  <1>2. PICK n \in Nat : n = d * s
    OBVIOUS
  <1>3. IsGrid(n, d, s) /\ r \in 1..n
    BY <1>1, <1>2 DEF IsGrid, Ranks
  <1>4. PICK g \in 0..d - 1 : \E i \in 1..s : r = Cell(s, g, i)
    <2>1. PICK e, t, p : e = d /\ t = s /\ p = r
      OBVIOUS
    <2>2. IsGrid(n, e, t) /\ p \in 1..n
      BY <1>3, <2>1
    <2>3. \E g \in 0..e - 1 : \E i \in 1..t : p = Cell(t, g, i)
      BY ONLY <2>2, CellOf
    <2> QED BY <2>1, <2>3
  <1>5. PICK i \in 1..s : r = Cell(s, g, i)
    BY <1>4
  <1>6. (r - 1) \div s = g
    BY <1>5, CellIndex
  <1>7. DpRank(r) = g + 1
    BY <1>1, <1>6 DEF DpRank
  <1> QED BY <1>1, <1>5, <1>7

\* Rows p + 1, p + 2 and so on of the batch
IsRun(rows, p, n) ==
    /\ p \in Nat /\ Len(rows) = n /\ rows = [j \in 1..n |-> batch[p + j]]
    /\ \A j \in 1..n : p + j \in 1..Total

\* The batch is a sequence.
LEMMA BatchSeq ==
    ASSUME BatchAssumption, Balanced
    PROVE  \E A : batch \in Seq(A) /\ Len(batch) = Total
  <1>1. batch = [i \in 1..Total |-> batch[i]] /\ Total \in Nat
    BY Sizes, BatchLength
  <1>2. PICK A : A = {batch[i] : i \in 1..Total}
    OBVIOUS
  <1>3. batch \in [1..Total -> A]
    BY <1>1, <1>2
  <1> QED BY ONLY <1>1, <1>3

\* What a rank is given is a run of rows of the batch.
LEMMA GivenRun ==
    ASSUME BatchAssumption, Balanced, NEW r \in Ranks
    PROVE  IsRun(Given(r), (DpRank(r) - 1) * Share, Share)
  <1>1. /\ DpSize \in Nat \ {0} /\ Total \in Nat \ {0} /\ Share \in Nat \ {0}
        /\ IsGrid(Total, DpSize, Share)
    BY Sizes
  <1>2. PICK A : batch \in Seq(A) /\ Len(batch) = Total
    BY BatchSeq
  <1>3. PICK d \in 1..DpSize : d = DpRank(r)
    BY DpRankOf
  <1>4. Given(r) = [j \in 1..Share |-> batch[Cell(Share, d - 1, j)]]
    <2>1. PICK seq, n : seq = batch /\ n = Total
      OBVIOUS
    <2>2. seq \in Seq(A) /\ n = Len(seq) /\ IsGrid(n, DpSize, Share)
      BY <1>1, <1>2, <2>1
    <2>3. Chunk(seq, DpSize, d) = [j \in 1..Share |-> seq[Cell(Share, d - 1, j)]]
      BY ONLY <2>2, d \in 1..DpSize, ChunkAt
    <2> QED BY <1>3, <2>1, <2>3 DEF Given
  <1>5. PICK p \in Nat : p = (d - 1) * Share
    <2>1. PICK a \in Nat, b \in Nat : a = d - 1 /\ b = Share
      BY <1>1
    <2> QED BY <2>1
  <1>6. \A j \in 1..Share : Cell(Share, d - 1, j) = p + j
    BY <1>5 DEF Cell
  <1>7. \A j \in 1..Share : p + j \in 1..Total
    <2> SUFFICES ASSUME NEW j \in 1..Share PROVE p + j \in 1..Total
      OBVIOUS
    <2>1. d - 1 \in 0..DpSize - 1
      BY <1>1
    <2>2. Cell(Share, d - 1, j) \in 1..Total
      BY ONLY <1>1, <2>1, j \in 1..Share, CellIn
    <2> QED BY <1>6, <2>2
  <1>8. Given(r) = [j \in 1..Share |-> batch[p + j]]
    BY <1>4, <1>6
  <1>9. Len(Given(r)) = Share
    BY <1>1, <1>8
  <1> QED BY <1>3, <1>5, <1>7, <1>8, <1>9 DEF IsRun

\* The mini-batches of a rank are runs of rows of the batch.
LEMMA PieceRun ==
    ASSUME BatchAssumption, Balanced, NEW r \in Ranks, NEW m \in Nat
    PROVE  \E p : IsRun(Piece(r, m), p, CallRows)
  <1>1. /\ Share \in Nat \ {0} /\ MiniRows \in Nat \ {0} /\ Total \in Nat \ {0} /\ DpSize \in Nat \ {0}
        /\ IsGrid(Share, Share \div MiniRows, MiniRows) /\ Share \div MiniRows \in Nat \ {0}
    BY Sizes, MiniSizes
  <1>2. PICK b \in Nat : b = (DpRank(r) - 1) * Share
    <2>1. DpRank(r) \in 1..DpSize
      BY DpRankOf
    <2>2. PICK a \in Nat, c \in Nat : a = DpRank(r) - 1 /\ c = Share
      BY <1>1, <2>1
    <2> QED BY <2>2
  <1>3. IsRun(Given(r), b, Share)
    BY <1>2, GivenRun
  <1>4. /\ Len(Given(r)) = Share /\ Given(r) = [j \in 1..Share |-> batch[b + j]]
        /\ \A j \in 1..Share : b + j \in 1..Total
    BY <1>3 DEF IsRun
  <1>6. CASE phase \in Inference
    <2>1. Piece(r, m) = Given(r) /\ CallRows = Share
      BY <1>6 DEF Piece, CallRows
    <2> QED BY <1>3, <2>1
  <1>7. CASE phase \notin Inference
    <2>1. PICK q \in Nat \ {0}, l \in Nat \ {0}, s \in Nat \ {0} : q = Share \div MiniRows /\ l = MiniRows /\ s = Share
      BY <1>1
    <2>2. PICK k \in 0..q - 1 : k = m % q
      <3>1. q \in Int /\ q > 0
        BY <2>1
      <3>2. m % q \in 0..q - 1
        BY ONLY <3>1, m \in Nat
      <3> QED BY <3>2
    <2>3. Piece(r, m) = SubSeq(Given(r), k * l + 1, (k + 1) * l)
      BY <1>4, <1>7, <2>1, <2>2 DEF Piece
    <2>4. PICK p \in Nat : p = k * l
      BY <2>1
    <2>5. (k + 1) * l = p + l
      BY <2>1, <2>4
    <2>6. \A j \in 1..l : p + j \in 1..s
      <3>1. IsGrid(s, q, l)
        BY <1>1, <2>1
      <3>2. \A j \in 1..l : Cell(l, k, j) \in 1..s
        BY ONLY <3>1, k \in 0..q - 1, CellIn
      <3>3. \A j \in 1..l : Cell(l, k, j) = p + j
        BY <2>4 DEF Cell
      <3> QED BY <3>2, <3>3
    <2>7. Piece(r, m) = SubSeq(Given(r), p + 1, p + l)
      BY <2>3, <2>4, <2>5
    <2>8. Piece(r, m) = [j \in 1..l |-> Given(r)[p + j]]
      <3>1. PICK x, A : x = Given(r) /\ A = {batch[b + j] : j \in 1..s}
        OBVIOUS
      <3>2. x \in Seq(A) /\ Len(x) = s
        <4>0. x = [j \in 1..s |-> batch[b + j]]
          BY <1>4, <2>1, <3>1
        <4>1. x \in [1..s -> A]
          BY ONLY <3>1, <4>0
        <4> QED BY ONLY <4>1, <1>1, <2>1
      <3>4. SubSeq(x, p + 1, p + l) = [j \in 1..l |-> x[p + j]]
        <4>1. PICK a \in Nat, c \in Nat : a = p + 1 /\ c = p + l
          BY <2>1
        <4>2. SubSeq(x, a, c) = [j \in 1..(1 + c - a) |-> x[a + j - 1]]
          <5>1. \A i \in a..c : i \in 1..Len(x)
            <6> SUFFICES ASSUME NEW i \in a..c PROVE i \in 1..s
              BY <3>2
            <6>1. PICK j \in 1..l : p + j = i
              <7>1. i - p \in 1..l /\ p + (i - p) = i
                BY <2>1, <4>1
              <7> QED BY <7>1
            <6> QED BY <2>6, <6>1
          <5> QED BY ONLY <3>2, <5>1, a \in Nat, c \in Nat
        <4>3. 1 + c - a = l /\ \A j \in 1..l : a + j - 1 = p + j
          BY <2>1, <4>1
        <4> QED BY <4>1, <4>2, <4>3
      <3> QED BY <2>7, <3>1, <3>4
    <2>9. \A j \in 1..l : Given(r)[p + j] = batch[b + (p + j)]
      BY <1>4, <2>1, <2>6
    <2>10. PICK a \in Nat : a = b + p
      OBVIOUS
    <2>11. \A j \in 1..l : b + (p + j) = a + j
      BY <2>1, <2>10
    <2>12. Piece(r, m) = [j \in 1..l |-> batch[a + j]]
      BY ONLY <2>8, <2>9, <2>11
    <2>13. \A j \in 1..l : a + j \in 1..Total
      <3> SUFFICES ASSUME NEW j \in 1..l PROVE a + j \in 1..Total
        OBVIOUS
      <3>1. p + j \in 1..Share
        BY <2>1, <2>6
      <3>2. b + (p + j) \in 1..Total
        BY ONLY <1>4, <3>1
      <3> QED BY <2>11, <3>2
    <2>14. Len(Piece(r, m)) = l
      BY <2>1, <2>12
    <2>15. CallRows = l
      BY <1>7, <2>1 DEF CallRows
    <2>16. IsRun(Piece(r, m), a, CallRows)
      BY <2>12, <2>13, <2>14, <2>15 DEF IsRun
    <2> QED BY <2>16
  <1> QED BY <1>6, <1>7

\* What a rank cuts from its data are those mini-batches.
LEMMA MiniIsPiece ==
    ASSUME BatchAssumption, Balanced, NEW r \in Ranks, HasData(r), NEW m
    PROVE  /\ Mini(r, m) = Piece(r, m)
           /\ MiniBatchesInCall(r) = CallMinis
  <1>1. data[r] = Given(r) /\ Len(data[r]) = Share
    BY GivenRun DEF HasData, IsRun
  <1> QED BY <1>1 DEF Mini, Piece, MiniBatchesInCall, CallMinis

\* The responses in the batch
LEMMA BatchResponses ==
    ASSUME BatchAssumption, Balanced
    PROVE  \A i \in 1..Total : batch[i].response \in 1..Total /\ batch[i].uid = PromptOf[batch[i].response]
  <1> SUFFICES ASSUME NEW i \in 1..Total
               PROVE batch[i].response \in 1..Total /\ batch[i].uid = PromptOf[batch[i].response]
    OBVIOUS
  <1>1. PICK s : AreShares(s) /\ IsBatch(s)
    BY DEF Balanced, IsFair
  <1>2. IsGrid(Total, DpSize, Share)
    BY Sizes
  <1>3. PICK g \in 0..DpSize - 1 : \E j \in 1..Share : i = Cell(Share, g, j)
    <2>1. \A p \in 1..Total : \E g \in 0..DpSize - 1 : \E j \in 1..Share : p = Cell(Share, g, j)
      BY <1>2, Cells, SMTT(30)
    <2> QED BY <2>1
  <1>4. PICK j \in 1..Share : i = Cell(Share, g, j)
    BY <1>3
  <1>5. PICK d \in 1..DpSize : d - 1 = g
    <2>1. g + 1 \in 1..DpSize /\ (g + 1) - 1 = g
      BY Sizes
    <2> QED BY <2>1
  <1>6. IsRow(batch[i], s[d][j])
    BY <1>1, <1>4, <1>5 DEF IsBatch
  <1>7. s[d][j] \in 1..Total
    <2>1. PICK x \in Seq(1..Total) : x = s[d]
      BY <1>1 DEF AreShares, IsPartition
    <2>2. Len(x) = Share
      BY <1>1, <2>1 DEF AreShares
    <2>3. x[j] \in 1..Total
      BY <2>2, ElementOfSeq
    <2> QED BY <2>1, <2>3
  <1>8. /\ batch[i].response = s[d][j] /\ batch[i].uid = PromptOf[s[d][j]]
    BY ONLY <1>6 DEF IsRow
  <1> QED BY <1>7, <1>8

\* Every mini-batch needs a micro-batch.
LEMMA NeededPositive ==
    ASSUME BatchAssumption, input \in Inputs, Balanced, NEW r \in Ranks, NEW m \in Nat
    PROVE  /\ Lens(Piece(r, m)) \in [1..CallRows -> Nat \ {0}]
           /\ Needed(r, m) \in Nat \ {0}
  <1>1. CallRows \in Nat \ {0} /\ TokenLimit \in Nat \ {0}
    BY CallSizes
  <1>2. PICK p : IsRun(Piece(r, m), p, CallRows)
    BY PieceRun
  <1>3. PICK n, lens, rows : n = CallRows /\ rows = Piece(r, m) /\ lens = Lens(rows)
    OBVIOUS
  <1>4. /\ Len(rows) = n /\ rows = [j \in 1..n |-> batch[p + j]]
        /\ \A j \in 1..n : p + j \in 1..Total
    BY <1>2, <1>3 DEF IsRun
  <1>5. lens = [j \in 1..n |-> input.len[rows[j].response]]
    BY <1>3, <1>4 DEF Lens
  <1>6. ASSUME NEW j \in 1..n PROVE input.len[rows[j].response] \in Nat \ {0}
    <2>1. PICK i \in 1..Total : i = p + j
      BY <1>4
    <2>2. rows[j] = batch[i]
      BY <1>4, <2>1
    <2>3. batch[i].response \in 1..Total
      BY BatchResponses
    <2> QED BY <2>2, <2>3, InputType
  <1>7. lens \in [1..n -> Nat \ {0}]
    BY <1>5, <1>6
  <1>8. n \in Nat /\ n > 0 /\ Len(lens) = n
    BY <1>1, <1>3, <1>7
  <1>9. PICK all : all = [i \in 1..n |-> i]
    OBVIOUS
  <1>10. all \in Seq(1..n) /\ all # <<>>
    <2>1. all \in [1..n -> 1..n] /\ Len(all) = n
      BY <1>8, <1>9
    <2> QED BY ONLY <1>8, <2>1
  <1>11. Weight(lens, all) \in Nat /\ Weight(lens, all) # 0
    <2>1. lens \in [1..n -> Int] /\ \A i \in 1..n : lens[i] > 0
      <3>1. \A i \in 1..n : lens[i] \in Nat \ {0}
        BY <1>7
      <3>2. \A x \in Nat \ {0} : x \in Int /\ x > 0
        OBVIOUS
      <3>3. lens = [i \in 1..n |-> lens[i]]
        BY <1>7
      <3> QED BY ONLY <3>1, <3>2, <3>3
    <2> QED BY ONLY <1>8, <1>10, <2>1, WeightPositive
  <1>12. PICK v \in Nat, l \in Nat : v = Weight(lens, all) /\ l = TokenLimit /\ v > 0 /\ l > 0
    BY <1>1, <1>11
  <1>13. PICK u \in Nat : u = CeilDiv(v, l) /\ u > 0
    <2>1. PICK x \in Nat : x = v + l - 1 /\ x >= l
      BY <1>12
    <2>2. PICK y \in Nat : y = x \div l
      <3>1. l > 0
        BY <1>12
      <3> QED BY ONLY <3>1, x \in Nat, l \in Nat
    <2>3. x = l * (x \div l) + (x % l) /\ x % l < l
      <3>1. l \in Int /\ l > 0 /\ x \in Int
        BY <1>12
      <3>2. x = l * (x \div l) + (x % l)
        BY ONLY <3>1
      <3> QED BY ONLY <3>1, <3>2
    <2>4. PICK z \in Nat : z = x % l
      BY <1>12
    <2>5. y # 0
      <3>1. x = l * y + z /\ z < l
        BY <2>2, <2>3, <2>4
      <3>2. y = 0 => l * y = 0
        BY <1>12
      <3> QED BY <2>1, <3>1, <3>2
    <2> QED BY <1>12, <2>1, <2>2, <2>5 DEF CeilDiv
  <1>14. MicroBatchNumber(lens, TokenLimit) = IF u < n THEN u ELSE n
    <2>1. CeilDiv(Weight(lens, [i \in 1..Len(lens) |-> i]), TokenLimit) = u
      BY <1>8, <1>9, <1>12, <1>13
    <2> QED BY <1>8, <2>1 DEF MicroBatchNumber
  <1>15. Needed(r, m) = IF u < n THEN u ELSE n
    BY <1>3, <1>14 DEF Needed
  <1>16. /\ lens \in [1..n -> Nat \ {0}]
        /\ (IF u < n THEN u ELSE n) \in Nat \ {0}
    BY ONLY <1>7, <1>8, <1>13, u \in Nat
  <1> QED BY <1>3, <1>15, <1>16

----------------------------------------------------------------------------
(* The plan of a call.                                                      *)

\* Reporting a number is one collective operation more.
Dyn == IF input.dynamic THEN 1 ELSE 0

\* x is the number of micro-batches of mini-batch m.
IsNumber(x, m) ==
    /\ x \in Nat \ {0}
    /\ IF input.dynamic
       THEN (\A r \in Ranks : Needed(r, m) <= x) /\ \E r \in Ranks : Needed(r, m) = x
       ELSE x = CallRows \div MicroRows

\* What a call comes to: f[m] micro-batches for mini-batch m, after B[m] collective operations
IsPlan(f, B) ==
    /\ f \in [0..CallMinis - 1 -> Nat \ {0}]
    /\ \A m \in 0..CallMinis - 1 : IsNumber(f[m], m)
    /\ IsClimb(B, CallMinis, f, Dyn)

\* Every mini-batch has a number of micro-batches.
LEMMA NumberExists ==
    ASSUME BatchAssumption, input \in Inputs, Balanced, NEW m \in Nat
    PROVE  \E x : IsNumber(x, m)
  <1>1. CASE input.dynamic
    <2>1. PICK n \in Nat \ {0} : n = DpSize * SpSize
      <3>1. PICK a \in Nat \ {0}, b \in Nat \ {0} : a = DpSize /\ b = SpSize
        BY Sizes
      <3>2. a * b \in Nat \ {0}
        OBVIOUS
      <3> QED BY <3>1, <3>2
    <2>2. Ranks = 1..n
      BY <2>1 DEF Ranks
    <2>3. \A r \in Ranks : Needed(r, m) \in Nat \ {0}
      BY NeededPositive
    <2>4. PICK g : g = [i \in 0..n - 1 |-> Needed(i + 1, m)]
      OBVIOUS
    <2>5. \A i \in 0..n - 1 : i + 1 \in Ranks
      BY <2>2
    <2>6. g \in [0..n - 1 -> Int]
      <3>1. \A i \in 0..n - 1 : Needed(i + 1, m) \in Int
        BY <2>3, <2>5
      <3> QED BY ONLY <2>4, <3>1
    <2>7. PICK i \in 0..n - 1 : \A h \in 0..n - 1 : g[h] <= g[i]
      BY <2>6, Greatest
    <2>8. PICK x : x = Needed(i + 1, m)
      OBVIOUS
    <2>9. x \in Nat \ {0} /\ i + 1 \in Ranks /\ Needed(i + 1, m) = x
      BY <2>3, <2>5, <2>8
    <2>10. ASSUME NEW r \in Ranks PROVE Needed(r, m) <= x
      <3>1. PICK h \in 0..n - 1 : r = h + 1
        <4>1. r - 1 \in 0..n - 1 /\ r = (r - 1) + 1
          BY <2>2
        <4> QED BY <4>1
      <3>2. g[h] <= g[i] /\ g[h] = Needed(r, m) /\ g[i] = x
        BY <2>4, <2>7, <2>8, <3>1
      <3> QED BY <3>2
    <2> QED BY <1>1, <2>9, <2>10 DEF IsNumber
  <1>2. CASE ~input.dynamic
    <2>1. CallRows \div MicroRows \in Nat \ {0}
      BY MiniSizes DEF CallRows
    <2> QED BY <1>2, <2>1 DEF IsNumber
  <1> QED BY <1>1, <1>2

\* Every call has a plan.
LEMMA PlanExists ==
    ASSUME BatchAssumption, input \in Inputs, Balanced, NEW c \in Nat
    PROVE  \E f, B : IsPlan(f, B) /\ B[0] = c
  <1>1. PICK f : f = [m \in 0..CallMinis - 1 |-> CHOOSE x : IsNumber(x, m)]
    OBVIOUS
  <1>2. \A m \in 0..CallMinis - 1 : IsNumber(f[m], m)
    <2> SUFFICES ASSUME NEW m \in 0..CallMinis - 1 PROVE IsNumber(f[m], m)
      OBVIOUS
    <2>0. m \in Nat
      BY CallSizes
    <2>1. \E x : IsNumber(x, m)
      BY <2>0, NumberExists
    <2>2. IsNumber(CHOOSE x : IsNumber(x, m), m)
      BY <2>1
    <2> QED BY <1>1, <2>2
  <1>3. f \in [0..CallMinis - 1 -> Nat \ {0}]
    <2>1. \A m \in 0..CallMinis - 1 : f[m] \in Nat \ {0}
      BY <1>2 DEF IsNumber
    <2> QED BY <1>1, <2>1
  <1>4. \E B : IsClimb(B, CallMinis, f, Dyn) /\ B[0] = c
    <2>1. PICK M, e : M = CallMinis /\ e = Dyn
      OBVIOUS
    <2>2. M \in Nat /\ e \in Nat
      BY <2>1, CallSizes DEF Dyn
    <2>3. AreCounts(f, M)
      BY <1>3, <2>1, <2>2 DEF AreCounts
    <2>4. \E B : IsClimb(B, M, f, e) /\ B[0] = c
      BY ONLY <2>2, <2>3, c \in Nat, ClimbExists, SMTT(30)
    <2> QED BY <2>1, <2>4
  <1> QED BY <1>2, <1>3, <1>4 DEF IsPlan

\* The micro-batches of a mini-batch
IsCut(t, k) ==
    /\ IsPartition(t, k, CallRows)
    /\ ~input.dynamic => t = FixedMicroBatches(CallRows)

\* Pieces of a fixed size cut a mini-batch.
LEMMA FixedCut ==
    ASSUME BatchAssumption, ~input.dynamic, NEW k, k = CallRows \div MicroRows
    PROVE  IsCut(FixedMicroBatches(CallRows), k)
  <1>1. PICK n, c : n = CallRows /\ c = MicroRows
    OBVIOUS
  <1>2. IsGrid(n, k, c) /\ c \in Nat \ {0} /\ k \in Nat \ {0} /\ n \in Nat
    BY <1>1, MiniSizes, Sizes, CallSizes DEF CallRows
  <1>12. IsGrid(n, k, c)
    BY <1>2
  <1>13. /\ \A a, b \in 0..k - 1 : \A p, q \in 1..c : Cell(c, a, p) = Cell(c, b, q) => a = b /\ p = q
         /\ \A p \in 1..n : \E g \in 0..k - 1 : \E i \in 1..c : p = Cell(c, g, i)
    BY ONLY <1>12, Cells
  <1>3. PICK t : t = FixedMicroBatches(n)
    OBVIOUS
  <1>4. t = [m \in 1..k |-> [i \in 1..c |-> (m - 1) * c + i]]
    BY <1>1, <1>3 DEF FixedMicroBatches
  <1>5. \A m \in 1..k : t[m] = [i \in 1..c |-> Cell(c, m - 1, i)] /\ Len(t[m]) = c
    BY <1>2, <1>4 DEF Cell
  <1>6. \A m \in 1..k : m - 1 \in 0..k - 1
    BY <1>2, SMTT(30)
  <1>7. \A m \in 1..k : \A i \in 1..c : Cell(c, m - 1, i) \in 1..n
    <2>1. \A g \in 0..k - 1 : \A i \in 1..c : Cell(c, g, i) \in 1..n
      BY ONLY <1>2, Cells
    <2> QED BY ONLY <1>6, <2>1
  <1>8. t \in [1..k -> Seq(1..n)]
    <2>1. ASSUME NEW m \in 1..k PROVE t[m] \in Seq(1..n)
      <3>0. t[m] = [i \in 1..c |-> Cell(c, m - 1, i)] /\ \A i \in 1..c : Cell(c, m - 1, i) \in 1..n
        BY <1>5, <1>7
      <3>1. t[m] \in [1..c -> 1..n]
        BY ONLY <3>0
      <3> QED BY ONLY <3>1, <1>2
    <2> QED BY <1>4, <2>1
  <1>9. ASSUME NEW d \in 1..k, NEW e \in 1..k, NEW i \in 1..Len(t[d]), NEW j \in 1..Len(t[e]), t[d][i] = t[e][j]
        PROVE  d = e /\ i = j
    <2>0. /\ Len(t[d]) = c /\ Len(t[e]) = c
          /\ t[d] = [x \in 1..c |-> Cell(c, d - 1, x)] /\ t[e] = [x \in 1..c |-> Cell(c, e - 1, x)]
      BY <1>5
    <2>1. i \in 1..c /\ j \in 1..c /\ Cell(c, d - 1, i) = Cell(c, e - 1, j)
      BY ONLY <1>9, <2>0, i \in 1..Len(t[d]), j \in 1..Len(t[e])
    <2>2. PICK g \in 0..k - 1, h \in 0..k - 1 : g = d - 1 /\ h = e - 1
      BY <1>6
    <2>3. \A a, b \in 0..k - 1 : \A p, q \in 1..c : Cell(c, a, p) = Cell(c, b, q) => a = b /\ p = q
      BY ONLY <1>13
    <2>4. Cell(c, g, i) = Cell(c, h, j)
      BY <2>1, <2>2
    <2>5. g = h /\ i = j
      BY ONLY <2>1, <2>3, <2>4, g \in 0..k - 1, h \in 0..k - 1
    <2>6. d = e
      BY ONLY <1>2, <2>2, <2>5, d \in 1..k, e \in 1..k
    <2> QED BY <2>5, <2>6
  <1>10. ASSUME NEW x \in 1..n PROVE \E d \in 1..k : \E i \in 1..Len(t[d]) : t[d][i] = x
    <2>1. PICK g \in 0..k - 1 : \E i \in 1..c : x = Cell(c, g, i)
      BY ONLY <1>13, x \in 1..n
    <2>2. PICK i \in 1..c : x = Cell(c, g, i)
      BY <2>1
    <2>3. PICK d \in 1..k : d - 1 = g
      <3>1. g + 1 \in 1..k /\ (g + 1) - 1 = g
        BY <1>2
      <3> QED BY <3>1
    <2>4. t[d] = [y \in 1..c |-> Cell(c, d - 1, y)] /\ Len(t[d]) = c
      BY <1>5
    <2>5. i \in 1..Len(t[d]) /\ t[d][i] = x
      BY ONLY <2>2, <2>3, <2>4, i \in 1..c
    <2> QED BY <2>5
  <1>11. IsPartition(t, k, n)
    BY <1>8, <1>9, <1>10 DEF IsPartition
  <1> QED BY <1>1, <1>3, <1>11 DEF IsCut

\* MicroBatches cuts a mini-batch.
LEMMA DynamicCut ==
    ASSUME BatchAssumption, input \in Inputs, Balanced, input.dynamic, NEW r \in Ranks, NEW m \in Nat,
           NEW k, k \in Nat \ {0}
    PROVE  IsCut(MicroBatches(Lens(Piece(r, m)), k), k)
  <1>1. PICK n, lens, t : n = CallRows /\ lens = Lens(Piece(r, m)) /\ t = MicroBatches(lens, k)
    OBVIOUS
  <1>2. n \in Nat \ {0} /\ lens \in [1..n -> Nat \ {0}]
    BY <1>1, CallSizes, NeededPositive
  <1>3. t = MicroBatches(lens, k)
    BY <1>1
  <1>4. IsPartition(t, k, n)
    BY ONLY <1>2, <1>3, k \in Nat \ {0}, MicroBatchesDivide
  <1> QED BY <1>1, <1>4 DEF IsCut

----------------------------------------------------------------------------
(* The ranks in step.                                                       *)

\* A rank that is in a call: what it does, after how many collective operations, in which
\* mini-batch, and what it has reported, cut and run
At(f, B, state, called, m, needed, parts, done) ==
    /\ m \in 0..CallMinis /\ called \in Nat /\ done \in Nat
    /\ \/ state = "start" /\ m < CallMinis /\ called = B[m]
       \/ /\ state = "agree" /\ m < CallMinis /\ called = B[m] + 1
          /\ input.dynamic
       \/ /\ state = "forward" /\ m < CallMinis /\ done < f[m] /\ called = B[m] + Dyn + done + 1
          /\ IsCut(parts, f[m])
       \/ /\ state = "end" /\ m < CallMinis /\ called = B[m + 1] /\ done = f[m]
          /\ IsCut(parts, f[m])
       \/ state = "returned" /\ called = B[CallMinis]

\* Rank r is where the plan has it.
RankAt(r, f, B) ==
    /\ HasData(r)
    /\ At(f, B, pc[r], calls[r], mini[r], number[r], micro[r], run[r])
    /\ pc[r] \in Collectives /\ input.dynamic => number[r] = Needed(r, mini[r])

\* The collective operations a rank has completed
Completed(r) == IF pc[r] \in Collectives THEN calls[r] - 1 ELSE calls[r]

\* No rank has completed an operation that another has not called.
Lockstep == \A q, r \in Ranks : Completed(q) <= calls[r]

\* While a call is under way, all ranks follow one plan, in step.
InCall ==
    /\ phase \in Inference \cup Updates
    /\ \E f, B : IsPlan(f, B) /\ \A r \in Ranks : RankAt(r, f, B)
    /\ Lockstep

\* The variables of the ranks
OverRanks(g) == g = [r \in Ranks |-> g[r]]
RankFunctions ==
    /\ OverRanks(pc) /\ OverRanks(calls) /\ OverRanks(data) /\ OverRanks(mini) /\ OverRanks(number)
    /\ OverRanks(micro) /\ OverRanks(run) /\ OverRanks(out) /\ OverRanks(grads)
    /\ \A r \in Ranks : run[r] \in Nat

\* Between calls all ranks have called as often; in a call they follow its plan.
RanksInv ==
    /\ RankFunctions
    /\ \/ Idle /\ \E c \in Nat : \A r \in Ranks : calls[r] = c
       \/ InCall

\* What a call is does not change while it is under way.
LEMMA CallUnmoved ==
    ASSUME UNCHANGED <<input, phase, batch>>
    PROVE  /\ \A r : Given(r)' = Given(r)
           /\ \A r, m : Needed(r, m)' = Needed(r, m)
           /\ \A f, B : IsPlan(f, B)' <=> IsPlan(f, B)
           /\ \A f, B, a, c, m, n, t, d : At(f, B, a, c, m, n, t, d)' <=> At(f, B, a, c, m, n, t, d)
           /\ CallMinis' = CallMinis /\ CallRows' = CallRows /\ Dyn' = Dyn /\ input.dynamic' = input.dynamic
  <1>1. \A r : Given(r)' = Given(r)
    BY DEF Given, DpRank
  <1>2. \A r, m : Needed(r, m)' = Needed(r, m)
    BY <1>1 DEF Needed, Lens, Piece, TokenLimit
  <1>3. CallMinis' = CallMinis /\ CallRows' = CallRows /\ Dyn' = Dyn /\ input.dynamic' = input.dynamic
    BY DEF CallMinis, CallRows, Dyn
  <1>4. \A x, m : IsNumber(x, m)' <=> IsNumber(x, m)
    BY <1>2, <1>3 DEF IsNumber
  <1>5. \A t, k : IsCut(t, k)' <=> IsCut(t, k)
    BY <1>3 DEF IsCut
  <1>6. \A f, B : IsPlan(f, B)' <=> IsPlan(f, B)
    BY <1>3, <1>4 DEF IsPlan
  <1>7. \A f, B, a, c, m, n, t, d : At(f, B, a, c, m, n, t, d)' <=> At(f, B, a, c, m, n, t, d)
    BY <1>3, <1>5 DEF At
  <1> QED BY <1>1, <1>2, <1>3, <1>6, <1>7

\* A rank that does nothing is where it was.
LEMMA RankUnmoved ==
    ASSUME UNCHANGED <<input, phase, batch>>, NEW r, NEW f, NEW B, RankAt(r, f, B),
           pc'[r] = pc[r], calls'[r] = calls[r], data'[r] = data[r], mini'[r] = mini[r],
           number'[r] = number[r], micro'[r] = micro[r], run'[r] = run[r]
    PROVE  RankAt(r, f, B)'
  BY CallUnmoved DEF RankAt, HasData, Collectives

\* A plan as numbers
LEMMA PlanType ==
    ASSUME BatchAssumption, NEW f, NEW B, IsPlan(f, B)
    PROVE  /\ \A m \in 0..CallMinis : B[m] \in Nat
           /\ \A m \in 0..CallMinis - 1 : f[m] \in Nat \ {0} /\ B[m + 1] = B[m] + Dyn + f[m]
           /\ \A a, b \in 0..CallMinis : a < b => B[a + 1] <= B[b]
           /\ CallMinis \in Nat \ {0} /\ Dyn \in 0..1 /\ (input.dynamic <=> Dyn = 1)
  <1>1. CallMinis \in Nat \ {0} /\ Dyn \in Nat
    BY CallSizes DEF Dyn
  <1>2. AreCounts(f, CallMinis) /\ IsClimb(B, CallMinis, f, Dyn)
    BY <1>1 DEF AreCounts, IsPlan
  <1>3. \A a, b \in 0..CallMinis : a < b => B[a + 1] <= B[b]
    BY <1>1, <1>2, Climbs
  <1>4. /\ \A m \in 0..CallMinis : B[m] \in Nat
        /\ \A m \in 0..CallMinis - 1 : f[m] \in Nat \ {0} /\ B[m + 1] = B[m] + Dyn + f[m]
    BY <1>2 DEF IsClimb, AreCounts
  <1>5. Dyn \in 0..1 /\ (input.dynamic <=> Dyn = 1)
    BY DEF Dyn
  <1> QED BY <1>1, <1>3, <1>4, <1>5

\* Two ranks: where one can be when the other is in mini-batch m
LEMMA SameNumber ==
    ASSUME BatchAssumption, NEW f, NEW B, IsPlan(f, B), NEW q, NEW r, RankAt(q, f, B), RankAt(r, f, B),
           pc[r] = "agree", calls[q] >= calls[r], Completed(q) <= calls[r]
    PROVE  pc[q] \in Collectives /\ mini[q] = mini[r]
  <1>0. PICK M \in Nat, e \in Nat, m \in Nat, k \in Nat, a \in Nat, c \in Nat, d \in Nat :
           /\ M = CallMinis /\ e = Dyn /\ m = mini[r] /\ k = mini[q]
           /\ a = calls[r] /\ c = calls[q] /\ d = run[q]
    <2>1. CallMinis \in Nat /\ Dyn \in Nat
      BY CallSizes DEF Dyn
    <2>2. mini[r] \in Nat /\ mini[q] \in Nat /\ calls[r] \in Nat /\ calls[q] \in Nat /\ run[q] \in Nat
      BY <2>1 DEF RankAt, At
    <2> QED BY <2>1, <2>2
  <1>1. /\ M \in Nat \ {0} /\ e \in 0..1 /\ (input.dynamic <=> e = 1)
        /\ \A i \in 0..M : B[i] \in Nat
        /\ \A i \in 0..M - 1 : f[i] \in Nat \ {0} /\ B[i + 1] = B[i] + e + f[i]
        /\ \A i, j \in 0..M : i < j => B[i + 1] <= B[j]
    <2>1. /\ \A i \in 0..CallMinis : B[i] \in Nat
          /\ \A i \in 0..CallMinis - 1 : f[i] \in Nat \ {0} /\ B[i + 1] = B[i] + Dyn + f[i]
          /\ \A i, j \in 0..CallMinis : i < j => B[i + 1] <= B[j]
          /\ CallMinis \in Nat \ {0} /\ Dyn \in 0..1 /\ (input.dynamic <=> Dyn = 1)
      BY PlanType
    <2> QED BY ONLY <1>0, <2>1
  <1>2. m \in 0..M - 1 /\ a = B[m] + 1 /\ e = 1
    <2>1. mini[r] < CallMinis /\ calls[r] = B[mini[r]] + 1 /\ input.dynamic
      BY DEF RankAt, At
    <2>2. m < M /\ a = B[m] + 1 /\ e = 1
      BY <1>0, <1>1, <2>1
    <2> QED BY <2>2
  <1>3. k \in 0..M
    BY <1>0 DEF RankAt, At
  <1>4. PICK x \in Nat, y \in Nat, z \in Nat, u \in Nat, v \in Nat :
           /\ x = B[m] /\ y = B[m + 1] /\ v = f[m] /\ v > 0 /\ y = x + 1 + v /\ z = B[k]
           /\ (k < M => u = B[k + 1] /\ z < u)
    <2>1. m \in 0..M /\ m + 1 \in 0..M
      <3>1. M \in Nat /\ m \in 0..M - 1
        BY ONLY <1>1, <1>2
      <3> QED BY ONLY <3>1
    <2>0. /\ B[m] \in Nat /\ B[m + 1] \in Nat /\ f[m] \in Nat \ {0} /\ B[m + 1] = B[m] + e + f[m]
          /\ B[k] \in Nat
      BY <1>1, <1>2, <1>3, <2>1
    <2>2. PICK x \in Nat, y \in Nat, z \in Nat, v \in Nat :
             /\ x = B[m] /\ y = B[m + 1] /\ v = f[m] /\ v > 0 /\ y = x + 1 + v /\ z = B[k]
      <3>1. PICK x \in Nat, y \in Nat, z \in Nat, v \in Nat : x = B[m] /\ y = B[m + 1] /\ v = f[m] /\ z = B[k]
        BY <2>0
      <3>2. v > 0
        BY <2>0, <3>1, SMTT(30)
      <3>3. y = x + 1 + v
        BY <1>2, <2>0, <3>1
      <3> QED BY <3>1, <3>2, <3>3
    <2>3. CASE k < M
      <3>1. k \in 0..M - 1 /\ k + 1 \in 0..M
        BY <1>1, <1>3, <2>3, SMTT(30)
      <3>2. B[k + 1] \in Nat /\ f[k] \in Nat \ {0} /\ B[k + 1] = B[k] + e + f[k]
        BY <1>1, <3>1
      <3>3. PICK g \in Nat, l \in Nat : g = f[k] /\ l = B[k + 1] /\ g > 0
        BY <3>2, SMTT(30)
      <3>4. z < l
        <4>1. l = z + e + g
          BY <2>2, <3>2, <3>3
        <4> QED BY ONLY <3>3, <4>1, l \in Nat, z \in Nat, e \in Nat, g \in Nat
      <3> QED BY <2>2, <3>3, <3>4
    <2> QED BY <2>2, <2>3
  <1>5. m < k => y <= z
    BY <1>1, <1>2, <1>3, <1>4
  <1>15. m < M
    BY <1>2
  <1>16. m \in 0..M /\ \A i, j \in 0..M : i < j => B[i + 1] <= B[j]
    BY <1>1, <1>2
  <1>6. k < m => u <= x
    <2> SUFFICES ASSUME k < m PROVE u <= x
      OBVIOUS
    <2>1. B[k + 1] <= B[m] /\ k < M
      BY <1>3, <1>15, <1>16
    <2> QED BY <1>4, <2>1
  <1>7. k = m => z = x /\ u = y
    BY <1>4, <1>15
  <1>17. a = x + 1 /\ y = x + 1 + v /\ v > 0 /\ (k < M => z < u)
    BY <1>2, <1>4
  <1>18. c >= a /\ (k < m \/ k = m \/ m < k) /\ (m < k => y <= z) /\ (k < m => u <= x)
         /\ (k = m => z = x /\ u = y)
    BY <1>0, <1>5, <1>6, <1>7, SMTT(30)
  <1>10. CASE pc[q] = "start"
    <2>1. k < M /\ c = z /\ c <= a
      BY <1>0, <1>4, <1>10 DEF RankAt, At, Completed, Collectives
    <2> QED BY ONLY <1>17, <1>18, <2>1, m \in Nat, k \in Nat, a \in Nat, c \in Nat, x \in Nat, y \in Nat, z \in Nat, u \in Nat, v \in Nat
  <1>11. CASE pc[q] = "agree"
    <2>1. k < M /\ c = z + 1 /\ c - 1 <= a
      BY <1>0, <1>4, <1>11 DEF RankAt, At, Completed, Collectives
    <2>2. k = m
      BY ONLY <1>17, <1>18, <2>1, m \in Nat, k \in Nat, a \in Nat, c \in Nat, x \in Nat, y \in Nat, z \in Nat, u \in Nat, v \in Nat
    <2> QED BY <1>0, <1>11, <2>2 DEF Collectives
  <1>12. CASE pc[q] = "forward"
    <2>1. k < M /\ c = z + 1 + d + 1 /\ c - 1 <= a /\ c <= u
      <3>1. k \in 0..M - 1 /\ k < M /\ d < f[k] /\ c = z + 1 + d + 1 /\ c - 1 <= a
        BY <1>0, <1>1, <1>2, <1>4, <1>12, SMTT(30) DEF RankAt, At, Completed, Collectives
      <3>2. PICK g \in Nat : g = f[k]
        BY <1>1, <3>1
      <3>3. u = z + 1 + g
        BY <1>1, <1>2, <1>4, <3>1, <3>2
      <3>4. d < g
        BY <3>1, <3>2
      <3>5. c <= u
        BY ONLY <3>1, <3>3, <3>4, c \in Nat, u \in Nat, z \in Nat, d \in Nat, g \in Nat
      <3> QED BY <3>1, <3>5
    <2>2. k = m
      BY ONLY <1>17, <1>18, <2>1, m \in Nat, k \in Nat, a \in Nat, c \in Nat, x \in Nat, y \in Nat, z \in Nat, u \in Nat, v \in Nat, d \in Nat
    <2> QED BY <1>0, <1>12, <2>2 DEF Collectives
  <1>13. CASE pc[q] = "end"
    <2>1. k < M /\ c = u /\ c <= a
      BY <1>0, <1>4, <1>13 DEF RankAt, At, Completed, Collectives
    <2> QED BY ONLY <1>17, <1>18, <2>1, m \in Nat, k \in Nat, a \in Nat, c \in Nat, x \in Nat, y \in Nat, z \in Nat, u \in Nat, v \in Nat
  <1>14. CASE pc[q] = "returned"
    <2>1. c = B[M] /\ c <= a
      BY <1>0, <1>14 DEF RankAt, At, Completed, Collectives
    <2>2. PICK w \in Nat : w = B[M] /\ y <= w
      <3>1. M \in 0..M /\ m < M /\ m \in 0..M
        BY <1>1, <1>2
      <3>2. B[m + 1] <= B[M] /\ B[M] \in Nat
        BY <1>1, <3>1
      <3> QED BY <1>4, <3>2
    <2>3. c = w
      BY <2>1, <2>2
    <2> QED BY ONLY <1>17, <1>18, <2>1, <2>2, <2>3, m \in Nat, k \in Nat, a \in Nat, c \in Nat, x \in Nat, y \in Nat, z \in Nat, u \in Nat, v \in Nat, w \in Nat
  <1> QED BY <1>10, <1>11, <1>12, <1>13, <1>14 DEF RankAt, At

----------------------------------------------------------------------------
(* An action of a rank.                                                     *)

\* No rank but r does anything.
OnlyRank(r) ==
    /\ UNCHANGED driverVars
    /\ \A q \in Ranks \ {r} :
          /\ pc'[q] = pc[q] /\ calls'[q] = calls[q] /\ data'[q] = data[q] /\ mini'[q] = mini[q]
          /\ number'[q] = number[q] /\ micro'[q] = micro[q] /\ run'[q] = run[q] /\ out'[q] = out[q]

\* What any action of a rank leaves alone.
LEMMA RankActs ==
    ASSUME RankFunctions, NEW r \in Ranks, Rank(r)
    PROVE  RankFunctions' /\ OnlyRank(r) /\ data' = data
  <1>1. CASE Begin(r)
    <2>1. OnlyRank(r) /\ data' = data
      BY <1>1 DEF Begin, RankFunctions, OnlyRank, OverRanks
    <2>2. \A q \in Ranks : run'[q] = run[q] \/ run'[q] = 0
      BY <1>1 DEF Begin, RankFunctions, OverRanks
    <2>3. \A q \in Ranks : run'[q] \in Nat
      BY <2>2 DEF RankFunctions
    <2> QED BY <1>1, <2>1, <2>3 DEF Begin, RankFunctions, OverRanks
  <1>2. CASE Agree(r)
    BY <1>2 DEF Agree, RankFunctions, OnlyRank, OverRanks
  <1>3. CASE Forward(r)
    <2>1. OnlyRank(r) /\ data' = data
      BY <1>3 DEF Forward, RankFunctions, OnlyRank, OverRanks
    <2>2. \A q \in Ranks : run'[q] = run[q] \/ run'[q] = run[q] + 1
      BY <1>3 DEF Forward, RankFunctions, OverRanks
    <2>3. \A q \in Ranks : run'[q] \in Nat
      BY <2>2 DEF RankFunctions
    <2> QED BY <1>3, <2>1, <2>3 DEF Forward, RankFunctions, OverRanks
  <1>4. CASE ReturnOutputs(r)
    BY <1>4 DEF ReturnOutputs, RankFunctions, OnlyRank, OverRanks
  <1>5. CASE Step(r)
    BY <1>5 DEF Step, RankFunctions, OnlyRank, OverRanks
  <1> QED BY <1>1, <1>2, <1>3, <1>4, <1>5 DEF Rank

\* A rank that moves along the plan, having waited for the others, leaves all in step.
LEMMA RankMoves ==
    ASSUME BatchAssumption, NEW f, NEW B, IsPlan(f, B), \A q \in Ranks : RankAt(q, f, B), Lockstep,
           phase \in Inference \cup Updates,
           NEW r \in Ranks, OnlyRank(r), RankAt(r, f, B)', calls'[r] >= calls[r],
           \A q \in Ranks : Completed(r)' <= calls[q]
    PROVE  InCall'
  <1>1. input' = input /\ phase' = phase /\ batch' = batch
    BY DEF OnlyRank, driverVars
  <1>2. IsPlan(f, B)'
    BY <1>1, CallUnmoved
  <1>3. ASSUME NEW q \in Ranks PROVE RankAt(q, f, B)'
    <2>1. CASE q = r
      BY <2>1
    <2>2. CASE q # r
      <3>1. /\ pc'[q] = pc[q] /\ calls'[q] = calls[q] /\ data'[q] = data[q] /\ mini'[q] = mini[q]
            /\ number'[q] = number[q] /\ micro'[q] = micro[q] /\ run'[q] = run[q]
        BY <2>2 DEF OnlyRank
      <3> QED BY <1>1, <3>1, RankUnmoved
    <2> QED BY <2>1, <2>2
  <1>4. Lockstep'
    <2>1. ASSUME NEW q \in Ranks, NEW s \in Ranks PROVE Completed(q)' <= calls'[s]
      <3>1. PICK a \in Nat, b \in Nat : a = calls[s] /\ b = calls'[s]
        <4>1. \A p \in Ranks : calls[p] \in Nat /\ calls'[p] \in Nat
          BY <1>3 DEF RankAt, At
        <4> QED BY <4>1
      <3>2. a <= b
        <4>1. CASE s = r
          BY <3>1, <4>1
        <4>2. CASE s # r
          BY <3>1, <4>2 DEF OnlyRank
        <4> QED BY <4>1, <4>2
      <3>3. Completed(q)' <= a /\ Completed(q)' \in Int
        <4>1. Completed(q)' \in Int
          BY <1>3 DEF RankAt, At, Completed
        <4>2. CASE q = r
          BY <3>1, <4>1, <4>2
        <4>3. CASE q # r
          <5>1. Completed(q)' = Completed(q)
            BY <4>3 DEF OnlyRank, Completed, Collectives
          <5> QED BY <3>1, <4>1, <5>1 DEF Lockstep
        <4> QED BY <4>2, <4>3
      <3>4. PICK x \in Int : x = Completed(q)'
        BY <3>3
      <3>5. x <= a
        BY <3>3, <3>4
      <3>6. x <= b
        BY ONLY <3>2, <3>5, x \in Int, a \in Nat, b \in Nat
      <3> QED BY <3>1, <3>4, <3>6
    <2> QED BY <2>1 DEF Lockstep
  <1> QED BY <1>1, <1>2, <1>3, <1>4 DEF InCall, Inference, Updates

\* The ranks agree on the number of the plan.
LEMMA AgreedNumber ==
    ASSUME BatchAssumption, input \in Inputs, Balanced, NEW f, NEW B, IsPlan(f, B),
           \A q \in Ranks : RankAt(q, f, B), Lockstep,
           NEW r \in Ranks, pc[r] = "agree", Completes(r)
    PROVE  Agreed(r) = f[mini[r]]
  <1>1. PICK m : m = mini[r]
    OBVIOUS
  <1>2. m \in 0..CallMinis - 1 /\ input.dynamic
    <2>1. mini[r] < CallMinis /\ input.dynamic /\ mini[r] \in 0..CallMinis /\ CallMinis \in Nat
      BY CallSizes DEF RankAt, At
    <2> QED BY <1>1, <2>1
  <1>3. ASSUME NEW q \in Ranks PROVE number[q] = Needed(q, m)
    <2>1. calls[q] >= calls[r] /\ Completed(q) <= calls[r]
      BY DEF Completes, Lockstep
    <2>2. pc[q] \in Collectives /\ mini[q] = mini[r]
      BY <2>1, SameNumber
    <2> QED BY <1>1, <1>2, <2>2 DEF RankAt
  <1>4. PICK x : x = f[m]
    OBVIOUS
  <1>5. x \in Nat \ {0} /\ (\A q \in Ranks : Needed(q, m) <= x) /\ \E q \in Ranks : Needed(q, m) = x
    BY <1>2, <1>4 DEF IsPlan, IsNumber
  <1>6. \A q \in Ranks : Needed(q, m) \in Nat
    BY <1>2, CallSizes, NeededPositive, SMTT(30)
  <1>7. PICK S : S = {number[q] : q \in Ranks}
    OBVIOUS
  <1>8. x \in S /\ \A y \in S : y <= x /\ y \in Nat
    BY <1>3, <1>5, <1>6, <1>7
  <1>9. \A q \in Ranks : number[q] \in S
    BY <1>7
  <1>10. x \in S /\ \A q \in Ranks : number[q] <= x
    BY <1>8, <1>9
  <1>11. ASSUME NEW y \in S, \A q \in Ranks : number[q] <= y PROVE y = x
    <2>1. x <= y
      <3>1. PICK q \in Ranks : x = number[q]
        BY <1>7, <1>8
      <3> QED BY <1>11, <3>1
    <2>2. y <= x /\ y \in Nat /\ x \in Nat
      BY <1>5, <1>8
    <2> QED BY ONLY <2>1, <2>2
  <1>12. Agreed(r) = CHOOSE y \in S : \A q \in Ranks : number[q] <= y
    BY <1>7 DEF Agreed
  <1>13. PICK z : z = CHOOSE y \in S : \A q \in Ranks : number[q] <= y
    OBVIOUS
  <1>14. z \in S /\ \A q \in Ranks : number[q] <= z
    BY <1>10, <1>13
  <1> QED BY <1>1, <1>4, <1>11, <1>12, <1>13, <1>14

\* Begin moves a rank along the plan.
LEMMA BeginMoves ==
    ASSUME BatchAssumption, input \in Inputs, Balanced, NEW f, NEW B, IsPlan(f, B),
           NEW r \in Ranks, RankAt(r, f, B), RankFunctions, OnlyRank(r), data' = data, Begin(r)
    PROVE  /\ RankAt(r, f, B)' /\ calls'[r] = calls[r] + 1 /\ Completed(r)' = calls[r]
           /\ calls[r] \in Nat
  <1>1. input' = input /\ phase' = phase /\ batch' = batch
    BY DEF OnlyRank, driverVars
  <1>2. /\ pc[r] = "start" /\ mini[r] < CallMinis /\ calls[r] = B[mini[r]] /\ calls[r] \in Nat
        /\ mini[r] \in 0..CallMinis /\ HasData(r) /\ run[r] \in Nat
    BY DEF Begin, RankAt, At
  <1>3. PICK m : m = mini[r]
    OBVIOUS
  <1>4. /\ Mini(r, m) = Piece(r, m) /\ m \in Nat /\ m \in 0..CallMinis - 1
    <2>1. m \in 0..CallMinis /\ m < CallMinis /\ CallMinis \in Nat
      BY <1>2, <1>3, CallSizes
    <2>2. m \in Nat /\ m \in 0..CallMinis - 1
      BY ONLY <2>1
    <2> QED BY <1>2, <2>2, MiniIsPiece
  <1>5. /\ f[m] \in Nat \ {0} /\ IsNumber(f[m], m)
    BY <1>4 DEF IsPlan
  <1>6. calls'[r] = calls[r] + 1 /\ mini'[r] = m /\ HasData(r)'
    BY <1>1, <1>2, <1>3, CallUnmoved DEF Begin, RankFunctions, OverRanks, HasData
  <1>7. CASE input.dynamic
    <2>1. /\ pc'[r] = "agree" /\ run'[r] = run[r] /\ number'[r] = MicroBatchNumber(Lengths(r), TokenLimit)
          /\ micro'[r] = micro[r]
      BY <1>7 DEF Begin, RankFunctions, OverRanks
    <2>2. number'[r] = Needed(r, m)
      BY <1>3, <1>4, <2>1 DEF Needed, Lengths, MiniBatch
    <2>3. At(f, B, "agree", calls'[r], m, number'[r], micro'[r], run'[r])
      BY <1>2, <1>3, <1>6, <1>7, <2>1, SMTT(30) DEF At
    <2>4. RankAt(r, f, B)'
      BY <1>1, <1>6, <2>1, <2>2, <2>3, CallUnmoved DEF RankAt
    <2>5. Completed(r)' = calls[r]
      BY <1>2, <1>6, <2>1, SMTT(30) DEF Completed, Collectives
    <2> QED BY <1>2, <1>6, <2>4, <2>5
  <1>8. CASE ~input.dynamic
    <2>1. /\ pc'[r] = "forward" /\ run'[r] = 0 /\ micro'[r] = FixedMicroBatches(Len(MiniBatch(r)))
      BY <1>8 DEF Begin, RankFunctions, OverRanks
    <2>2. Len(MiniBatch(r)) = CallRows
      <3>1. \E p : IsRun(Piece(r, m), p, CallRows)
        BY <1>4, PieceRun
      <3> QED BY <1>3, <1>4, <3>1 DEF MiniBatch, IsRun
    <2>3. IsCut(micro'[r], f[m])
      BY <1>5, <1>8, <2>1, <2>2, FixedCut DEF IsNumber
    <2>4. At(f, B, "forward", calls'[r], m, number'[r], micro'[r], run'[r])
      <3>1. 0 < f[m] /\ 0 \in Nat
        BY <1>5
      <3>2. calls'[r] = B[m] + Dyn + 0 + 1 /\ calls'[r] \in Nat
        BY <1>2, <1>3, <1>6, <1>8, SMTT(30) DEF Dyn
      <3> QED BY <1>2, <1>3, <2>1, <2>3, <3>1, <3>2 DEF At
    <2>5. RankAt(r, f, B)'
      BY <1>1, <1>6, <1>8, <2>1, <2>4, CallUnmoved DEF RankAt
    <2>6. Completed(r)' = calls[r]
      BY <1>2, <1>6, <2>1 DEF Completed, Collectives
    <2> QED BY <1>2, <1>6, <2>5, <2>6
  <1> QED BY <1>7, <1>8

\* Agree does.
LEMMA AgreeMoves ==
    ASSUME BatchAssumption, input \in Inputs, Balanced, NEW f, NEW B, IsPlan(f, B),
           \A q \in Ranks : RankAt(q, f, B), Lockstep,
           NEW r \in Ranks, RankFunctions, OnlyRank(r), data' = data, Agree(r)
    PROVE  /\ RankAt(r, f, B)' /\ calls'[r] = calls[r] + 1 /\ Completed(r)' = calls[r]
           /\ calls[r] \in Nat
  <1>1. input' = input /\ phase' = phase /\ batch' = batch
    BY DEF OnlyRank, driverVars
  <1>2. /\ pc[r] = "agree" /\ mini[r] < CallMinis /\ calls[r] = B[mini[r]] + 1 /\ calls[r] \in Nat
        /\ mini[r] \in 0..CallMinis /\ HasData(r) /\ input.dynamic /\ number[r] = Needed(r, mini[r])
    BY DEF Agree, RankAt, At, Collectives
  <1>3. PICK m : m = mini[r]
    OBVIOUS
  <1>4. /\ Mini(r, m) = Piece(r, m) /\ m \in Nat /\ m \in 0..CallMinis - 1
    <2>1. m \in 0..CallMinis /\ m < CallMinis /\ CallMinis \in Nat
      BY <1>2, <1>3, CallSizes
    <2>2. m \in Nat /\ m \in 0..CallMinis - 1
      BY ONLY <2>1
    <2> QED BY <1>2, <2>2, MiniIsPiece
  <1>5. /\ f[m] \in Nat \ {0} /\ B[m] \in Nat
    BY <1>4, PlanType, SMTT(30)
  <1>6. /\ calls'[r] = calls[r] + 1 /\ mini'[r] = m /\ HasData(r)' /\ number'[r] = Needed(r, m)
        /\ pc'[r] = "forward" /\ run'[r] = 0 /\ micro'[r] = MicroBatches(Lengths(r), Agreed(r))
    BY <1>1, <1>2, <1>3, CallUnmoved DEF Agree, RankFunctions, OverRanks, HasData
  <1>7. Agreed(r) = f[m]
    BY <1>2, <1>3, AgreedNumber DEF Agree
  <1>8. micro'[r] = MicroBatches(Lens(Piece(r, m)), f[m])
    BY <1>3, <1>4, <1>6, <1>7 DEF Lengths, MiniBatch
  <1>9. IsCut(micro'[r], f[m])
    <2>1. PICK k : k = f[m]
      OBVIOUS
    <2>2. k \in Nat \ {0}
      BY <1>5, <2>1
    <2>3. IsCut(MicroBatches(Lens(Piece(r, m)), k), k)
      BY <1>2, <1>4, <2>2, DynamicCut
    <2> QED BY <1>8, <2>1, <2>3
  <1>10. At(f, B, "forward", calls'[r], m, number'[r], micro'[r], run'[r])
    <2>1. 0 < f[m] /\ 0 \in Nat
      BY <1>5
    <2>2. calls'[r] = B[m] + Dyn + 0 + 1 /\ calls'[r] \in Nat
      <3>1. Dyn = 1 /\ calls[r] = B[m] + 1 /\ calls'[r] = calls[r] + 1
        BY <1>2, <1>3, <1>6 DEF Dyn
      <3>2. PICK x \in Nat : x = B[m]
        BY <1>5
      <3>3. PICK y, z, e : y = calls[r] /\ z = calls'[r] /\ e = Dyn
        OBVIOUS
      <3>4. y = x + 1 /\ z = y + 1 /\ e = 1
        BY <3>1, <3>2, <3>3
      <3>5. z = x + e + 0 + 1 /\ z \in Nat
        BY ONLY <3>4, x \in Nat
      <3> QED BY <3>2, <3>3, <3>5
    <2> QED BY <1>2, <1>3, <1>6, <1>9, <2>1, <2>2 DEF At
  <1>11. RankAt(r, f, B)'
    BY <1>1, <1>6, <1>10, CallUnmoved DEF RankAt
  <1>12. Completed(r)' = calls[r]
    BY <1>2, <1>6 DEF Completed, Collectives
  <1> QED BY <1>2, <1>6, <1>11, <1>12

\* Forward does.
LEMMA ForwardMoves ==
    ASSUME BatchAssumption, NEW f, NEW B, IsPlan(f, B), NEW r \in Ranks, RankAt(r, f, B), RankFunctions,
           OnlyRank(r), data' = data, Forward(r)
    PROVE  /\ RankAt(r, f, B)' /\ calls'[r] >= calls[r] /\ Completed(r)' = calls[r]
           /\ calls[r] \in Nat
  <1>1. input' = input /\ phase' = phase /\ batch' = batch
    BY DEF OnlyRank, driverVars
  <1>2. /\ pc[r] = "forward" /\ mini[r] < CallMinis /\ calls[r] \in Nat /\ run[r] \in Nat
        /\ mini[r] \in 0..CallMinis /\ HasData(r) /\ run[r] < f[mini[r]]
        /\ calls[r] = B[mini[r]] + Dyn + run[r] + 1 /\ IsCut(micro[r], f[mini[r]])
        /\ (input.dynamic => number[r] = Needed(r, mini[r]))
    BY DEF Forward, RankAt, At, Collectives
  <1>3. PICK m : m = mini[r]
    OBVIOUS
  <1>4. m \in 0..CallMinis - 1 /\ m \in 0..CallMinis
    <2>1. m \in 0..CallMinis /\ m < CallMinis /\ CallMinis \in Nat
      BY <1>2, <1>3, CallSizes
    <2> QED BY ONLY <2>1
  <1>5. PICK g \in Nat, b \in Nat, l \in Nat, e \in Nat, d \in Nat, c \in Nat :
           /\ g = f[m] /\ b = B[m] /\ l = B[m + 1] /\ e = Dyn /\ d = run[r] /\ c = calls[r]
    <2>0. /\ \A i \in 0..CallMinis : B[i] \in Nat
          /\ \A i \in 0..CallMinis - 1 : f[i] \in Nat \ {0}
          /\ Dyn \in 0..1
      BY PlanType
    <2>1. f[m] \in Nat /\ B[m] \in Nat /\ Dyn \in Nat
      BY ONLY <1>4, <2>0
    <2>2. m + 1 \in 0..CallMinis
      <3>1. CallMinis \in Nat /\ m \in 0..CallMinis - 1
        BY <1>4, CallSizes
      <3> QED BY ONLY <3>1
    <2>3. B[m + 1] \in Nat
      BY <2>2, PlanType
    <2> QED BY <1>2, <2>1, <2>3
  <1>6. l = b + e + g /\ d < g /\ c = b + e + d + 1
    <2>0. \A i \in 0..CallMinis - 1 : B[i + 1] = B[i] + Dyn + f[i]
      BY PlanType, SMTT(30)
    <2>1. B[m + 1] = B[m] + Dyn + f[m]
      BY ONLY <1>4, <2>0
    <2> QED BY <1>2, <1>3, <1>5, <2>1
  <1>7. Len(micro[r]) = g
    <2>1. micro[r] \in [1..g -> Seq(1..CallRows)]
      BY <1>2, <1>3, <1>5 DEF IsCut, IsPartition
    <2> QED BY ONLY <2>1, g \in Nat
  <1>8. /\ mini'[r] = m /\ HasData(r)' /\ number'[r] = number[r] /\ micro'[r] = micro[r]
        /\ run'[r] = d + 1
    BY <1>1, <1>2, <1>3, <1>5, CallUnmoved DEF Forward, RankFunctions, OverRanks, HasData
  <1>9. CASE d + 1 < g
    <2>1. calls'[r] = c + 1 /\ pc'[r] = "forward"
      BY <1>2, <1>5, <1>7, <1>8, <1>9 DEF Forward, RankFunctions, OverRanks
    <2>2. At(f, B, "forward", calls'[r], m, number'[r], micro'[r], run'[r])
      <3>1. d + 1 \in Nat /\ c + 1 \in Nat /\ c + 1 = b + e + (d + 1) + 1
        BY ONLY <1>6, b \in Nat, c \in Nat, d \in Nat, e \in Nat
      <3>2. IsCut(micro'[r], f[m])
        BY <1>2, <1>3, <1>8
      <3> QED BY <1>2, <1>3, <1>5, <1>8, <1>9, <2>1, <3>1, <3>2 DEF At
    <2>3. RankAt(r, f, B)'
      BY <1>1, <1>2, <1>3, <1>8, <2>1, <2>2, CallUnmoved DEF RankAt
    <2>4. Completed(r)' = c
      BY <2>1 DEF Completed, Collectives
    <2> QED BY <1>5, <2>1, <2>3, <2>4
  <1>10. CASE ~(d + 1 < g)
    <2>1. calls'[r] = c /\ pc'[r] = "end"
      BY <1>2, <1>5, <1>7, <1>8, <1>10 DEF Forward, RankFunctions, OverRanks
    <2>2. At(f, B, "end", calls'[r], m, number'[r], micro'[r], run'[r])
      <3>1. d + 1 \in Nat /\ d + 1 = g /\ c = l
        <4>1. d + 1 = g
          BY ONLY <1>6, <1>10, d \in Nat, g \in Nat
        <4>2. c = l
          BY ONLY <1>6, <4>1, c \in Nat, l \in Nat, b \in Nat, e \in Nat, d \in Nat, g \in Nat
        <4> QED BY <4>1, <4>2
      <3>2. IsCut(micro'[r], f[m])
        BY <1>2, <1>3, <1>8
      <3> QED BY <1>2, <1>3, <1>5, <1>8, <2>1, <3>1, <3>2 DEF At
    <2>3. RankAt(r, f, B)'
      BY <1>1, <1>2, <1>3, <1>8, <2>1, <2>2, CallUnmoved DEF RankAt, Collectives
    <2>4. Completed(r)' = c
      BY <2>1 DEF Completed, Collectives
    <2> QED BY <1>5, <2>1, <2>3, <2>4
  <1> QED BY <1>9, <1>10

\* Returning outputs or taking a step does.
LEMMA EndMoves ==
    ASSUME BatchAssumption, Balanced, NEW f, NEW B, IsPlan(f, B), NEW r \in Ranks, RankAt(r, f, B),
           RankFunctions, OnlyRank(r), data' = data, ReturnOutputs(r) \/ Step(r)
    PROVE  /\ RankAt(r, f, B)' /\ calls'[r] = calls[r] /\ Completed(r)' = calls[r]
           /\ Completed(r) = calls[r] /\ calls[r] \in Nat
  <1>1. input' = input /\ phase' = phase /\ batch' = batch
    BY DEF OnlyRank, driverVars
  <1>2. /\ pc[r] = "end" /\ mini[r] < CallMinis /\ calls[r] \in Nat /\ run[r] \in Nat
        /\ mini[r] \in 0..CallMinis /\ HasData(r) /\ calls[r] = B[mini[r] + 1]
    BY DEF ReturnOutputs, Step, RankAt, At, Collectives
  <1>3. PICK m \in Nat, M \in Nat : m = mini[r] /\ M = CallMinis
    <2>1. mini[r] \in Nat /\ CallMinis \in Nat
      <3>1. CallMinis \in Nat
        BY CallSizes
      <3> QED BY ONLY <1>2, <3>1
    <2> QED BY <2>1
  <1>4. /\ HasData(r)' /\ number'[r] = number[r] /\ micro'[r] = micro[r] /\ run'[r] = run[r]
        /\ calls'[r] = calls[r]
    BY <1>1, <1>2, <1>3, CallUnmoved DEF ReturnOutputs, Step, RankFunctions, OverRanks, HasData
  <1>5. ASSUME pc'[r] \in {"start", "returned"},
               At(f, B, pc'[r], calls'[r], mini'[r], number'[r], micro'[r], run'[r])
        PROVE  /\ RankAt(r, f, B)' /\ calls'[r] = calls[r] /\ Completed(r)' = calls[r]
               /\ Completed(r) = calls[r] /\ calls[r] \in Nat
    <2>1. RankAt(r, f, B)'
      BY <1>1, <1>4, <1>5, CallUnmoved DEF RankAt, Collectives
    <2>2. Completed(r)' = calls[r] /\ Completed(r) = calls[r]
      BY <1>2, <1>4, <1>5 DEF Completed, Collectives
    <2> QED BY <1>2, <1>4, <2>1, <2>2
  <1>6. CASE ReturnOutputs(r)
    <2>1. pc'[r] = "returned" /\ mini'[r] = m /\ phase \in Inference
      BY <1>3, <1>6 DEF ReturnOutputs, RankFunctions, OverRanks
    <2>2. M = 1
      BY <1>3, <2>1 DEF CallMinis
    <2>3. m + 1 = M
      <3>1. m < M
        BY <1>2, <1>3
      <3> QED BY <2>2, <3>1
    <2>4. calls'[r] = B[M]
      BY <1>2, <1>3, <1>4, <2>3
    <2>5. At(f, B, pc'[r], calls'[r], mini'[r], number'[r], micro'[r], run'[r])
      BY <1>2, <1>3, <1>4, <2>1, <2>4 DEF At
    <2> QED BY <1>5, <2>1, <2>5
  <1>7. CASE Step(r)
    <2>1. /\ mini'[r] = m + 1
          /\ pc'[r] = IF m + 1 < MiniBatchesInCall(r) THEN "start" ELSE "returned"
      BY <1>3, <1>7 DEF Step, RankFunctions, OverRanks
    <2>2. MiniBatchesInCall(r) = M
      BY <1>2, <1>3, MiniIsPiece
    <2>3. m + 1 \in 0..M /\ calls'[r] = B[m + 1]
      <3>1. m < M
        BY <1>2, <1>3
      <3>2. m + 1 \in 0..M
        BY ONLY <3>1, m \in Nat, M \in Nat
      <3>3. calls'[r] = B[m + 1]
        BY <1>2, <1>3, <1>4
      <3> QED BY ONLY <3>2, <3>3
    <2>4. CASE m + 1 < M
      <3>1. pc'[r] = "start"
        BY <2>1, <2>2, <2>4
      <3>2. At(f, B, pc'[r], calls'[r], mini'[r], number'[r], micro'[r], run'[r])
        BY <1>2, <1>3, <1>4, <2>1, <2>3, <2>4, <3>1 DEF At
      <3> QED BY <1>5, <3>1, <3>2
    <2>5. CASE ~(m + 1 < M)
      <3>1. pc'[r] = "returned" /\ m + 1 = M
        BY <2>1, <2>2, <2>3, <2>5
      <3>2. At(f, B, pc'[r], calls'[r], mini'[r], number'[r], micro'[r], run'[r])
        BY <1>2, <1>3, <1>4, <2>1, <2>3, <3>1 DEF At
      <3> QED BY <1>5, <3>1, <3>2
    <2> QED BY <2>4, <2>5
  <1> QED BY <1>6, <1>7

\* Every action of a rank does, and leaves all in step.
LEMMA CallMoves ==
    ASSUME BatchAssumption, BatchInv, RankFunctions, InCall, NEW r \in Ranks, Rank(r)
    PROVE  InCall'
  <1>1. PICK f, B : IsPlan(f, B) /\ \A q \in Ranks : RankAt(q, f, B)
    BY DEF InCall
  <1>2. Lockstep /\ phase \in Inference \cup Updates /\ input \in Inputs /\ Balanced
    BY DEF InCall, BatchInv, Inference, Updates
  <1>3. OnlyRank(r) /\ data' = data
    BY RankActs
  <1>4. \A q \in Ranks : calls[q] \in Nat
    BY <1>1 DEF RankAt, At
  <1>5. /\ RankAt(r, f, B)' /\ calls'[r] >= calls[r]
        /\ \A q \in Ranks : Completed(r)' <= calls[q]
    <2>1. CASE Begin(r)
      <3>1. RankAt(r, f, B)' /\ calls'[r] = calls[r] + 1 /\ Completed(r)' = calls[r]
        BY <1>1, <1>2, <1>3, <2>1, BeginMoves
      <3>2. Completed(r) = calls[r]
        BY <2>1 DEF Completed, Begin, Collectives
      <3> QED BY <1>2, <1>4, <3>1, <3>2 DEF Lockstep
    <2>2. CASE Agree(r)
      <3>1. RankAt(r, f, B)' /\ calls'[r] = calls[r] + 1 /\ Completed(r)' = calls[r]
        BY <1>1, <1>2, <1>3, <2>2, AgreeMoves
      <3>2. \A q \in Ranks : calls[q] >= calls[r]
        BY <2>2 DEF Agree, Completes
      <3> QED BY <1>4, <3>1, <3>2
    <2>3. CASE Forward(r)
      <3>1. RankAt(r, f, B)' /\ calls'[r] >= calls[r] /\ Completed(r)' = calls[r]
        BY <1>1, <1>2, <1>3, <2>3, ForwardMoves
      <3>2. \A q \in Ranks : calls[q] >= calls[r]
        BY <2>3 DEF Forward, Completes
      <3> QED BY <1>4, <3>1, <3>2
    <2>4. CASE ReturnOutputs(r) \/ Step(r)
      <3>1. RankAt(r, f, B)' /\ calls'[r] = calls[r] /\ Completed(r)' = calls[r] /\ Completed(r) = calls[r]
        BY <1>1, <1>2, <1>3, <2>4, EndMoves
      <3> QED BY <1>2, <1>4, <3>1 DEF Lockstep
    <2> QED BY <2>1, <2>2, <2>3, <2>4 DEF Rank
  <1> QED BY <1>1, <1>2, <1>3, <1>5, RankMoves

----------------------------------------------------------------------------
(* The ranks go on.                                                         *)

\* In the beginning no rank has called anything.
LEMMA RanksInit ==
    ASSUME Init PROVE RanksInv
  <1>1. RankFunctions
    BY DEF Init, RankFunctions, OverRanks
  <1>2. Idle
    BY DEF Init, Idle
  <1>3. 0 \in Nat /\ \A r \in Ranks : calls[r] = 0
    BY DEF Init
  <1> QED BY <1>1, <1>2, <1>3 DEF RanksInv

\* There is a rank.
LEMMA SomeRank ==
    ASSUME BatchAssumption PROVE 1 \in Ranks
  <1>1. PICK n \in Nat \ {0} : n = DpSize * SpSize
    <2>1. PICK a \in Nat \ {0}, b \in Nat \ {0} : a = DpSize /\ b = SpSize
      BY Sizes
    <2>2. a * b \in Nat \ {0}
      OBVIOUS
    <2> QED BY <2>1, <2>2
  <1>2. Ranks = 1..n
    BY <1>1 DEF Ranks
  <1> QED BY <1>2

\* Dispatching begins a call: there is a plan for it.
LEMMA RanksDispatch ==
    ASSUME BatchAssumption, BatchInv, RanksInv, Dispatch PROVE RanksInv'
  <1>1. /\ phase \in Inference \cup Updates /\ Idle /\ UNCHANGED driverVars /\ Balanced /\ input \in Inputs
        /\ input' = input /\ phase' = phase /\ batch' = batch
    BY DEF Dispatch, BatchInv, Inference, Updates, driverVars
  <1>2. RankFunctions'
    BY DEF Dispatch, RanksInv, RankFunctions, OverRanks
  <1>3. PICK c \in Nat : \A r \in Ranks : calls[r] = c
    <2>1. ~InCall
      <3>1. SUFFICES ASSUME InCall PROVE FALSE
        OBVIOUS
      <3>2. pc[1] \in {"start", "agree", "forward", "end", "returned"}
        BY <3>1, SomeRank DEF InCall, RankAt, At
      <3>3. pc[1] = "idle"
        BY <1>1, SomeRank DEF Idle
      <3> QED BY <3>2, <3>3
    <2> QED BY <2>1 DEF RanksInv
  <1>4. PICK f, B : IsPlan(f, B) /\ B[0] = c
    BY <1>1, PlanExists
  <1>5. IsPlan(f, B)'
    BY <1>1, <1>4, CallUnmoved
  <1>6. ASSUME NEW r \in Ranks PROVE RankAt(r, f, B)' /\ Completed(r)' = c /\ calls'[r] = c
    <2>1. /\ pc'[r] = "start" /\ mini'[r] = 0 /\ calls'[r] = c /\ run'[r] = run[r]
          /\ data'[r] = Given(r)
      BY <1>3 DEF Dispatch, Given
    <2>2. HasData(r)'
      BY <1>1, <2>1, CallUnmoved DEF HasData
    <2>3. 0 \in 0..CallMinis /\ 0 < CallMinis /\ run[r] \in Nat
      BY CallSizes, SMTT(30) DEF RanksInv, RankFunctions
    <2>4. At(f, B, "start", c, 0, number'[r], micro'[r], run'[r])
      BY <1>4, <2>1, <2>3 DEF At
    <2>5. RankAt(r, f, B)'
      BY <1>1, <2>1, <2>2, <2>4, CallUnmoved DEF RankAt, Collectives
    <2> QED BY <2>1, <2>5 DEF Completed, Collectives
  <1>7. Lockstep'
    BY <1>6 DEF Lockstep
  <1>8. InCall'
    BY <1>1, <1>5, <1>6, <1>7 DEF InCall, Inference, Updates
  <1> QED BY <1>2, <1>8 DEF RanksInv

\* Every step keeps the ranks in step.
LEMMA RanksStep ==
    ASSUME BatchAssumption, BatchInv, RanksInv, [Next]_vars PROVE RanksInv'
  <1>1. CASE Generate \/ Balance \/ Score \/ ComputeAdvantage
    <2>1. UNCHANGED rankVars /\ phase \notin Inference \cup Updates
      BY <1>1 DEF Generate, Balance, Score, ComputeAdvantage, Inference, Updates
    <2>2. RankFunctions' /\ Idle' /\ \E c \in Nat : \A r \in Ranks : calls'[r] = c
      BY <2>1 DEF rankVars, RanksInv, InCall, RankFunctions, OverRanks, Idle
    <2> QED BY <2>2 DEF RanksInv
  <1>2. CASE Dispatch
    BY <1>2, RanksDispatch
  <1>3. CASE Collect
    <2>1. /\ AllReturned /\ calls' = calls /\ pc' = [r \in Ranks |-> "idle"]
          /\ UNCHANGED <<data, mini, number, micro, run, out, grads>>
      BY <1>3 DEF Collect
    <2>2. RankFunctions' /\ Idle'
      BY <2>1 DEF RanksInv, RankFunctions, OverRanks, Idle
    <2>3. InCall
      BY <2>1, SomeRank DEF RanksInv, Idle, AllReturned
    <2>4. PICK f, B : \A r \in Ranks : RankAt(r, f, B)
      BY <2>3 DEF InCall
    <2>5. \A r \in Ranks : calls[r] = B[CallMinis] /\ calls[r] \in Nat
      BY <2>1, <2>4 DEF AllReturned, RankAt, At
    <2>6. \E c \in Nat : \A r \in Ranks : calls[r] = c
      BY <2>5, SomeRank
    <2> QED BY <2>1, <2>2, <2>6 DEF RanksInv
  <1>4. CASE \E r \in Ranks : Rank(r)
    <2>1. PICK r \in Ranks : Rank(r)
      BY <1>4
    <2>2. pc[r] # "idle"
      BY <2>1 DEF Rank, Begin, Agree, Forward, ReturnOutputs, Step
    <2>3. InCall /\ RankFunctions
      BY <2>2 DEF RanksInv, Idle
    <2> QED BY <2>1, <2>3, RankActs, CallMoves, SMTT(30) DEF RanksInv
  <1>5. CASE UNCHANGED vars
    <2>1. UNCHANGED <<input, phase, batch>> /\ UNCHANGED rankVars
      BY <1>5 DEF vars, driverVars
    <2>2. UNCHANGED <<pc, calls, data, mini, number, micro, run, out, grads>>
      BY <2>1 DEF rankVars
    <2>3. RankFunctions'
      BY <2>2 DEF RanksInv, RankFunctions, OverRanks
    <2>4. CASE InCall
      <3>1. PICK f, B : IsPlan(f, B) /\ \A r \in Ranks : RankAt(r, f, B)
        BY <2>4 DEF InCall
      <3>2. IsPlan(f, B)' /\ \A r \in Ranks : RankAt(r, f, B)'
        BY <2>1, <2>2, <3>1, CallUnmoved, RankUnmoved
      <3>3. Lockstep'
        BY <2>2, <2>4 DEF InCall, Lockstep, Completed, Collectives
      <3> QED BY <2>1, <2>3, <2>4, <3>2, <3>3 DEF InCall, RanksInv, Inference, Updates
    <2>5. CASE ~InCall
      BY <2>2, <2>3, <2>5 DEF RanksInv, Idle
    <2> QED BY <2>4, <2>5
  <1> QED BY <1>1, <1>2, <1>3, <1>4, <1>5 DEF Next, Driver

\* Two ranks in as many collective operations are in the same one.
LEMMA SameOperation ==
    ASSUME BatchAssumption, NEW f, NEW B, IsPlan(f, B), NEW q, NEW r, RankAt(q, f, B), RankAt(r, f, B),
           pc[q] = "agree", pc[r] = "forward"
    PROVE  calls[q] # calls[r]
  <1>1. /\ \A m \in 0..CallMinis : B[m] \in Nat
        /\ \A m \in 0..CallMinis - 1 : f[m] \in Nat \ {0} /\ B[m + 1] = B[m] + Dyn + f[m]
        /\ \A a, b \in 0..CallMinis : a < b => B[a + 1] <= B[b]
        /\ CallMinis \in Nat \ {0} /\ Dyn \in 0..1 /\ (input.dynamic <=> Dyn = 1)
    BY PlanType
  <1>2. /\ mini[q] < CallMinis /\ calls[q] = B[mini[q]] + 1 /\ input.dynamic /\ mini[q] \in 0..CallMinis
        /\ mini[r] < CallMinis /\ run[r] < f[mini[r]] /\ calls[r] = B[mini[r]] + Dyn + run[r] + 1
        /\ mini[r] \in 0..CallMinis /\ run[r] \in Nat
    BY DEF RankAt, At
  <1>3. PICK M \in Nat, m \in Nat, k \in Nat, d \in Nat : M = CallMinis /\ m = mini[q] /\ k = mini[r] /\ d = run[r]
    BY <1>1, <1>2, SMTT(30)
  <1>4. /\ \A i \in 0..M : B[i] \in Nat
        /\ \A i \in 0..M - 1 : f[i] \in Nat \ {0} /\ B[i + 1] = B[i] + Dyn + f[i]
        /\ \A i, j \in 0..M : i < j => B[i + 1] <= B[j]
        /\ m < M /\ k < M /\ calls[q] = B[m] + 1 /\ d < f[k] /\ calls[r] = B[k] + Dyn + d + 1 /\ Dyn = 1
    BY ONLY <1>1, <1>2, <1>3
  <1>5. /\ m \in 0..M - 1 /\ k \in 0..M - 1 /\ m \in 0..M /\ k \in 0..M /\ m + 1 \in 0..M /\ k + 1 \in 0..M
    BY ONLY <1>4, m \in Nat, k \in Nat, M \in Nat
  <1>6. /\ B[m] \in Nat /\ B[k] \in Nat /\ B[m + 1] \in Nat /\ B[k + 1] \in Nat /\ f[m] \in Nat /\ f[k] \in Nat
        /\ B[m + 1] = B[m] + Dyn + f[m] /\ B[k + 1] = B[k] + Dyn + f[k]
        /\ (m < k => B[m + 1] <= B[k]) /\ (k < m => B[k + 1] <= B[m])
    BY ONLY <1>4, <1>5
  <1>7. PICK x \in Nat, y \in Nat, z \in Nat, u \in Nat, v \in Nat, w \in Nat :
           x = B[m] /\ y = B[k] /\ z = B[m + 1] /\ u = B[k + 1] /\ v = f[m] /\ w = f[k]
    BY <1>6
  <1>8. /\ z = x + 1 + v /\ u = y + 1 + w /\ (m < k => z <= y) /\ (k < m => u <= x)
        /\ (m = k => x = y) /\ d < w
    BY ONLY <1>4, <1>6, <1>7
  <1>9. x + 1 # y + 1 + d + 1
    BY ONLY <1>8, m \in Nat, k \in Nat, d \in Nat, x \in Nat, y \in Nat, z \in Nat, u \in Nat, v \in Nat, w \in Nat
  <1>10. calls[q] = x + 1 /\ calls[r] = y + 1 + d + 1
    BY ONLY <1>4, <1>7
  <1> QED BY <1>9, <1>10

\* A rank with the fewest calls can go on: nobody is behind it, and those with as many are in the
\* same operation.
LEMMA RanksDoGoOn ==
    ASSUME BatchAssumption, RanksInv PROVE RanksGoOn
  <1> SUFFICES ASSUME \E r \in Ranks : pc[r] \notin {"idle", "returned"},
                      ~ \E r \in Ranks : pc[r] \in {"start", "end"}
               PROVE  \E r \in Ranks : pc[r] \in Collectives /\ Completes(r)
    BY DEF RanksGoOn
  <1>1. InCall
    BY DEF RanksInv, Idle
  <1>2. PICK f, B : IsPlan(f, B) /\ \A r \in Ranks : RankAt(r, f, B)
    BY <1>1 DEF InCall
  <1>3. \A r \in Ranks : (pc[r] \in Collectives \/ pc[r] = "returned") /\ calls[r] \in Nat
    BY <1>2 DEF RankAt, At, Collectives
  <1>4. PICK S : S = {r \in Ranks : pc[r] \in Collectives}
    OBVIOUS
  <1>5. PICK r \in S : \A q \in S : calls[r] <= calls[q]
    <2>1. S # {} /\ \A q \in S : calls[q] \in Nat
      BY <1>3, <1>4
    <2> QED BY ONLY <2>1, FewestCalls
  <1>6. r \in Ranks /\ pc[r] \in Collectives
    BY <1>4, <1>5
  <1>7. ASSUME NEW q \in Ranks
        PROVE  calls[q] >= calls[r] /\ (calls[q] = calls[r] /\ pc[q] \in Collectives => pc[q] = pc[r])
    <2>1. calls[q] \in Nat /\ calls[r] \in Nat
      BY <1>3, <1>6
    <2>2. CASE pc[q] \in Collectives
      <3>1. calls[q] >= calls[r]
        BY <1>4, <1>5, <2>1, <2>2
      <3>2. calls[q] = calls[r] => pc[q] = pc[r]
        <4>1. pc[q] = "agree" /\ pc[r] = "forward" => calls[q] # calls[r]
          BY <1>2, <1>6, SameOperation
        <4>2. pc[r] = "agree" /\ pc[q] = "forward" => calls[r] # calls[q]
          BY <1>2, <1>6, SameOperation
        <4> QED BY <1>6, <2>2, <4>1, <4>2 DEF Collectives
      <3> QED BY <3>1, <3>2
    <2>3. CASE pc[q] = "returned"
      <3>1. calls[q] = B[CallMinis]
        BY <1>2, <2>3 DEF RankAt, At
      <3>2. calls[r] <= B[CallMinis]
        <4>1. /\ \A m \in 0..CallMinis : B[m] \in Nat
              /\ \A m \in 0..CallMinis - 1 : f[m] \in Nat \ {0} /\ B[m + 1] = B[m] + Dyn + f[m]
              /\ \A a, b \in 0..CallMinis : a < b => B[a + 1] <= B[b]
              /\ CallMinis \in Nat \ {0} /\ Dyn \in 0..1 /\ (input.dynamic <=> Dyn = 1)
          BY <1>2, PlanType
        <4>2. /\ mini[r] < CallMinis /\ mini[r] \in 0..CallMinis /\ run[r] \in Nat
              /\ \/ calls[r] = B[mini[r]] + 1 /\ input.dynamic
                 \/ calls[r] = B[mini[r]] + Dyn + run[r] + 1 /\ run[r] < f[mini[r]]
          BY <1>2, <1>6 DEF RankAt, At, Collectives
        <4>3. PICK M \in Nat, m \in Nat, d \in Nat, e \in Nat, c \in Nat :
                 M = CallMinis /\ m = mini[r] /\ d = run[r] /\ e = Dyn /\ c = calls[r]
          <5>1. CallMinis \in Nat /\ mini[r] \in Nat /\ run[r] \in Nat /\ Dyn \in Nat /\ calls[r] \in Nat
            BY ONLY <2>1, <4>1, <4>2
          <5> QED BY ONLY <5>1
        <4>4. m < M /\ m \in 0..M - 1 /\ m \in 0..M /\ M \in 0..M /\ m + 1 \in 0..M
          BY ONLY <4>2, <4>3
        <4>5. PICK x \in Nat, y \in Nat, z \in Nat, g \in Nat :
                 x = B[m] /\ y = B[m + 1] /\ z = B[M] /\ g = f[m] /\ y = x + e + g /\ y <= z
          <5>1. /\ B[m] \in Nat /\ B[m + 1] \in Nat /\ B[M] \in Nat /\ f[m] \in Nat
                /\ B[m + 1] = B[m] + e + f[m] /\ B[m + 1] <= B[M]
            BY ONLY <4>1, <4>3, <4>4
          <5> QED BY <5>1
        <4>6. (c = x + 1 /\ e = 1) \/ (c = x + e + d + 1 /\ d < g)
          BY ONLY <4>1, <4>2, <4>3, <4>5
        <4>7. c <= z
          BY ONLY <4>5, <4>6, c \in Nat, x \in Nat, y \in Nat, z \in Nat, e \in Nat, d \in Nat, g \in Nat
        <4> QED BY <4>3, <4>5, <4>7
      <3> QED BY <2>1, <2>3, <3>1, <3>2 DEF Collectives
    <2> QED BY <1>3, <2>2, <2>3
  <1>8. Completes(r)
    BY <1>7 DEF Completes
  <1> QED BY <1>6, <1>8

----------------------------------------------------------------------------
(* Outputs of a rank.                                                       *)

\* A micro-batch more, after those before.
LEMMA EmitPart ==
    ASSUME NEW m \in Nat, NEW n \in Nat, NEW parts, parts \in [1..m -> Seq(1..n)],
           NEW off, IsOffset(off, parts, m), NEW v, NEW d \in 0..m - 1,
           NEW o, Emitted(o, parts, v, off[d + 1]),
           NEW t, t = o \o [i \in 1..Len(parts[d + 1]) |-> v[parts[d + 1][i]]]
    PROVE  Emitted(t, parts, v, off[(d + 1) + 1])
  <1>1. PICK flat : flat = FlattenSeq(parts)
    OBVIOUS
  <1>2. flat \in Seq(1..n) /\ IsFlat(flat, parts, m, off)
    BY <1>1, FlattenAt
  <1>3. PICK part, e : part = parts[d + 1] /\ e = d + 1
    OBVIOUS
  <1>4. /\ d + 1 \in 1..m /\ off[d + 1] \in Nat /\ part \in Seq(1..n)
        /\ off[(d + 1) + 1] = off[d + 1] + Len(part)
    <2>1. d + 1 \in 1..m /\ d + 1 \in 1..m + 1
      OBVIOUS
    <2> QED BY <1>3, <2>1 DEF IsOffset
  <1>5. PICK a \in Nat, l \in Nat, c \in Nat : a = off[d + 1] /\ l = Len(part) /\ c = a + l
    BY <1>4
  <1>6. PICK x : x = [i \in 1..l |-> v[part[i]]]
    OBVIOUS
  <1>7. o = [p \in 1..a |-> v[flat[p]]]
    BY <1>1, <1>5 DEF Emitted
  <1>8. \A i \in 1..l : flat[a + i] = part[i]
    BY <1>2, <1>3, <1>4, <1>5 DEF IsFlat
  <1>9. PICK W : W = {v[flat[p]] : p \in 1..c} \cup {v[part[i]] : i \in 1..l}
    OBVIOUS
  <1>10. o \in Seq(W) /\ x \in Seq(W) /\ Len(o) = a /\ Len(x) = l
    <2>1. \A p \in 1..a : p \in 1..c
      BY <1>5
    <2>2. o \in [1..a -> W] /\ x \in [1..l -> W]
      BY <1>6, <1>7, <1>9, <2>1
    <2> QED BY ONLY <2>2, a \in Nat, l \in Nat
  <1>11. t = o \o x
    BY <1>3, <1>5, <1>6
  <1>12. t \in Seq(W) /\ Len(t) = c
    BY ONLY <1>10, <1>11, <1>5, a \in Nat, l \in Nat
  <1>13. ASSUME NEW p \in 1..c PROVE t[p] = v[flat[p]]
    <2>1. CASE p <= a
      <3>1. p \in 1..a
        BY <2>1
      <3>2. t[p] = o[p]
        BY ONLY <1>10, <1>11, <3>1
      <3> QED BY ONLY <1>7, <3>1, <3>2
    <2>2. CASE ~(p <= a)
      <3>1. PICK i \in 1..l : p = a + i
        <4>1. p - a \in 1..l /\ p = a + (p - a)
          BY <1>5, <2>2, SMTT(30)
        <4> QED BY <4>1
      <3>2. t[p] = x[i]
        <4>1. i \in 1..Len(x) /\ p = Len(o) + i
          BY <1>10, <3>1
        <4> QED BY ONLY <1>10, <1>11, <4>1
      <3> QED BY ONLY <1>6, <1>8, <3>1, <3>2, i \in 1..l
    <2> QED BY <2>1, <2>2
  <1>14. t = [p \in 1..c |-> t[p]]
    BY ONLY <1>12
  <1>15. t = [p \in 1..c |-> v[flat[p]]]
    BY ONLY <1>13, <1>14
  <1> QED BY <1>1, <1>3, <1>4, <1>5, <1>15 DEF Emitted

\* Pieces of a fixed size are in order already.
Fixed(k, c) == [m \in 1..k |-> [i \in 1..c |-> (m - 1) * c + i]]

\* Flattened, they are the rows in order.
LEMMA FixedInOrder ==
    ASSUME NEW n, NEW k, NEW c, IsGrid(n, k, c)
    PROVE  FlattenSeq(Fixed(k, c)) = [p \in 1..n |-> p]
  <1>0. PICK parts : parts = Fixed(k, c)
    OBVIOUS
  <1>1. PICK v : v = [p \in 1..n |-> p]
    OBVIOUS
  <1>2. parts = Chunks(v, k, c)
    <2>1. k \in Nat
      BY DEF IsGrid
    <2>2. ASSUME NEW m \in 1..k, NEW i \in 1..c PROVE v[Cell(c, m - 1, i)] = (m - 1) * c + i
      <3>1. m - 1 \in 0..k - 1
        BY <2>1
      <3>2. Cell(c, m - 1, i) \in 1..n
        BY <3>1, CellIn
      <3> QED BY <1>1, <3>2 DEF Cell
    <2> QED BY <1>0, <2>2 DEF Chunks, Fixed
  <1>3. FlattenSeq(Chunks(v, k, c)) = [i \in 1..n |-> v[i]]
    BY ChunksJoin
  <1>4. [i \in 1..n |-> v[i]] = v
    BY <1>1
  <1> QED BY ONLY <1>0, <1>1, <1>2, <1>3, <1>4

\* What a call for log probabilities or values gives for the rows of a rank
Outputs(r) == [j \in 1..Share |-> Given(r)[j].response]

\* The outputs of a rank so far: those of the micro-batches run, in the order of the cut
OutAt(r) ==
    phase \in Inference =>
      /\ pc[r] \in {"start", "agree"} => out[r] = <<>>
      /\ pc[r] \in {"forward", "end"} =>
            \E off : /\ IsOffset(off, micro[r], Len(micro[r]))
                     /\ Emitted(out[r], micro[r], Outputs(r), off[run[r] + 1])
      /\ pc[r] = "returned" => out[r] = Outputs(r)
OutInv == \A r \in Ranks : OutAt(r)

\* A rank that starts on its micro-batches has no outputs yet.
LEMMA NoneEmitted ==
    ASSUME NEW parts, NEW v, NEW m, NEW n, m \in Nat, IsPartition(parts, m, n)
    PROVE  \E off : IsOffset(off, parts, Len(parts)) /\ Emitted(<<>>, parts, v, off[0 + 1])
  <1>1. parts \in [1..m -> Seq(1..n)] /\ Len(parts) = m
    <2>1. parts \in [1..m -> Seq(1..n)]
      BY DEF IsPartition
    <2> QED BY ONLY <2>1, m \in Nat
  <1>2. PICK off : IsOffset(off, parts, m)
    BY <1>1, OffsetsExist
  <1>3. off[0 + 1] = 0
    BY <1>2 DEF IsOffset
  <1>4. Emitted(<<>>, parts, v, 0)
    BY DEF Emitted
  <1> QED BY <1>1, <1>2, <1>3, <1>4

\* Forward adds those of the next micro-batch.
LEMMA OutForward ==
    ASSUME BatchAssumption, BatchInv, InCall, RankFunctions, phase \in Inference, NEW r \in Ranks,
           OutAt(r), Forward(r)
    PROVE  \E off : /\ IsOffset(off, micro[r], Len(micro[r]))
                    /\ Emitted(out'[r], micro[r], Outputs(r), off[run'[r] + 1])
  <1>1. PICK f, B : IsPlan(f, B) /\ RankAt(r, f, B)
    BY DEF InCall
  <1>2. /\ HasData(r) /\ mini[r] < CallMinis /\ mini[r] \in 0..CallMinis /\ IsCut(micro[r], f[mini[r]])
        /\ run[r] \in Nat /\ run[r] < f[mini[r]]
    BY <1>1 DEF Forward, RankAt, At
  <1>3. PICK n, k, d, parts, v, o, t : /\ n = CallRows /\ k = f[mini[r]] /\ d = run[r] /\ parts = micro[r]
                                       /\ v = Outputs(r) /\ o = out[r] /\ t = out'[r]
    OBVIOUS
  <1>4. n \in Nat /\ k \in Nat /\ d \in 0..k - 1 /\ n = Share
    <2>1. n \in Nat /\ n = Share
      BY <1>3, CallSizes DEF CallRows
    <2>2. k \in Nat
      <3>1. \A m \in 0..CallMinis - 1 : f[m] \in Nat \ {0}
        BY <1>1, PlanType
      <3>2. mini[r] \in 0..CallMinis - 1
        <4>1. PICK x, y : x = mini[r] /\ y = CallMinis
          OBVIOUS
        <4>2. x \in 0..y /\ x < y /\ y \in Nat
          BY <1>2, <4>1, CallSizes
        <4>3. x \in 0..y - 1
          BY ONLY <4>2
        <4> QED BY <4>1, <4>3
      <3> QED BY <1>3, <3>1, <3>2
    <2> QED BY <1>2, <1>3, <2>1, <2>2, SMTT(30)
  <1>5. parts \in [1..k -> Seq(1..n)] /\ Len(parts) = k
    <2>1. parts \in [1..k -> Seq(1..n)]
      BY <1>2, <1>3 DEF IsCut, IsPartition
    <2> QED BY ONLY <1>4, <2>1
  <1>6. PICK off : IsOffset(off, parts, k) /\ Emitted(o, parts, v, off[d + 1])
    BY <1>3, <1>5 DEF OutAt, Forward
  <1>7. run'[r] = d + 1
    BY <1>3 DEF Forward, RankFunctions, OverRanks
  <1>8. PICK part : part = parts[d + 1]
    BY SMTT(30)
  <1>9. t = o \o [i \in 1..Len(part) |-> MiniBatch(r)[part[i]].response]
    BY <1>3, <1>7, <1>8 DEF Forward, RankFunctions, OverRanks
  <1>10. MiniBatch(r) = Given(r)
    <2>1. MiniBatch(r) = Piece(r, mini[r])
      BY <1>2, BatchInv, MiniIsPiece DEF MiniBatch, BatchInv, Inference
    <2> QED BY <2>1 DEF Piece
  <1>11. part \in Seq(1..n)
    <2>1. d + 1 \in 1..k
      BY <1>4
    <2> QED BY <1>5, <1>8, <2>1
  <1>12. \A i \in 1..Len(part) : Given(r)[part[i]].response = v[part[i]]
    <2>1. \A i \in 1..Len(part) : part[i] \in 1..Share
      BY <1>4, <1>11, ElementOfSeq
    <2> QED BY <1>3, <2>1 DEF Outputs
  <1>13. t = o \o [i \in 1..Len(part) |-> v[part[i]]]
    BY <1>9, <1>10, <1>12
  <1>14. Emitted(t, parts, v, off[(d + 1) + 1])
    BY <1>4, <1>5, <1>6, <1>8, <1>13, EmitPart
  <1> QED BY <1>3, <1>5, <1>6, <1>7, <1>14

\* All outputs are there: put back, they are in the order of the rows.
LEMMA OutReturn ==
    ASSUME BatchAssumption, BatchInv, InCall, RankFunctions, phase \in Inference, NEW r \in Ranks,
           OutAt(r), ReturnOutputs(r)
    PROVE  out'[r] = Outputs(r)
  <1>1. PICK f, B : IsPlan(f, B) /\ RankAt(r, f, B)
    BY DEF InCall
  <1>2. /\ mini[r] < CallMinis /\ mini[r] \in 0..CallMinis /\ IsCut(micro[r], f[mini[r]])
        /\ run[r] = f[mini[r]]
    BY <1>1 DEF ReturnOutputs, RankAt, At
  <1>3. PICK n, k, parts, v, o, t : /\ n = CallRows /\ k = f[mini[r]] /\ parts = micro[r]
                                    /\ v = Outputs(r) /\ o = out[r] /\ t = out'[r]
    OBVIOUS
  <1>4. n \in Nat \ {0} /\ k \in Nat \ {0} /\ n = Share
    <2>1. n \in Nat \ {0} /\ n = Share
      BY <1>3, CallSizes DEF CallRows
    <2>2. k \in Nat \ {0}
      <3>1. \A m \in 0..CallMinis - 1 : f[m] \in Nat \ {0}
        BY <1>1, PlanType
      <3>2. mini[r] \in 0..CallMinis - 1
        <4>1. PICK x, y : x = mini[r] /\ y = CallMinis
          OBVIOUS
        <4>2. x \in 0..y /\ x < y /\ y \in Nat
          BY <1>2, <4>1, CallSizes
        <4>3. x \in 0..y - 1
          BY ONLY <4>2
        <4> QED BY <4>1, <4>3
      <3> QED BY <1>3, <3>1, <3>2
    <2> QED BY <2>1, <2>2
  <1>5. parts \in [1..k -> Seq(1..n)] /\ Len(parts) = k /\ IsPartition(parts, k, n)
    <2>1. parts \in [1..k -> Seq(1..n)] /\ IsPartition(parts, k, n)
      BY <1>2, <1>3 DEF IsCut, IsPartition
    <2>2. k \in Nat
      BY <1>4
    <2> QED BY ONLY <2>1, <2>2
  <1>6. PICK off : IsOffset(off, parts, k) /\ Emitted(o, parts, v, off[k + 1])
    BY <1>2, <1>3, <1>5 DEF OutAt, ReturnOutputs
  <1>7. PICK flat : flat = FlattenSeq(parts)
    OBVIOUS
  <1>8. n \in Nat /\ k \in Nat
    BY <1>4
  <1>9. IsOrder(flat, n) /\ IsFlat(flat, parts, k, off)
    <2>1. IsOrder(FlattenSeq(parts), n)
      BY ONLY <1>5, <1>8, FlattenPermutes
    <2>2. IsFlat(FlattenSeq(parts), parts, k, off)
      BY ONLY <1>5, <1>6, <1>8, FlattenAt
    <2> QED BY <1>7, <2>1, <2>2
  <1>10. off[k + 1] = n
    BY <1>9 DEF IsOrder, IsFlat
  <1>11. o = [p \in 1..n |-> v[flat[p]]]
    BY <1>6, <1>7, <1>10 DEF Emitted
  <1>12. v = [j \in 1..n |-> v[j]]
    BY <1>3, <1>4 DEF Outputs
  <1>13. CASE input.dynamic
    <2>1. t = Restored(o, parts)
      BY <1>3, <1>13 DEF ReturnOutputs, RankFunctions, OverRanks
    <2>2. Emitted(o, parts, v, n)
      BY <1>6, <1>10
    <2>3. Restored(o, parts) = [j \in 1..n |-> v[j]]
      BY ONLY <1>5, <1>8, <2>2, RestoredInOrder
    <2> QED BY <1>3, <1>12, <2>1, <2>3
  <1>14. CASE ~input.dynamic
    <2>1. t = o
      BY <1>3, <1>14 DEF ReturnOutputs, RankFunctions, OverRanks
    <2>2. parts = FixedMicroBatches(n)
      BY <1>2, <1>3, <1>14 DEF IsCut
    <2>3. PICK c, q : c = MicroRows /\ q = n \div c
      OBVIOUS
    <2>4. IsGrid(n, q, c)
      BY <1>4, <2>3, MiniSizes
    <2>5. parts = Fixed(q, c)
      BY <2>2, <2>3 DEF FixedMicroBatches, Fixed
    <2>6. FlattenSeq(parts) = [p \in 1..n |-> p]
      BY ONLY <2>4, <2>5, FixedInOrder
    <2>7. o = v
      BY <1>7, <1>11, <1>12, <2>6
    <2> QED BY <1>3, <2>1, <2>7
  <1> QED BY <1>13, <1>14

\* Outputs of a rank that does nothing stay.
LEMMA OutUnmoved ==
    ASSUME UNCHANGED <<input, phase, batch>>, NEW r, OutAt(r),
           pc'[r] = pc[r], micro'[r] = micro[r], run'[r] = run[r], out'[r] = out[r]
    PROVE  OutAt(r)'
  <1>1. Outputs(r)' = Outputs(r)
    BY CallUnmoved DEF Outputs
  <1> QED BY <1>1 DEF OutAt

\* Every action of a rank keeps the outputs right.
LEMMA OutMoves ==
    ASSUME BatchAssumption, BatchInv, InCall, InCall', RankFunctions, OutInv, NEW r \in Ranks, Rank(r)
    PROVE  OutInv'
  <1>1. OnlyRank(r)
    BY RankActs
  <1>2. input' = input /\ phase' = phase /\ batch' = batch
    BY <1>1 DEF OnlyRank, driverVars
  <1>3. ASSUME NEW q \in Ranks \ {r} PROVE OutAt(q)'
    BY <1>1, <1>2, <1>3, OutUnmoved DEF OnlyRank, OutInv
  <1>4. OutAt(r)'
    <2> SUFFICES ASSUME phase \in Inference PROVE OutAt(r)'
      BY <1>2 DEF OutAt
    <2>0. Outputs(r)' = Outputs(r) /\ OutAt(r)
      BY <1>2, CallUnmoved DEF Outputs, OutInv
    <2>9. ASSUME pc'[r] = "forward", out'[r] = <<>>, run'[r] = 0 PROVE OutAt(r)'
      <3>1. PICK f, B : IsPlan(f, B)' /\ RankAt(r, f, B)'
        BY DEF InCall
      <3>2. IsCut(micro[r], f[mini[r]])' /\ (mini[r] \in 0..CallMinis /\ mini[r] < CallMinis)'
        BY <2>9, <3>1 DEF RankAt, At
      <3>3. PICK k, n : k = f[mini'[r]] /\ n = CallRows'
        OBVIOUS
      <3>4. IsPartition(micro'[r], k, n)
        BY <3>2, <3>3 DEF IsCut
      <3>5. k \in Nat
        <4>1. IsPlan(f, B) /\ CallMinis' = CallMinis
          BY <1>2, <3>1, CallUnmoved
        <4>2. PICK x, y : x = mini'[r] /\ y = CallMinis
          OBVIOUS
        <4>3. x \in 0..y /\ x < y /\ y \in Nat
          BY <3>2, <4>1, <4>2, CallSizes
        <4>4. x \in 0..y - 1
          BY ONLY <4>3
        <4>5. \A i \in 0..CallMinis - 1 : f[i] \in Nat \ {0}
          BY <4>1, PlanType
        <4> QED BY <3>3, <4>2, <4>4, <4>5
      <3>6. PICK parts, v : parts = micro'[r] /\ v = Outputs(r)'
        OBVIOUS
      <3>7. IsPartition(parts, k, n)
        BY <3>4, <3>6
      <3>8. \E off : IsOffset(off, parts, Len(parts)) /\ Emitted(<<>>, parts, v, off[0 + 1])
        BY ONLY <3>5, <3>7, NoneEmitted
      <3> QED BY <2>9, <3>6, <3>8 DEF OutAt
    <2>1. CASE Begin(r)
      <3>1. out'[r] = <<>> /\ pc'[r] \in {"agree", "forward"} /\ (pc'[r] = "forward" => run'[r] = 0)
        BY <2>0, <2>1 DEF Begin, OutAt, RankFunctions, OverRanks
      <3>2. CASE pc'[r] = "agree"
        BY <3>1, <3>2 DEF OutAt
      <3> QED BY <2>9, <3>1, <3>2
    <2>2. CASE Agree(r)
      <3>1. out'[r] = <<>> /\ pc'[r] = "forward" /\ run'[r] = 0
        BY <2>0, <2>2 DEF Agree, OutAt, RankFunctions, OverRanks
      <3> QED BY <2>9, <3>1
    <2>3. CASE Forward(r)
      <3>1. \E off : /\ IsOffset(off, micro[r], Len(micro[r]))
                     /\ Emitted(out'[r], micro[r], Outputs(r), off[run'[r] + 1])
        BY <2>0, <2>3, OutForward
      <3>2. pc'[r] \in {"forward", "end"} /\ micro'[r] = micro[r]
        BY <2>3 DEF Forward, RankFunctions, OverRanks
      <3> QED BY <2>0, <3>1, <3>2 DEF OutAt
    <2>4. CASE ReturnOutputs(r)
      <3>1. out'[r] = Outputs(r)'
        BY <2>0, <2>4, OutReturn
      <3>2. pc'[r] = "returned"
        BY <2>4 DEF ReturnOutputs, RankFunctions, OverRanks
      <3> QED BY <3>1, <3>2 DEF OutAt
    <2>5. ~Step(r)
      BY DEF Step, Inference, Updates
    <2> QED BY <2>1, <2>2, <2>3, <2>4, <2>5 DEF Rank
  <1> QED BY <1>3, <1>4 DEF OutInv

\* In the beginning there is no call.
LEMMA OutInit ==
    ASSUME Init PROVE OutInv
  BY DEF Init, OutInv, OutAt, Inference

\* Every step keeps the outputs right.
LEMMA OutStep ==
    ASSUME BatchAssumption, BatchInv, RanksInv, RanksInv', OutInv, [Next]_vars PROVE OutInv'
  <1>1. CASE Generate \/ Balance \/ Score \/ ComputeAdvantage
    <2>1. UNCHANGED rankVars /\ phase \notin Inference \cup Updates
      BY <1>1 DEF Generate, Balance, Score, ComputeAdvantage, Inference, Updates
    <2>2. \A r \in Ranks : pc'[r] = "idle"
      BY <2>1 DEF rankVars, RanksInv, InCall, Idle
    <2> QED BY <2>2, SMTT(30) DEF OutInv, OutAt
  <1>2. CASE Dispatch
    <2>1. \A r \in Ranks : pc'[r] = "start" /\ out'[r] = <<>>
      BY <1>2 DEF Dispatch
    <2> QED BY <2>1 DEF OutInv, OutAt
  <1>3. CASE Collect
    <2>1. \A r \in Ranks : pc'[r] = "idle"
      BY <1>3 DEF Collect
    <2> QED BY <2>1 DEF OutInv, OutAt
  <1>4. CASE \E r \in Ranks : Rank(r)
    <2>1. PICK r \in Ranks : Rank(r)
      BY <1>4
    <2>2. pc[r] # "idle" /\ pc'[r] # "idle"
      <3>1. pc[r] # "idle"
        BY <2>1, ZenonT(40) DEF Rank, Begin, Agree, Forward, ReturnOutputs, Step
      <3>2. pc'[r] # "idle"
        BY <2>1, <3>1 DEF Rank, Begin, Agree, Forward, ReturnOutputs, Step, RanksInv, RankFunctions, OverRanks
      <3> QED BY <3>1, <3>2
    <2>3. InCall /\ RankFunctions /\ InCall'
      BY <2>2 DEF RanksInv, Idle
    <2> QED BY <2>1, <2>3, OutMoves
  <1>5. CASE UNCHANGED vars
    <2>1. UNCHANGED <<input, phase, batch>> /\ UNCHANGED rankVars
      BY <1>5 DEF vars, driverVars
    <2>2. UNCHANGED <<pc, micro, run, out>>
      BY <2>1 DEF rankVars
    <2> QED BY <2>1, <2>2, OutUnmoved DEF OutInv
  <1> QED BY <1>1, <1>2, <1>3, <1>4, <1>5 DEF Next, Driver

----------------------------------------------------------------------------
(* Columns of the batch.                                                    *)

\* The rank of a place in the mesh
LEMMA RankOf ==
    ASSUME BatchAssumption, NEW d \in 1..DpSize, NEW i \in 1..SpSize, NEW r, r = Cell(SpSize, d - 1, i)
    PROVE  r \in Ranks /\ DpRank(r) = d /\ (Collects(r) <=> i = 1)
  <1>1. PICK e \in Nat, s \in Nat, n \in Nat : e = DpSize /\ s = SpSize /\ n = e * s /\ s > 0 /\ e > 0
    <2>1. PICK e \in Nat \ {0}, s \in Nat \ {0} : e = DpSize /\ s = SpSize
      BY Sizes
    <2>2. e * s \in Nat /\ s > 0 /\ e > 0 /\ e \in Nat /\ s \in Nat
      OBVIOUS
    <2> QED BY <2>1, <2>2
  <1>2. IsGrid(n, e, s) /\ Ranks = 1..n
    <2>1. s \in Nat \ {0}
      BY <1>1
    <2> QED BY <1>1, <2>1 DEF IsGrid, Ranks
  <1>3. PICK g \in Nat : g = d - 1 /\ g \in 0..e - 1
    <2>1. d - 1 \in Nat /\ d - 1 \in 0..e - 1
      BY <1>1
    <2> QED BY <2>1
  <1>4. r = Cell(s, g, i) /\ i \in 1..s
    BY <1>1, <1>3
  <1>5. r \in 1..n
    <2>1. \A h \in 0..e - 1 : \A j \in 1..s : Cell(s, h, j) \in 1..n
      BY ONLY <1>2, Cells
    <2> QED BY ONLY <1>3, <1>4, <2>1
  <1>6. (r - 1) \div s = g
    <2>1. s \in Nat \ {0}
      BY <1>1
    <2> QED BY ONLY <1>4, <2>1, g \in Nat, CellIndex
  <1>7. DpRank(r) = d
    BY <1>1, <1>3, <1>6 DEF DpRank
  <1>9. PICK j \in Nat : j = i
    BY <1>4
  <1>8. (r - 1) % s = j - 1
    <2>1. PICK x \in Int, p \in Int, y \in Int : x = r - 1 /\ p = s * g /\ y = x % s
      <3>1. r - 1 \in Int /\ s * g \in Int
        BY ONLY <1>5, s \in Nat, g \in Nat, n \in Nat
      <3>2. s \in Int /\ s > 0
        BY <1>1
      <3>3. (r - 1) % s \in Int
        BY ONLY <3>1, <3>2
      <3> QED BY <3>1, <3>3
    <2>2. x = s * (x \div s) + (x % s)
      <3>1. s \in Int /\ s > 0
        BY <1>1
      <3> QED BY ONLY <3>1, x \in Int
    <2>3. x = p + y
      BY <1>6, <2>1, <2>2
    <2>4. x = p + (j - 1)
      <3>1. g * s = s * g
        BY ONLY g \in Nat, s \in Nat
      <3>2. r = p + j
        BY <1>4, <1>9, <2>1, <3>1 DEF Cell
      <3> QED BY ONLY <2>1, <3>2, x \in Int, p \in Int, j \in Nat
    <2>5. y = j - 1
      BY ONLY <2>3, <2>4, x \in Int, p \in Int, y \in Int, j \in Nat
    <2> QED BY ONLY <2>1, <2>5
  <1>10. (r - 1) % SpSize = 0 <=> i = 1
    <2>1. PICK y : y = (r - 1) % s
      OBVIOUS
    <2>2. y = 0 <=> j = 1
      BY ONLY <1>8, <2>1, j \in Nat
    <2> QED BY <1>1, <1>9, <2>1, <2>2
  <1> QED BY <1>2, <1>5, <1>7, <1>10 DEF Collects

\* The place of a rank, as one predicate
RankSpot(r, d, i) == r \in Ranks /\ DpRank(r) = d /\ (Collects(r) <=> i = 1)

\* RankOf for every place
LEMMA RankSpots ==
    \A d \in 1..DpSize : \A i \in 1..SpSize : RankSpot(Cell(SpSize, d - 1, i), d, i)
  <1>1. ASSUME NEW d \in 1..DpSize, NEW i \in 1..SpSize
        PROVE  RankSpot(Cell(SpSize, d - 1, i), d, i)
    <2>1. PICK r : r = Cell(SpSize, d - 1, i)
      OBVIOUS
    <2>2. r \in Ranks /\ DpRank(r) = d /\ (Collects(r) <=> i = 1)
      BY BatchAssumption, <2>1, RankOf, SMTT(60)
    <2> QED BY ONLY <2>1, <2>2 DEF RankSpot
  <1> QED BY ONLY <1>1

\* Where a rank's outputs begin in the column
Begins(i) == IF i = 1 THEN 0 ELSE DpRank(i - 1) * Share

\* They begin after those of the data parallel ranks before.
LEMMA BeginsNext ==
    ASSUME BatchAssumption, NEW d \in 1..DpSize, NEW k \in 1..SpSize, NEW r, r = Cell(SpSize, d - 1, k)
    PROVE  /\ Begins(r) = (IF k = 1 THEN d - 1 ELSE d) * Share
           /\ Begins(r + 1) = d * Share
  <1>1. PICK e \in Nat, s \in Nat, l \in Nat : e = DpSize /\ s = SpSize /\ l = Share /\ s > 0 /\ e > 0
    <2>1. PICK e \in Nat \ {0}, s \in Nat \ {0}, l \in Nat \ {0} : e = DpSize /\ s = SpSize /\ l = Share
      BY Sizes
    <2>2. s > 0 /\ e > 0 /\ e \in Nat /\ s \in Nat /\ l \in Nat
      OBVIOUS
    <2> QED BY <2>1, <2>2
  <1>2. PICK c \in Nat, j \in Nat, p \in Nat : c = d /\ j = k /\ p = (c - 1) * s /\ c >= 1 /\ j >= 1
    <2>1. PICK c \in Nat, j \in Nat : c = d /\ j = k /\ c >= 1 /\ j >= 1
      BY <1>1
    <2>2. PICK a \in Nat : a = c - 1
      BY <2>1
    <2>3. a * s \in Nat
      OBVIOUS
    <2> QED BY <2>1, <2>2, <2>3
  <1>3. r = p + j
    BY <1>1, <1>2 DEF Cell
  <1>4. DpRank(r) = d
    <2>1. RankSpot(Cell(SpSize, d - 1, k), d, k)
      BY RankSpots
    <2> QED BY ONLY <2>1, r = Cell(SpSize, d - 1, k) DEF RankSpot
  <1>5. Begins(r + 1) = d * Share
    <2>1. r + 1 # 1 /\ (r + 1) - 1 = r
      BY ONLY <1>2, <1>3, p \in Nat, j \in Nat
    <2> QED BY <1>4, <2>1 DEF Begins
  <1>6. CASE k # 1
    <2>0. j # 1 /\ j \in 1..s
      BY <1>1, <1>2, <1>6
    <2>1. r # 1 /\ j - 1 \in 1..s
      BY ONLY <1>2, <1>3, <2>0, p \in Nat, j \in Nat, s \in Nat
    <2>2. r - 1 = Cell(SpSize, d - 1, j - 1)
      BY <1>1, <1>2, <1>3, SMTT(30) DEF Cell
    <2>9. PICK q : q = r - 1
      OBVIOUS
    <2>3. PICK i \in 1..SpSize : q = r - 1 /\ i = j - 1
      <3>1. j - 1 \in 1..SpSize
        BY ONLY <1>1, <2>1
      <3> QED BY ONLY <2>9, <3>1
    <2>4. q = Cell(SpSize, d - 1, i)
      BY <2>2, <2>3
    <2>5. DpRank(q) = d
      <3>1. RankSpot(Cell(SpSize, d - 1, i), d, i)
        BY RankSpots
      <3> QED BY ONLY <2>4, <3>1 DEF RankSpot
    <2> QED BY <1>5, <1>6, <2>1, <2>3, <2>5 DEF Begins
  <1>7. CASE k = 1 /\ d # 1
    <2>1. PICK b \in Nat, u \in Nat : b = c - 2 /\ u = b * s
      <3>1. PICK b \in Nat : b = c - 2
        BY <1>2, <1>7
      <3>2. b * s \in Nat
        OBVIOUS
      <3> QED BY <3>1, <3>2
    <2>2. p = u + s
      <3>1. c - 1 = b + 1
        BY <1>2, <2>1
      <3>2. (b + 1) * s = b * s + s
        OBVIOUS
      <3> QED BY <1>2, <2>1, <3>1, <3>2
    <2>9. PICK q : q = r - 1
      OBVIOUS
    <2>3. PICK f \in 1..DpSize, i \in 1..SpSize : q = r - 1 /\ f = d - 1 /\ i = s
      <3>1. d - 1 \in 1..DpSize /\ s \in 1..SpSize
        BY <1>1, <1>7
      <3> QED BY ONLY <2>9, <3>1
    <2>4. q = Cell(SpSize, f - 1, i)
      <3>1. q = u + s
        BY <1>2, <1>3, <1>7, <2>1, <2>2, <2>3
      <3>2. f - 1 = b
        BY <1>2, <2>1, <2>3
      <3> QED BY <1>1, <2>1, <2>3, <3>1, <3>2 DEF Cell
    <2>5. DpRank(q) = f
      <3>1. f \in 1..DpSize /\ i \in 1..SpSize /\ q = Cell(SpSize, f - 1, i)
        BY ONLY <2>4, f \in 1..DpSize, i \in 1..SpSize
      <3>2. RankSpot(Cell(SpSize, f - 1, i), f, i)
        BY ONLY <3>1, RankSpots
      <3> QED BY ONLY <3>1, <3>2 DEF RankSpot
    <2>6. r # 1
      <3>1. r = u + s + 1
        BY <1>1, <1>2, <1>3, <1>7, <2>1, <2>2
      <3>2. s > 0
        BY <1>1
      <3> QED BY ONLY <3>1, <3>2, u \in Nat, s \in Nat
    <2> QED BY <1>5, <1>7, <2>3, <2>5, <2>6 DEF Begins
  <1>8. CASE k = 1 /\ d = 1
    <2>1. p = 0
      <3>1. c - 1 = 0
        BY <1>2, <1>8
      <3>2. 0 * s = 0
        OBVIOUS
      <3> QED BY <1>2, <3>1, <3>2
    <2>2. r = 1
      BY <1>2, <1>3, <1>8, <2>1
    <2>3. (d - 1) * Share = 0
      <3>1. d - 1 = 0 /\ 0 * l = 0
        BY <1>8
      <3> QED BY <1>1, <3>1
    <2> QED BY <1>5, <1>8, <2>2, <2>3 DEF Begins
  <1> QED BY <1>6, <1>7, <1>8

\* What the ranks that collect return, put together, is a column of the batch.
Collected(o) == [r \in Ranks |-> IF Collects(r) THEN o[r] ELSE <<>>]

\* The ranks that collect have returned.
ReturnsOutputs(o) == \A r \in Ranks : Collects(r) => o[r] = Outputs(r)

\* A row of the column stands beside the response it was computed for.
LEMMA ColumnInPlace ==
    ASSUME BatchAssumption, Balanced, NEW o, ReturnsOutputs(o)
    PROVE  \A i \in 1..Total : FlattenSeq(Collected(o))[i] = batch[i].response
  <1>0. PICK column : column = FlattenSeq(Collected(o))
    OBVIOUS
  <1>1. PICK n : n = DpSize * SpSize
    OBVIOUS
  <1>2. n \in Nat /\ Share \in Nat \ {0} /\ IsGrid(n, DpSize, SpSize) /\ IsGrid(Total, DpSize, Share)
        /\ Ranks = 1..n
    <2>1. PICK e \in Nat \ {0}, s \in Nat \ {0} : e = DpSize /\ s = SpSize
      BY Sizes
    <2>2. e * s \in Nat
      OBVIOUS
    <2> QED BY <1>1, <2>1, <2>2, Sizes DEF IsGrid, Ranks
  <1>3. PICK parts : parts = [r \in 1..n |-> IF Collects(r) THEN o[r] ELSE <<>>]
    OBVIOUS
  <1>4. PICK A : A = {batch[i].response : i \in 1..Total}
    OBVIOUS
  <1>5. ASSUME NEW r \in 1..n
        PROVE  \E d \in 1..DpSize : \E k \in 1..SpSize : r = Cell(SpSize, d - 1, k)
    <2>1. DpRank(r) \in 1..DpSize /\ \E i \in 1..SpSize : r = Cell(SpSize, DpRank(r) - 1, i)
      BY <1>2, DpRankOf
    <2> QED BY <2>1
  <1>6. ASSUME NEW d \in 1..DpSize, NEW r, r = Cell(SpSize, d - 1, 1)
        PROVE  /\ r \in 1..n /\ Len(parts[r]) = Share /\ parts[r] \in Seq(A)
               /\ \A j \in 1..Share : /\ Cell(Share, d - 1, j) \in 1..Total
                                      /\ parts[r][j] = batch[Cell(Share, d - 1, j)].response
    <2>1. 1 \in 1..SpSize
      BY Sizes
    <2>2. r \in 1..n /\ DpRank(r) = d /\ Collects(r)
      <3>1. PICK k \in 1..SpSize : k = 1
        BY <2>1
      <3>2. r = Cell(SpSize, d - 1, k)
        BY <1>6, <3>1
      <3>3. r \in Ranks /\ DpRank(r) = d /\ (Collects(r) <=> k = 1)
        <4>1. RankSpot(Cell(SpSize, d - 1, k), d, k)
          BY ONLY d \in 1..DpSize, k \in 1..SpSize, RankSpots
        <4> QED BY ONLY <3>2, <4>1 DEF RankSpot
      <3> QED BY <1>2, <3>1, <3>3
    <2>3. parts[r] = [j \in 1..Share |-> Given(r)[j].response]
      BY <1>2, <1>3, <2>2 DEF Outputs, ReturnsOutputs
    <2>4. IsRun(Given(r), (d - 1) * Share, Share)
      BY <1>2, <2>2, GivenRun
    <2>5. \A j \in 1..Share : /\ Cell(Share, d - 1, j) \in 1..Total
                              /\ parts[r][j] = batch[Cell(Share, d - 1, j)].response
      BY <2>3, <2>4 DEF IsRun, Cell
    <2>6. parts[r] \in [1..Share -> A]
      BY <1>4, <2>3, <2>5, ZenonT(40)
    <2>7. parts[r] \in Seq(A) /\ Len(parts[r]) = Share
      BY ONLY <1>2, <2>6
    <2> QED BY <2>2, <2>5, <2>7
  <1>7. ASSUME NEW d \in 1..DpSize, NEW k \in 1..SpSize, k # 1, NEW r, r = Cell(SpSize, d - 1, k)
        PROVE  parts[r] = <<>> /\ r \in 1..n
    <2>1. r \in Ranks /\ ~Collects(r)
      <3>1. RankSpot(Cell(SpSize, d - 1, k), d, k)
        BY RankSpots
      <3> QED BY ONLY <1>7, <3>1 DEF RankSpot
    <2> QED BY <1>2, <1>3, <2>1
  <1>8. ASSUME NEW r \in 1..n
        PROVE  /\ parts[r] \in Seq(A)
               /\ Begins(r) \in Nat /\ Begins(r + 1) \in Nat /\ Begins(r + 1) = Begins(r) + Len(parts[r])
    <2>1. PICK d \in 1..DpSize, k \in 1..SpSize : r = Cell(SpSize, d - 1, k)
      BY <1>5
    <2>2. /\ Begins(r) = (IF k = 1 THEN d - 1 ELSE d) * Share
          /\ Begins(r + 1) = d * Share
      BY <2>1, BeginsNext
    <2>3. PICK c \in Nat, a \in Nat, l \in Nat : c = d /\ a = d - 1 /\ l = Share /\ c = a + 1
      <3>1. d \in Nat /\ d - 1 \in Nat /\ d = (d - 1) + 1
        BY <1>2, Sizes
      <3> QED BY <1>2, <3>1
    <2>4. PICK x \in Nat, y \in Nat : x = c * l /\ y = a * l
      <3>1. c * l \in Nat /\ a * l \in Nat
        OBVIOUS
      <3> QED BY <3>1
    <2>5. x = y + l
      <3>1. (a + 1) * l = a * l + l
        OBVIOUS
      <3> QED BY <2>3, <2>4, <3>1
    <2>6. CASE k = 1
      <3>1. parts[r] \in Seq(A) /\ Len(parts[r]) = l
        BY <1>6, <2>1, <2>3, <2>6
      <3>2. Begins(r) = y /\ Begins(r + 1) = x
        BY <2>2, <2>3, <2>4, <2>6
      <3> QED BY <2>5, <3>1, <3>2
    <2>7. CASE k # 1
      <3>1. parts[r] = <<>>
        BY <1>7, <2>1, <2>7
      <3>2. Begins(r) = x /\ Begins(r + 1) = x
        BY <2>2, <2>3, <2>4, <2>7
      <3>3. parts[r] \in Seq(A) /\ Len(parts[r]) = 0
        BY ONLY <3>1
      <3> QED BY <3>2, <3>3, SMTT(30)
    <2> QED BY <2>6, <2>7
  <1>9. parts \in [1..n -> Seq(A)]
    BY <1>3, <1>8
  <1>10. PICK off : off = [i \in 1..n + 1 |-> Begins(i)]
    OBVIOUS
  <1>11. IsOffset(off, parts, n)
    <2>1. \A i \in 1..n : i \in 1..n + 1 /\ i + 1 \in 1..n + 1
      BY <1>2, SMTT(30)
    <2>2. ASSUME NEW i \in 1..n + 1 PROVE off[i] \in Nat
      <3>1. CASE i = 1
        BY <1>10, <3>1 DEF Begins
      <3>2. CASE i # 1
        <4>1. PICK j \in 1..n : i = j + 1
          <5>1. i - 1 \in 1..n /\ i = (i - 1) + 1
            BY <1>2, <3>2
          <5> QED BY <5>1
        <4> QED BY <1>8, <1>10, <4>1
      <3> QED BY <3>1, <3>2
    <2>3. off[1] = 0
      <3>1. 1 \in 1..n + 1
        BY <1>2
      <3> QED BY <1>10, <3>1 DEF Begins
    <2>4. \A i \in 1..n : off[i + 1] = off[i] + Len(parts[i])
      BY <1>8, <1>10, <2>1
    <2>5. off \in [1..n + 1 -> Nat]
      BY <1>10, <2>2
    <2> QED BY <2>3, <2>4, <2>5 DEF IsOffset
  <1>12. IsFlat(FlattenSeq(parts), parts, n, off)
    BY <1>2, <1>9, <1>11, FlattenAt
  <1>13. column = FlattenSeq(parts)
    BY <1>0, <1>2, <1>3 DEF Collected
  <1>14. ASSUME NEW i \in 1..Total PROVE column[i] = batch[i].response
    <2>1. PICK g \in 0..DpSize - 1 : \E j \in 1..Share : i = Cell(Share, g, j)
      <3>1. IsGrid(Total, DpSize, Share)
        BY <1>2
      <3>2. \A q \in 1..Total : \E g \in 0..DpSize - 1 : \E j \in 1..Share : q = Cell(Share, g, j)
        BY ONLY <3>1, Cells
      <3> QED BY ONLY <3>2, i \in 1..Total
    <2>2. PICK j \in 1..Share : i = Cell(Share, g, j)
      BY <2>1
    <2>3. PICK d \in 1..DpSize : d - 1 = g
      <3>1. g + 1 \in 1..DpSize /\ (g + 1) - 1 = g
        BY Sizes
      <3> QED BY <3>1
    <2>4. PICK r : r = Cell(SpSize, d - 1, 1)
      OBVIOUS
    <2>5. /\ r \in 1..n /\ Len(parts[r]) = Share
          /\ parts[r][j] = batch[Cell(Share, d - 1, j)].response
      BY <1>6, <2>4
    <2>6. FlattenSeq(parts)[off[r] + j] = parts[r][j]
      BY <1>12, <2>5 DEF IsFlat
    <2>7. off[r] = (d - 1) * Share
      <3>1. 1 \in 1..SpSize /\ r \in 1..n + 1
        <4>1. SpSize \in Nat \ {0}
          BY Sizes
        <4>2. n \in Nat /\ r \in 1..n
          BY <1>2, <2>5
        <4> QED BY ONLY <4>1, <4>2
      <3>2. PICK k \in 1..SpSize : k = 1
        BY <3>1
      <3>3. Begins(r) = (IF k = 1 THEN d - 1 ELSE d) * Share
        BY <2>4, <3>2, BeginsNext
      <3> QED BY <1>10, <3>1, <3>2, <3>3
    <2>8. off[r] + j = i
      BY <2>2, <2>3, <2>7 DEF Cell
    <2> QED BY <1>13, <2>2, <2>3, <2>5, <2>6, <2>8
  <1> QED BY <1>0, <1>14

\* The columns that are there, in a phase p
HasColumns(b, p) ==
    /\ b.old_log_prob = (IF p \in {"reward", "old_log_prob"} THEN 0 ELSE b.response)
    /\ b.ref_log_prob = (IF input.ref /\ p \notin {"reward", "old_log_prob", "ref_log_prob"}
                         THEN b.response ELSE 0)
    /\ b.values = (IF input.critic /\ p \notin {"reward", "old_log_prob", "ref_log_prob", "values"}
                   THEN b.response ELSE 0)

\* In every phase, rows have the columns of the phases before, each of its own response.
ColumnsInv ==
    /\ phase = "ref_log_prob" => input.ref
    /\ phase = "values" => input.critic
    /\ phase \notin {"generate", "balance"} => \A i \in 1..Total : HasColumns(batch[i], phase)

\* Setting a column leaves the others.
LEMMA RowColumns ==
    ASSUME NEW b, NEW x, IsRow(b, x), NEW z
    PROVE  /\ [b EXCEPT !["old_log_prob"] = z].old_log_prob = z
           /\ [b EXCEPT !["old_log_prob"] = z].ref_log_prob = b.ref_log_prob
           /\ [b EXCEPT !["old_log_prob"] = z].values = b.values
           /\ [b EXCEPT !["old_log_prob"] = z].response = b.response
           /\ [b EXCEPT !["ref_log_prob"] = z].old_log_prob = b.old_log_prob
           /\ [b EXCEPT !["ref_log_prob"] = z].ref_log_prob = z
           /\ [b EXCEPT !["ref_log_prob"] = z].values = b.values
           /\ [b EXCEPT !["ref_log_prob"] = z].response = b.response
           /\ [b EXCEPT !["values"] = z].old_log_prob = b.old_log_prob
           /\ [b EXCEPT !["values"] = z].ref_log_prob = b.ref_log_prob
           /\ [b EXCEPT !["values"] = z].values = z
           /\ [b EXCEPT !["values"] = z].response = b.response
  <1>1. PICK u, l, o, r, v, a, t :
           b = [uid |-> u, response |-> x, baseline |-> l, old_log_prob |-> o,
                ref_log_prob |-> r, values |-> v, advantage |-> a, return |-> t]
    BY DEF IsRow
  <1> QED BY ONLY <1>1

\* Advantages leave the columns.
LEMMA AdvantageColumns ==
    ASSUME NEW b, NEW x, IsRow(b, x), NEW z, NEW y
    PROVE  /\ [b EXCEPT !.advantage = z, !.return = y].old_log_prob = b.old_log_prob
           /\ [b EXCEPT !.advantage = z, !.return = y].ref_log_prob = b.ref_log_prob
           /\ [b EXCEPT !.advantage = z, !.return = y].values = b.values
           /\ [b EXCEPT !.advantage = z, !.return = y].response = b.response
  <1>1. PICK u, l, o, r, v, a, t :
           b = [uid |-> u, response |-> x, baseline |-> l, old_log_prob |-> o,
                ref_log_prob |-> r, values |-> v, advantage |-> a, return |-> t]
    BY DEF IsRow
  <1> QED BY ONLY <1>1

\* Every row is one of a response.
LEMMA RowOf ==
    ASSUME BatchAssumption, Balanced, NEW i \in 1..Total
    PROVE  \E x : IsRow(batch[i], x)
  <1>1. PICK s : AreShares(s) /\ IsBatch(s)
    BY DEF Balanced, IsFair
  <1>2. IsGrid(Total, DpSize, Share)
    BY Sizes
  <1>3. \A p \in 1..Total : \E g \in 0..DpSize - 1 : \E j \in 1..Share : p = Cell(Share, g, j)
    BY ONLY <1>2, Cells
  <1>4. PICK g \in 0..DpSize - 1 : \E j \in 1..Share : i = Cell(Share, g, j)
    BY <1>3
  <1>5. PICK j \in 1..Share : i = Cell(Share, g, j)
    BY <1>4
  <1>6. PICK d \in 1..DpSize : d - 1 = g
    <2>1. g + 1 \in 1..DpSize /\ (g + 1) - 1 = g
      BY Sizes
    <2> QED BY <2>1
  <1> QED BY <1>1, <1>5, <1>6 DEF IsBatch

\* Collecting adds one.
LEMMA ColumnsCollect ==
    ASSUME BatchAssumption, BatchInv, RanksInv, OutInv, ColumnsInv, Collect PROVE ColumnsInv'
  <1>1. /\ input' = input /\ phase \in Inference \cup Updates /\ phase' = After(phase) /\ input \in Inputs
        /\ Balanced /\ AllReturned
    BY DEF Collect, BatchInv, Inference, Updates
  <1>2. Len(batch) = Total /\ batch = [i \in 1..Total |-> batch[i]]
    BY <1>1, BatchLength
  <1>3. \A i \in 1..Total : HasColumns(batch[i], phase)
    BY <1>1 DEF ColumnsInv, Inference, Updates
  <1>4. (phase' = "ref_log_prob" => input.ref) /\ (phase' = "values" => input.critic)
    BY <1>1 DEF After, Inference, Updates
  <1>5. CASE phase \in Updates
    <2>1. batch' = batch /\ phase' \in {"update_actor", "done"}
      BY <1>1, <1>5 DEF Collect, After, Inference, Updates
    <2>2. \A i \in 1..Total : HasColumns(batch[i], phase')
      BY <1>1, <1>3, <1>5, <2>1 DEF HasColumns, Updates
    <2> QED BY <1>1, <1>4, <2>1, <2>2 DEF ColumnsInv, HasColumns
  <1>6. CASE phase \notin Updates
    <2>1. PICK column : /\ column = FlattenSeq(Collected(out))
                        /\ batch' = [i \in 1..Total |-> [batch[i] EXCEPT ![phase] = column[i]]]
      BY <1>2, <1>6 DEF Collect, Collected
    <2>2. ReturnsOutputs(out)
      BY <1>1, <1>6 DEF OutInv, OutAt, AllReturned, ReturnsOutputs
    <2>3. \A i \in 1..Total : column[i] = batch[i].response
      BY <1>1, <2>1, <2>2, ColumnInPlace
    <2>5. ASSUME NEW i \in 1..Total PROVE \E x : IsRow(batch[i], x)
      BY <1>1, RowOf
    <2>6. ASSUME NEW i \in 1..Total PROVE HasColumns(batch'[i], phase')
      <3>1. PICK b, z : b = batch[i] /\ z = column[i]
        OBVIOUS
      <3>2. PICK x : IsRow(b, x)
        BY <2>5, <3>1
      <3>3. batch'[i] = [b EXCEPT ![phase] = z] /\ z = b.response /\ HasColumns(b, phase)
        BY <1>3, <2>1, <2>3, <3>1
      <3>4. /\ [b EXCEPT !["old_log_prob"] = z].old_log_prob = z
            /\ [b EXCEPT !["old_log_prob"] = z].ref_log_prob = b.ref_log_prob
            /\ [b EXCEPT !["old_log_prob"] = z].values = b.values
            /\ [b EXCEPT !["old_log_prob"] = z].response = b.response
            /\ [b EXCEPT !["ref_log_prob"] = z].old_log_prob = b.old_log_prob
            /\ [b EXCEPT !["ref_log_prob"] = z].ref_log_prob = z
            /\ [b EXCEPT !["ref_log_prob"] = z].values = b.values
            /\ [b EXCEPT !["ref_log_prob"] = z].response = b.response
            /\ [b EXCEPT !["values"] = z].old_log_prob = b.old_log_prob
            /\ [b EXCEPT !["values"] = z].ref_log_prob = b.ref_log_prob
            /\ [b EXCEPT !["values"] = z].values = z
            /\ [b EXCEPT !["values"] = z].response = b.response
        BY <3>2, RowColumns
      <3>5. CASE phase = "old_log_prob"
        <4>1. phase' \in {"ref_log_prob", "values", "advantage"}
              /\ (phase' \in {"values", "advantage"} => ~input.ref) /\ (phase' = "advantage" => ~input.critic)
          BY <1>1, <3>5 DEF After, Inference
        <4>2. PICK c : c = [b EXCEPT !["old_log_prob"] = z]
          OBVIOUS
        <4>3. c.old_log_prob = b.response /\ c.ref_log_prob = 0 /\ c.values = 0 /\ c.response = b.response
          BY <3>3, <3>4, <3>5, <4>2 DEF HasColumns
        <4>4. HasColumns(c, phase')
          BY <4>1, <4>3 DEF HasColumns
        <4> QED BY <3>3, <3>5, <4>2, <4>4
      <3>6. CASE phase = "ref_log_prob"
        <4>1. phase' \in {"values", "advantage"} /\ (phase' = "advantage" => ~input.critic) /\ input.ref
          BY <1>1, <3>6 DEF After, Inference, ColumnsInv
        <4>2. PICK c : c = [b EXCEPT !["ref_log_prob"] = z]
          OBVIOUS
        <4>3. c.old_log_prob = b.response /\ c.ref_log_prob = b.response /\ c.values = 0 /\ c.response = b.response
          BY <3>3, <3>4, <3>6, <4>2 DEF HasColumns
        <4>4. HasColumns(c, phase')
          BY <4>1, <4>3 DEF HasColumns
        <4> QED BY <3>3, <3>6, <4>2, <4>4
      <3>7. CASE phase = "values"
        <4>1. phase' = "advantage" /\ input.critic
          BY <1>1, <3>7 DEF After, Inference, ColumnsInv
        <4>2. PICK c : c = [b EXCEPT !["values"] = z]
          OBVIOUS
        <4>3. /\ c.old_log_prob = b.response /\ c.values = b.response /\ c.response = b.response
              /\ c.ref_log_prob = IF input.ref THEN b.response ELSE 0
          BY <3>3, <3>4, <3>7, <4>2 DEF HasColumns
        <4>4. HasColumns(c, phase')
          BY <4>1, <4>3 DEF HasColumns
        <4> QED BY <3>3, <3>7, <4>2, <4>4
      <3> QED BY <1>1, <1>6, <3>5, <3>6, <3>7 DEF Inference
    <2> QED BY <1>1, <1>4, <2>6 DEF ColumnsInv, HasColumns
  <1> QED BY <1>5, <1>6

\* Balancing moves rows without columns.
LEMMA ColumnsBalance ==
    ASSUME BatchAssumption, BatchInv, Balance PROVE ColumnsInv'
  <1>1. input' = input /\ phase = "balance" /\ phase' = "reward" /\ input \in Inputs /\ batch = Answered
    BY DEF Balance, BatchInv
  <1>2. PICK s : s = BalancedShares(batch)
    OBVIOUS
  <1>3. IsPartition(s, DpSize, Total)
    BY <1>1, <1>2, SharesDivide DEF IsFair, AreShares
  <1>4. PICK order : order = FlattenSeq(s)
    OBVIOUS
  <1>5. batch' = [i \in 1..Len(order) |-> batch[order[i]]]
    BY <1>2, <1>4 DEF Balance
  <1>6. IsOrder(order, Total)
    <2>1. DpSize \in Nat /\ Total \in Nat
      BY Sizes
    <2> QED BY ONLY <2>1, <1>3, <1>4, FlattenPermutes
  <1>7. ASSUME NEW i \in 1..Total PROVE HasColumns(batch'[i], "reward")
    <2>1. order \in Seq(1..Total) /\ Len(order) = Total
      BY <1>6 DEF IsOrder
    <2>2. PICK x \in 1..Total : x = order[i]
      BY <2>1, ElementOfSeq
    <2>3. batch'[i] = FreshRow(PromptOf[x], x, Baseline(x))
      BY <1>1, <1>5, <2>1, <2>2 DEF Answered
    <2> QED BY <2>3 DEF FreshRow, HasColumns
  <1> QED BY <1>1, <1>7 DEF ColumnsInv, HasColumns

\* Computing advantages leaves them.
LEMMA ColumnsAdvantage ==
    ASSUME BatchAssumption, BatchInv, ColumnsInv, ComputeAdvantage PROVE ColumnsInv'
  <1>1. /\ input' = input /\ phase = "advantage" /\ phase' \in {"update_critic", "update_actor"}
        /\ input \in Inputs /\ Balanced
    BY DEF ComputeAdvantage, BatchInv
  <1>3. Len(batch) = Total /\ batch = [i \in 1..Total |-> batch[i]]
    BY <1>1, BatchLength
  <1>5. ASSUME NEW i \in 1..Total PROVE HasColumns(batch'[i], phase')
    <2>1. PICK z, y : batch'[i] = [batch[i] EXCEPT !.advantage = z, !.return = y]
      BY <1>3 DEF ComputeAdvantage
    <2>2. PICK b : b = batch[i]
      OBVIOUS
    <2>3. PICK x : IsRow(b, x)
      BY <1>1, <2>2, RowOf
    <2>4. PICK c : c = [b EXCEPT !.advantage = z, !.return = y]
      OBVIOUS
    <2>5. /\ c.old_log_prob = b.old_log_prob /\ c.ref_log_prob = b.ref_log_prob /\ c.values = b.values
          /\ c.response = b.response
      BY <2>3, <2>4, AdvantageColumns
    <2>6. HasColumns(b, phase)
      BY <1>1, <2>2 DEF ColumnsInv
    <2>7. HasColumns(c, phase')
      BY <1>1, <2>5, <2>6 DEF HasColumns
    <2> QED BY <2>1, <2>2, <2>4, <2>7
  <1> QED BY <1>1, <1>5 DEF ColumnsInv, HasColumns

\* There is no column in the beginning.
LEMMA ColumnsInit ==
    ASSUME Init PROVE ColumnsInv
  BY DEF Init, ColumnsInv

\* Every step keeps the columns in their rows.
LEMMA ColumnsStep ==
    ASSUME BatchAssumption, BatchInv, RanksInv, OutInv, ColumnsInv, [Next]_vars PROVE ColumnsInv'
  <1>1. CASE Generate
    BY <1>1 DEF Generate, ColumnsInv
  <1>2. CASE Balance
    BY <1>2, ColumnsBalance
  <1>3. CASE Score
    <2>1. input' = input /\ batch' = batch /\ phase = "reward" /\ phase' = "old_log_prob"
      BY <1>3 DEF Score
    <2> QED BY <2>1 DEF ColumnsInv, HasColumns
  <1>4. CASE Collect
    BY <1>4, ColumnsCollect
  <1>5. CASE ComputeAdvantage
    BY <1>5, ColumnsAdvantage
  <1>6. CASE Dispatch \/ (\E r \in Ranks : Rank(r)) \/ UNCHANGED vars
    <2>1. UNCHANGED driverVars
      BY <1>6 DEF Dispatch, Rank, Begin, Agree, Forward, ReturnOutputs, Step, vars
    <2> QED BY <2>1 DEF driverVars, ColumnsInv, HasColumns
  <1> QED BY <1>1, <1>2, <1>3, <1>4, <1>5, <1>6 DEF Next, Driver

\* The invariants imply RowsInPlace.
LEMMA RowsStayInPlace ==
    ASSUME BatchAssumption, BatchInv, ColumnsInv PROVE RowsInPlace
  <1> SUFFICES ASSUME phase \in {"advantage", "done"}, NEW b \in ToSet(batch)
               PROVE  /\ b.uid = PromptOf[b.response] /\ b.old_log_prob = b.response
                      /\ b.ref_log_prob = (IF input.ref THEN b.response ELSE 0)
                      /\ b.values = (IF input.critic THEN b.response ELSE 0)
    BY DEF RowsInPlace
  <1>1. Balanced
    BY DEF BatchInv
  <1>2. PICK i \in 1..Total : b = batch[i]
    BY <1>1, BatchLength DEF ToSet
  <1>3. b.uid = PromptOf[b.response]
    BY <1>1, <1>2, BatchResponses
  <1>4. HasColumns(b, phase)
    BY <1>2 DEF ColumnsInv
  <1> QED BY <1>3, <1>4 DEF HasColumns

----------------------------------------------------------------------------
(* Advantages: those of a group add up to nothing.                          *)

\* Sum is the sum.
LEMMA SumIsIter ==
    ASSUME NEW D, NEW f, Summable(f, D), NEW S, S \subseteq D
    PROVE  Sum(f, S) = Iter(f)[S]
  <1> DEFINE iter == CHOOSE iter : iter = [s \in SUBSET S |->
                         IF s = {} THEN 0 ELSE f[CHOOSE x \in s : TRUE] + iter[s \ {CHOOSE x \in s : TRUE}]]
  <1>1. Sum(f, S) = iter[S]
    BY DEF Sum, MapThenSumSet, MapThenFoldSet
  <1>2. PICK F : F = [x \in S |-> f[x]]
    OBVIOUS
  <1>3. Agrees(F, S, f, D, S) /\ Summable(F, S)
    <2>1. IsFiniteSet(S)
      BY FS_Subset DEF Summable
    <2> QED BY <1>2, <2>1 DEF Summable, Agrees
  <1>4. PICK g : PickSums(g, F, S)
    BY <1>3, PickSumsExist
  <1>5. ASSUME NEW h
        PROVE  PickSums(h, F, S) <=>
                 h = [s \in SUBSET S |-> IF s = {} THEN 0 ELSE f[Pick(s)] + h[s \ {Pick(s)}]]
    <2>1. \A s \in SUBSET S : (IF s = {} THEN 0 ELSE F[Pick(s)] + h[s \ {Pick(s)}])
                               = IF s = {} THEN 0 ELSE f[Pick(s)] + h[s \ {Pick(s)}]
      <3>1. \A s \in SUBSET S : s # {} => Pick(s) \in S
        BY PickIn
      <3> QED BY <1>2, <3>1
    <2> QED BY ONLY <2>1 DEF PickSums
  <1>6. \E h : h = [s \in SUBSET S |->
                 IF s = {} THEN 0 ELSE f[CHOOSE x \in s : TRUE] + h[s \ {CHOOSE x \in s : TRUE}]]
    <2>1. g = [s \in SUBSET S |-> IF s = {} THEN 0 ELSE f[Pick(s)] + g[s \ {Pick(s)}]]
      BY <1>4, <1>5
    <2> QED BY ONLY <2>1 DEF Pick
  <1>7. iter = [s \in SUBSET S |->
                 IF s = {} THEN 0 ELSE f[CHOOSE x \in s : TRUE] + iter[s \ {CHOOSE x \in s : TRUE}]]
    BY ONLY <1>6 DEF iter
  <1> HIDE DEF iter
  <1>8. PickSums(iter, F, S)
    <2>1. iter = [s \in SUBSET S |-> IF s = {} THEN 0 ELSE f[Pick(s)] + iter[s \ {Pick(s)}]]
      BY ONLY <1>7 DEF Pick
    <2> QED BY <1>5, <2>1
  <1>9. iter[S] = Iter(F)[S]
    BY <1>3, <1>8, PickSumsAdd
  <1>10. Iter(F)[S] = Iter(f)[S]
    BY <1>3, SumAgrees
  <1> QED BY <1>1, <1>9, <1>10

\* Columns of n rows
AreColumns(b, n) ==
    /\ n \in Nat /\ Len(b.uid) = n /\ Len(b.score) = n
    /\ b.score \in [1..n -> Int] /\ b.len \in [1..n -> Int]

\* The estimators that compare a row with all the rows of its prompt
Comparing == Estimators \ {"remax", "grpo_passk"}

\* What a row counts in its group
Counts(e, b, G) == [j \in G |-> IF e = "opo" THEN b.len[j] ELSE 1]
Scored(e, b, G) == [j \in G |-> Counts(e, b, G)[j] * b.score[j]]

\* What is known of sums over a group
SumsOf(n, b, e, G) ==
    /\ IsFiniteSet(G) /\ Summable(Counts(e, b, G), G) /\ Summable(Scored(e, b, G), G)
    /\ Summable(b.score, 1..n) /\ Summable(b.len, 1..n)
    /\ e # "opo" => Iter(Counts(e, b, G))[G] = Cardinality(G)
    /\ e # "opo" => Iter(Scored(e, b, G))[G] = Sum(b.score, G)
    /\ e = "opo" => Iter(Counts(e, b, G))[G] = Sum(b.len, G)
    /\ e = "opo" => Iter(Scored(e, b, G))[G] = Sum([j \in G |-> b.len[j] * b.score[j]], G)
    /\ Cardinality(G) \in Nat

\* The counts and scores of a group are summed by the estimators.
LEMMA CountsType ==
    ASSUME NEW n, NEW b, AreColumns(b, n), NEW e, NEW G, G \subseteq 1..n
    PROVE  SumsOf(n, b, e, G)
  <1>1. n \in Nat /\ b.score \in [1..n -> Int] /\ b.len \in [1..n -> Int]
    BY DEF AreColumns
  <1>2. IsFiniteSet(1..n) /\ IsFiniteSet(G)
    <2>1. PICK T : T = 1..n
      OBVIOUS
    <2>2. IsFiniteSet(T) /\ G \subseteq T
      BY <1>1, <2>1, FS_Interval
    <2> QED BY ONLY <2>1, <2>2, FS_Subset
  <1>3. PICK C, L : C = Counts(e, b, G) /\ L = Scored(e, b, G)
    OBVIOUS
  <1>4. /\ C \in [G -> Int] /\ \A j \in G : C[j] = IF e = "opo" THEN b.len[j] ELSE 1
    BY <1>1, <1>3 DEF Counts
  <1>5. /\ L \in [G -> Int] /\ \A j \in G : L[j] = C[j] * b.score[j]
    <2>1. \A j \in G : C[j] \in Int /\ b.score[j] \in Int
      BY <1>1, <1>4
    <2>2. \A j \in G : C[j] * b.score[j] \in Int
      BY <2>1
    <2>3. L = [j \in G |-> C[j] * b.score[j]]
      BY <1>3 DEF Scored
    <2> QED BY <2>2, <2>3
  <1>6. Summable(C, G) /\ Summable(L, G) /\ Summable(b.score, 1..n) /\ Summable(b.len, 1..n)
    BY <1>1, <1>2, <1>4, <1>5 DEF Summable
  <1>7. e # "opo" => Iter(C)[G] = Cardinality(G)
    BY <1>4, <1>6, SumOnes
  <1>12. PICK T : T = 1..n
    OBVIOUS
  <1>13. Summable(b.score, T) /\ Summable(b.len, T) /\ G \subseteq T
    BY <1>6, <1>12
  <1>8. e # "opo" => Iter(L)[G] = Sum(b.score, G)
    <2> SUFFICES ASSUME e # "opo" PROVE Iter(L)[G] = Sum(b.score, G)
      OBVIOUS
    <2>1. \A j \in G : L[j] = b.score[j]
      <3>1. \A j \in G : b.score[j] \in Int /\ L[j] = 1 * b.score[j]
        BY <1>1, <1>4, <1>5
      <3> QED BY <3>1
    <2>2. Agrees(L, G, b.score, T, G)
      BY <1>6, <1>13, <2>1 DEF Agrees
    <2>3. Iter(L)[G] = Iter(b.score)[G]
      BY ONLY <2>2, SumAgrees
    <2>4. Sum(b.score, G) = Iter(b.score)[G]
      BY ONLY <1>13, SumIsIter
    <2> QED BY ONLY <2>3, <2>4
  <1>9. e = "opo" => Iter(C)[G] = Sum(b.len, G)
    <2> SUFFICES ASSUME e = "opo" PROVE Iter(C)[G] = Sum(b.len, G)
      OBVIOUS
    <2>1. Agrees(C, G, b.len, T, G)
      BY <1>4, <1>6, <1>13 DEF Agrees
    <2>2. Iter(C)[G] = Iter(b.len)[G]
      BY ONLY <2>1, SumAgrees
    <2>3. Sum(b.len, G) = Iter(b.len)[G]
      BY ONLY <1>13, SumIsIter
    <2> QED BY ONLY <2>2, <2>3
  <1>10. e = "opo" => Iter(L)[G] = Sum([j \in G |-> b.len[j] * b.score[j]], G)
    <2> SUFFICES ASSUME e = "opo" PROVE Iter(L)[G] = Sum([j \in G |-> b.len[j] * b.score[j]], G)
      OBVIOUS
    <2>1. L = [j \in G |-> b.len[j] * b.score[j]]
      <3>1. L = [j \in G |-> C[j] * b.score[j]]
        BY <1>3 DEF Scored
      <3> QED BY <1>4, <3>1
    <2>2. G \subseteq G
      OBVIOUS
    <2>3. Sum(L, G) = Iter(L)[G]
      BY ONLY <1>6, <2>2, SumIsIter
    <2> QED BY ONLY <2>1, <2>3
  <1>11. Cardinality(G) \in Nat
    BY <1>2, FS_CardinalityType
  <1> QED BY ONLY <1>2, <1>3, <1>6, <1>7, <1>8, <1>9, <1>10, <1>11 DEF SumsOf

\* The advantages of a group: c times the distance of a score from the mean that is weighted by
\* the counts, and d below the line
IsAdvantage(v, e, b, G, c, d, j) ==
    v = <<c * (Iter(Counts(e, b, G))[G] * b.score[j] - Iter(Scored(e, b, G))[G]), d>>
AreAdvantages(e, b, G, c, d) ==
    c \in Int /\ \A j \in G : IsAdvantage(Advantage(e, b, j), e, b, G, c, d, j)

\* They are of that form, if there is more than one row.
LEMMA AdvantageForm ==
    ASSUME NEW n, NEW b, AreColumns(b, n), NEW e \in Comparing, NEW G, G \subseteq 1..n,
           Cardinality(G) # 1, \A j \in G : Group(b.uid, j) = G
    PROVE  \E c, d : AreAdvantages(e, b, G, c, d)
  <1>1. n \in Nat /\ b.score \in [1..n -> Int] /\ b.len \in [1..n -> Int] /\ Len(b.score) = n
    BY DEF AreColumns
  <1>2. PICK k, t, l : k = Cardinality(G) /\ t = Iter(Counts(e, b, G))[G] /\ l = Iter(Scored(e, b, G))[G]
    OBVIOUS
  <1>0. SumsOf(n, b, e, G)
    BY CountsType
  <1>3. k \in Nat /\ t \in Int /\ l \in Int
    <2>1. Summable(Counts(e, b, G), G) /\ Summable(Scored(e, b, G), G) /\ Cardinality(G) \in Nat
      BY <1>0 DEF SumsOf
    <2> QED BY <1>2, <2>1, SumType
  <1>4. ASSUME e # "opo" PROVE t = k /\ l = Sum(b.score, G)
    BY <1>0, <1>2, <1>4 DEF SumsOf
  <1>5. \A j \in G : b.score[j] \in Int
    BY <1>1
  <1>6. ASSUME NEW j \in G PROVE k * b.score[j] - l \in Int /\ t * b.score[j] - l \in Int
    <2>1. PICK y \in Int : y = b.score[j]
      BY <1>5
    <2>2. k * y - l \in Int /\ t * y - l \in Int
      BY <1>3
    <2> QED BY <2>1, <2>2
  <1>7. \A z \in Int : 1 * z = z
    OBVIOUS
  <1>13. ASSUME NEW c \in Int, NEW d, \A j \in G : Advantage(e, b, j) = <<c * (t * b.score[j] - l), d>>
         PROVE  AreAdvantages(e, b, G, c, d)
    BY ONLY <1>2, <1>13, c \in Int DEF IsAdvantage, AreAdvantages
  <1>8. CASE e \in {"grpo", "grpo_vectorized"}
    <2>1. ASSUME NEW j \in G PROVE Advantage(e, b, j) = <<1 * (t * b.score[j] - l), k>>
      <3>1. GrpoAdvantage(b.uid, b.score, j) = <<k * b.score[j] - l, k>>
        BY <1>2, <1>4, <1>8 DEF GrpoAdvantage
      <3>2. Advantage(e, b, j) = GrpoAdvantage(b.uid, b.score, j)
        BY <1>8 DEF Advantage
      <3>3. t = k
        BY <1>4, <1>8
      <3> QED BY <1>6, <1>7, <3>1, <3>2, <3>3
    <2>2. AreAdvantages(e, b, G, 1, k)
      BY <1>13, <2>1
    <2> QED BY ONLY <2>2
  <1>9. CASE e = "rloo"
    <2>1. ASSUME NEW j \in G PROVE Advantage(e, b, j) = <<1 * (t * b.score[j] - l), k - 1>>
      <3>1. RlooAdvantage(b.uid, b.score, j) = <<k * b.score[j] - l, k - 1>>
        BY <1>2, <1>4, <1>9 DEF RlooAdvantage
      <3>2. Advantage(e, b, j) = RlooAdvantage(b.uid, b.score, j)
        BY <1>9 DEF Advantage
      <3>3. t = k
        BY <1>4, <1>9
      <3> QED BY <1>6, <1>7, <3>1, <3>2, <3>3
    <2>2. AreAdvantages(e, b, G, 1, k - 1)
      BY <1>13, <2>1
    <2> QED BY ONLY <2>2
  <1>10. CASE e = "rloo_vectorized"
    <2>1. ASSUME NEW j \in G PROVE Advantage(e, b, j) = <<1 * (t * b.score[j] - l), k - 1>>
      <3>1. RlooVectorizedAdvantage(b.uid, b.score, j) = <<k * b.score[j] - l, k - 1>>
        BY <1>2, <1>4, <1>10 DEF RlooVectorizedAdvantage
      <3>2. Advantage(e, b, j) = RlooVectorizedAdvantage(b.uid, b.score, j)
        BY <1>10 DEF Advantage
      <3>3. t = k
        BY <1>4, <1>10
      <3> QED BY <1>6, <1>7, <3>1, <3>2, <3>3
    <2>2. AreAdvantages(e, b, G, 1, k - 1)
      BY <1>13, <2>1
    <2> QED BY ONLY <2>2
  <1>11. CASE e = "opo"
    <2>1. ASSUME NEW j \in G PROVE Advantage(e, b, j) = <<1 * (t * b.score[j] - l), t>>
      <3>1. t = Sum(b.len, G) /\ l = Sum([i \in G |-> b.len[i] * b.score[i]], G)
        BY <1>0, <1>2, <1>11 DEF SumsOf
      <3>2. OpoAdvantage(b.uid, b.score, b.len, j) = <<t * b.score[j] - l, t>>
        BY <1>2, <3>1 DEF OpoAdvantage
      <3>3. Advantage(e, b, j) = OpoAdvantage(b.uid, b.score, b.len, j)
        BY <1>11 DEF Advantage
      <3> QED BY <1>6, <1>7, <3>2, <3>3
    <2>2. AreAdvantages(e, b, G, 1, t)
      BY <1>13, <2>1
    <2> QED BY ONLY <2>2
  <1>12. CASE e = "gpg"
    <2>1. PICK q : q = IF Cardinality({i \in 1..Len(b.score) : b.score[i] # 0}) = 0
                       THEN 1 ELSE Cardinality({i \in 1..Len(b.score) : b.score[i] # 0})
      OBVIOUS
    <2>2. ASSUME NEW j \in G PROVE Advantage(e, b, j) = <<n * (t * b.score[j] - l), k * q>>
      <3>1. GrpoAdvantage(b.uid, b.score, j) = <<k * b.score[j] - l, k>>
        BY <1>2, <1>4, <1>12 DEF GrpoAdvantage
      <3>2. GpgAdvantage(b.uid, b.score, j) = <<n * (k * b.score[j] - l), k * q>>
        BY <1>1, <2>1, <3>1 DEF GpgAdvantage
      <3>3. Advantage(e, b, j) = GpgAdvantage(b.uid, b.score, j)
        BY <1>12 DEF Advantage
      <3>4. t = k
        BY <1>4, <1>12
      <3> QED BY <3>2, <3>3, <3>4
    <2>3. n \in Int
      BY <1>1
    <2>4. AreAdvantages(e, b, G, n, k * q)
      BY <1>13, <2>2, <2>3
    <2> QED BY ONLY <2>4
  <1> QED BY <1>8, <1>9, <1>10, <1>11, <1>12 DEF Comparing, Estimators

\* The numerators of a group, each as often as its row counts
Numerators(e, b, G) == [j \in G |-> Counts(e, b, G)[j] * Advantage(e, b, j)[1]]

\* Over a group, advantages add up to nothing and have one denominator.
LEMMA GroupCentred ==
    ASSUME NEW n, NEW b, AreColumns(b, n), NEW e \in Comparing, NEW G, G \subseteq 1..n,
           Cardinality(G) # 1, \A j \in G : Group(b.uid, j) = G
    PROVE  /\ Summable(Numerators(e, b, G), G) /\ Iter(Numerators(e, b, G))[G] = 0
           /\ \A i, j \in G : Advantage(e, b, i)[2] = Advantage(e, b, j)[2]
  <1>1. PICK c, d : AreAdvantages(e, b, G, c, d)
    BY AdvantageForm
  <1>0. SumsOf(n, b, e, G)
    BY CountsType
  <1>2. PICK w, t, l : w = Counts(e, b, G) /\ t = Iter(w)[G] /\ l = Iter(Scored(e, b, G))[G]
    OBVIOUS
  <1>3. c \in Int /\ \A j \in G : Advantage(e, b, j) = <<c * (t * b.score[j] - l), d>>
    BY <1>1, <1>2 DEF IsAdvantage, AreAdvantages
  <1>4. PICK v : v = [j \in G |-> b.score[j]]
    OBVIOUS
  <1>5. Summable(w, G) /\ Summable(v, G) /\ Summable(Scored(e, b, G), G) /\ IsFiniteSet(G)
    <2>1. IsFiniteSet(G) /\ Summable(w, G) /\ Summable(Scored(e, b, G), G)
      BY <1>0, <1>2 DEF SumsOf
    <2>2. v \in [G -> Int]
      BY <1>4 DEF AreColumns
    <2> QED BY <2>1, <2>2 DEF Summable
  <1>6. l = Iter([x \in G |-> w[x] * v[x]])[G]
    <2>1. Scored(e, b, G) = [x \in G |-> w[x] * v[x]]
      BY <1>2, <1>4 DEF Scored
    <2> QED BY <1>2, <2>1
  <1>7. t \in Int /\ l \in Int
    BY <1>2, <1>5, SumType
  <1>8. PICK H : H = Numerators(e, b, G)
    OBVIOUS
  <1>9. ASSUME NEW x \in G PROVE H[x] = w[x] * (c * (t * v[x] - l)) /\ H[x] \in Int
    <2>1. PICK a : a = c * (t * b.score[x] - l)
      OBVIOUS
    <2>2. Advantage(e, b, x) = <<a, d>>
      BY <1>3, <2>1
    <2>3. H[x] = w[x] * a
      BY <1>2, <1>8, <2>2 DEF Numerators
    <2>4. v[x] = b.score[x]
      BY <1>4
    <2>5. w[x] \in Int /\ v[x] \in Int
      BY <1>5 DEF Summable
    <2>6. PICK y \in Int, z \in Int : y = v[x] /\ z = w[x]
      BY <2>5
    <2>7. z * (c * (t * y - l)) \in Int
      BY <1>3, <1>7
    <2> QED BY ONLY <2>1, <2>3, <2>4, <2>6, <2>7
  <1>10. Summable(H, G)
    <2>1. H = [x \in G |-> H[x]]
      BY <1>8 DEF Numerators
    <2>2. H \in [G -> Int]
      BY ONLY <1>9, <2>1
    <2> QED BY <1>5, <2>2 DEF Summable
  <1>11. IsCentred(H, v, w, t, l, c, G)
    BY <1>2, <1>3, <1>5, <1>6, <1>9, <1>10 DEF IsCentred
  <1>12. Iter(H)[G] = 0
    BY <1>11, CentredSum
  <1> QED BY <1>3, <1>8, <1>10, <1>12

----------------------------------------------------------------------------
(* Rewards and advantages in their rows.                                    *)

\* The scores of the rows, and the columns compute_advantage reads
Scores == [i \in 1..Total |-> input.score[batch[i].response]]
Columns == [uid |-> Uids(batch), score |-> Scores, len |-> Lens(batch),
            baseline |-> [i \in 1..Len(batch) |-> batch[i].baseline]]

\* b has the advantage and the return of row i.
HasAdvantage(b, c, i) ==
    b.advantage = Advantage(input.estimator, c, i) /\ b.return = Return(input.estimator, c, i)

\* Rewards are in the order of the rows, and advantages are computed from them.
ScoredInv ==
    /\ phase \notin {"generate", "balance", "reward"} => reward = Scores
    /\ phase \in {"update_critic", "update_actor", "done"} =>
           \A i \in 1..Total : HasAdvantage(batch[i], Columns, i)

\* The reward workers return scores in the order of the rows.
LEMMA ScoresInOrder ==
    ASSUME BatchAssumption, Balanced
    PROVE  ByWorkers(batch, RewardWorkers, LAMBDA b : input.score[b.response]) = Scores
  <1>1. /\ RewardWorkers \in Nat \ {0} /\ Total \in Nat \ {0} /\ Total = Prompts * N
    BY Sizes DEF Total
  <1>2. PICK size : IsGrid(Total, RewardWorkers, size)
    <2>1. Total % RewardWorkers = 0
      BY <1>1 DEF BatchAssumption
    <2> QED BY <1>1, <2>1, GridOf
  <1>3. Len(batch) = Total /\ batch = [i \in 1..Total |-> batch[i]]
    BY BatchLength
  <1>4. PICK A : A = {batch[p] : p \in 1..Total}
    OBVIOUS
  <1>5. batch \in Seq(A)
    <2>1. batch \in [1..Total -> A]
      BY <1>3, <1>4
    <2> QED BY ONLY <1>1, <2>1
  <1>6. PICK v : v = [i \in 1..Total |-> input.score[batch[i].response]]
    OBVIOUS
  <1>7. ASSUME NEW w \in 1..RewardWorkers
        PROVE  [i \in 1..Len(Chunk(batch, RewardWorkers, w)) |->
                  input.score[Chunk(batch, RewardWorkers, w)[i].response]]
                 = [j \in 1..size |-> v[Cell(size, w - 1, j)]]
    <2>1. /\ Len(Chunk(batch, RewardWorkers, w)) = size
          /\ \A j \in 1..size : Chunk(batch, RewardWorkers, w)[j] = batch[Cell(size, w - 1, j)]
      <3>1. Total = Len(batch)
        BY <1>3
      <3> QED BY ONLY <1>2, <1>5, <3>1, w \in 1..RewardWorkers, ChunkRow
    <2>2. \A j \in 1..size : Cell(size, w - 1, j) \in 1..Total
      <3>1. w - 1 \in 0..RewardWorkers - 1
        BY <1>1
      <3> QED BY <1>2, <3>1, Cells
    <2>3. \A p \in 1..Total : v[p] = input.score[batch[p].response]
      BY <1>6
    <2>4. ASSUME NEW j \in 1..size
          PROVE  input.score[Chunk(batch, RewardWorkers, w)[j].response] = v[Cell(size, w - 1, j)]
      <3>1. PICK p \in 1..Total : p = Cell(size, w - 1, j)
        BY ONLY <2>2, j \in 1..size
      <3>2. Chunk(batch, RewardWorkers, w)[j] = batch[p]
        BY ONLY <2>1, <3>1, j \in 1..size
      <3> QED BY ONLY <2>3, <3>1, <3>2, p \in 1..Total
    <2> QED BY ONLY <2>1, <2>4
  <1> DEFINE scores == ByWorkers(batch, RewardWorkers, LAMBDA b : input.score[b.response])
  <1>8. scores = FlattenSeq([w \in 1..RewardWorkers |->
                    [i \in 1..Len(Chunk(batch, RewardWorkers, w)) |->
                       input.score[Chunk(batch, RewardWorkers, w)[i].response]]])
    BY DEF ByWorkers
  <1> HIDE DEF scores
  <1>9. scores = FlattenSeq(Chunks(v, RewardWorkers, size))
    BY ONLY <1>7, <1>8 DEF Chunks
  <1>10. FlattenSeq(Chunks(v, RewardWorkers, size)) = [p \in 1..Total |-> v[p]]
    BY <1>2, ChunksJoin
  <1>11. scores = Scores
    BY <1>6, <1>9, <1>10 DEF Scores
  <1> QED BY <1>11 DEF scores

\* Nothing is scored in the beginning.
LEMMA ScoredInit ==
    ASSUME Init PROVE ScoredInv
  BY DEF Init, ScoredInv

\* Scoring
LEMMA ScoredScore ==
    ASSUME BatchAssumption, BatchInv, Score PROVE ScoredInv'
  <1>1. phase = "reward" /\ phase' = "old_log_prob" /\ input' = input /\ batch' = batch /\ Balanced
    BY DEF Score, BatchInv
  <1>2. reward' = ByWorkers(batch, RewardWorkers, LAMBDA b : input.score[b.response])
    BY DEF Score
  <1>3. reward' = Scores
    BY <1>1, <1>2, ScoresInOrder
  <1>4. Scores' = Scores
    BY <1>1 DEF Scores
  <1> QED BY <1>1, <1>3, <1>4 DEF ScoredInv

\* Columns are read from what computing advantages and collecting do not change.
LEMMA ColumnsStay ==
    ASSUME BatchAssumption, Balanced, input' = input, batch' = [i \in 1..Total |-> batch'[i]],
           \A i \in 1..Total : /\ batch'[i].uid = batch[i].uid /\ batch'[i].response = batch[i].response
                               /\ batch'[i].baseline = batch[i].baseline
    PROVE  Scores' = Scores /\ Columns' = Columns
  <1>1. Len(batch) = Total /\ Total \in Nat
    BY BatchLength, Sizes
  <1>2. Len(batch') = Total
    BY <1>1
  <1>3. Scores' = Scores
    BY DEF Scores
  <1>4. Uids(batch)' = Uids(batch)
    BY <1>1, <1>2 DEF Uids
  <1>5. Lens(batch)' = Lens(batch)
    BY <1>1, <1>2 DEF Lens
  <1>6. [i \in 1..Len(batch) |-> batch[i].baseline]' = [i \in 1..Len(batch) |-> batch[i].baseline]
    BY <1>1, <1>2
  <1> QED BY <1>3, <1>4, <1>5, <1>6 DEF Columns

\* Collecting leaves advantages and what they were computed from.
LEMMA ScoredCollect ==
    ASSUME BatchAssumption, BatchInv, ScoredInv, Collect PROVE ScoredInv'
  <1>1. /\ input' = input /\ phase \in Inference \cup Updates /\ phase' = After(phase) /\ reward' = reward
        /\ Balanced
    BY DEF Collect, BatchInv, Inference, Updates
  <1>2. Len(batch) = Total /\ batch = [i \in 1..Total |-> batch[i]]
    BY <1>1, BatchLength
  <1>3. reward = Scores
    BY <1>1 DEF ScoredInv, Inference, Updates
  <1>4. CASE phase \in Updates
    <2>1. batch' = batch
      BY <1>4 DEF Collect
    <2>2. Scores' = Scores /\ Columns' = Columns
      BY <1>1, <2>1 DEF Scores, Columns, Lens
    <2>3. \A i \in 1..Total : HasAdvantage(batch[i], Columns, i)
      BY <1>4 DEF ScoredInv, Updates
    <2>4. \A i \in 1..Total : HasAdvantage(batch[i], Columns, i)'
      BY <1>1, <2>1, <2>2, <2>3 DEF HasAdvantage
    <2> QED BY <1>1, <1>3, <2>2, <2>4 DEF ScoredInv
  <1>5. CASE phase \notin Updates
    <2>1. PICK column : batch' = [i \in 1..Total |-> [batch[i] EXCEPT ![phase] = column[i]]]
      BY <1>2, <1>5 DEF Collect
    <2>2. ASSUME NEW i \in 1..Total
          PROVE  batch'[i].response = batch[i].response
      <3>1. PICK b, z : b = batch[i] /\ z = column[i]
        OBVIOUS
      <3>2. PICK x : IsRow(b, x)
        BY <1>1, <3>1, RowOf
      <3>3. /\ [b EXCEPT !["old_log_prob"] = z].response = b.response
            /\ [b EXCEPT !["ref_log_prob"] = z].response = b.response
            /\ [b EXCEPT !["values"] = z].response = b.response
        BY <3>2, RowColumns
      <3>4. batch'[i] = [b EXCEPT ![phase] = z]
        BY <2>1, <3>1
      <3>5. phase \in {"old_log_prob", "ref_log_prob", "values"}
        BY <1>1, <1>5 DEF Inference
      <3> QED BY <3>1, <3>3, <3>4, <3>5
    <2>3. Scores' = Scores
      BY <1>1, <2>2 DEF Scores
    <2>4. phase' \in {"ref_log_prob", "values", "advantage"}
      BY <1>1, <1>5 DEF After, Inference
    <2> QED BY <1>1, <1>3, <2>3, <2>4 DEF ScoredInv
  <1> QED BY <1>4, <1>5

\* Computing advantages
LEMMA ScoredAdvantage ==
    ASSUME BatchAssumption, BatchInv, ScoredInv, ComputeAdvantage PROVE ScoredInv'
  <1>1. /\ input' = input /\ phase = "advantage" /\ phase' \in {"update_critic", "update_actor"}
        /\ reward' = reward /\ Balanced
    BY DEF ComputeAdvantage, BatchInv
  <1>2. Len(batch) = Total /\ batch = [i \in 1..Total |-> batch[i]]
    BY <1>1, BatchLength
  <1>3. reward = Scores
    BY <1>1 DEF ScoredInv
  <1>4. batch' = [i \in 1..Total |->
                    [batch[i] EXCEPT !.advantage = Advantage(input.estimator, Columns, i),
                                     !.return = Return(input.estimator, Columns, i)]]
    BY <1>2, <1>3 DEF ComputeAdvantage, Columns
  <1>5. ASSUME NEW i \in 1..Total
        PROVE  /\ batch'[i].uid = batch[i].uid /\ batch'[i].response = batch[i].response
               /\ batch'[i].baseline = batch[i].baseline
               /\ batch'[i].advantage = Advantage(input.estimator, Columns, i)
               /\ batch'[i].return = Return(input.estimator, Columns, i)
    <2>1. PICK b, z, y : /\ b = batch[i] /\ z = Advantage(input.estimator, Columns, i)
                         /\ y = Return(input.estimator, Columns, i)
      OBVIOUS
    <2>2. PICK u, x, l, o, r, v, a, t :
             b = [uid |-> u, response |-> x, baseline |-> l, old_log_prob |-> o,
                  ref_log_prob |-> r, values |-> v, advantage |-> a, return |-> t]
      <3>1. PICK x : IsRow(b, x)
        BY <1>1, <2>1, RowOf
      <3> QED BY <3>1 DEF IsRow
    <2>3. batch'[i] = [b EXCEPT !.advantage = z, !.return = y]
      BY <1>4, <2>1
    <2>4. PICK c : c = [b EXCEPT !.advantage = z, !.return = y]
      OBVIOUS
    <2>5. c.uid = b.uid /\ c.response = b.response /\ c.baseline = b.baseline /\ c.advantage = z /\ c.return = y
      BY ONLY <2>2, <2>4
    <2> QED BY <2>1, <2>3, <2>4, <2>5
  <1>6. Scores' = Scores /\ Columns' = Columns
    <2>1. batch' = [i \in 1..Total |-> batch'[i]]
      BY <1>4
    <2> QED BY <1>1, <1>5, <2>1, ColumnsStay
  <1>7. \A i \in 1..Total : HasAdvantage(batch[i], Columns, i)'
    BY <1>1, <1>5, <1>6 DEF HasAdvantage
  <1> QED BY <1>1, <1>3, <1>6, <1>7 DEF ScoredInv

\* Every step keeps it.
LEMMA ScoredStep ==
    ASSUME BatchAssumption, BatchInv, ScoredInv, [Next]_vars PROVE ScoredInv'
  <1>1. CASE Generate \/ Balance
    BY <1>1 DEF Generate, Balance, ScoredInv
  <1>2. CASE Score
    BY <1>2, ScoredScore
  <1>3. CASE Collect
    BY <1>3, ScoredCollect
  <1>4. CASE ComputeAdvantage
    BY <1>4, ScoredAdvantage
  <1>5. CASE Dispatch \/ (\E r \in Ranks : Rank(r)) \/ UNCHANGED vars
    <2>1. UNCHANGED driverVars
      BY <1>5 DEF Dispatch, Rank, Begin, Agree, Forward, ReturnOutputs, Step, vars
    <2> QED BY <2>1 DEF driverVars, ScoredInv, Scores, Columns, HasAdvantage, Lens
  <1> QED BY <1>1, <1>2, <1>3, <1>4, <1>5 DEF Next, Driver

\* The rows of prompt p
RowsOf(p) == {i \in 1..Total : PromptOf[batch[i].response] = p}

\* Every response is in one row.
LEMMA ResponsesOnce ==
    ASSUME BatchAssumption, Balanced
    PROVE  /\ \A i, j \in 1..Total : batch[i].response = batch[j].response => i = j
           /\ \A x \in 1..Total : \E i \in 1..Total : batch[i].response = x
  <1>1. PICK s : AreShares(s) /\ IsBatch(s)
    BY DEF Balanced, IsFair
  <1>2. IsGrid(Total, DpSize, Share) /\ DpSize \in Nat \ {0} /\ Share \in Nat \ {0}
    BY Sizes
  <1>3. ASSUME NEW i \in 1..Total
        PROVE  \E d \in 1..DpSize : \E j \in 1..Share : i = Cell(Share, d - 1, j)
    <2>1. \A p \in 1..Total : \E g \in 0..DpSize - 1 : \E j \in 1..Share : p = Cell(Share, g, j)
      BY ONLY <1>2, Cells
    <2>2. PICK g \in 0..DpSize - 1 : \E j \in 1..Share : i = Cell(Share, g, j)
      BY <2>1
    <2>3. g + 1 \in 1..DpSize /\ (g + 1) - 1 = g
      BY <1>2
    <2> QED BY <2>2, <2>3
  <1>4. \A d \in 1..DpSize : \A j \in 1..Share : batch[Cell(Share, d - 1, j)].response = s[d][j]
    <2>1. ASSUME NEW b, NEW x, IsRow(b, x) PROVE b.response = x
      BY ONLY IsRow(b, x) DEF IsRow
    <2>2. \A d \in 1..DpSize : \A j \in 1..Share : IsRow(batch[Cell(Share, d - 1, j)], s[d][j])
      BY ONLY <1>1 DEF IsBatch
    <2> QED BY ONLY <2>1, <2>2
  <1>5. IsPartition(s, DpSize, Total) /\ \A d \in 1..DpSize : Len(s[d]) = Share
    BY <1>1 DEF AreShares
  <1>6. ASSUME NEW i \in 1..Total, NEW k \in 1..Total, batch[i].response = batch[k].response
        PROVE  i = k
    <2>1. PICK d \in 1..DpSize : \E j \in 1..Share : i = Cell(Share, d - 1, j)
      BY <1>3
    <2>2. PICK j \in 1..Share : i = Cell(Share, d - 1, j)
      BY <2>1
    <2>3. PICK e \in 1..DpSize : \E l \in 1..Share : k = Cell(Share, e - 1, l)
      BY <1>3
    <2>4. PICK l \in 1..Share : k = Cell(Share, e - 1, l)
      BY <2>3
    <2>5. s[d][j] = s[e][l]
      BY <1>4, <1>6, <2>2, <2>4
    <2>6. \A a, b \in 1..DpSize : \A x \in 1..Len(s[a]), y \in 1..Len(s[b]) :
             s[a][x] = s[b][y] => a = b /\ x = y
      BY ONLY <1>5 DEF IsPartition
    <2>7. d = e /\ j = l
      BY ONLY <1>5, <2>5, <2>6, d \in 1..DpSize, e \in 1..DpSize, j \in 1..Share, l \in 1..Share
    <2> QED BY <2>2, <2>4, <2>7
  <1>7. ASSUME NEW x \in 1..Total PROVE \E i \in 1..Total : batch[i].response = x
    <2>1. \E d \in 1..DpSize : \E j \in 1..Len(s[d]) : s[d][j] = x
      BY <1>5 DEF IsPartition
    <2>2. PICK d \in 1..DpSize : \E j \in 1..Len(s[d]) : s[d][j] = x
      BY <2>1
    <2>3. PICK j \in 1..Share : s[d][j] = x
      BY <1>5, <2>2
    <2>4. Cell(Share, d - 1, j) \in 1..Total
      <3>1. d - 1 \in 0..DpSize - 1
        BY <1>2
      <3> QED BY <1>2, <3>1, Cells
    <2>5. batch[Cell(Share, d - 1, j)].response = x
      BY <1>4, <2>3
    <2> QED BY <2>4, <2>5
  <1> QED BY <1>6, <1>7

\* A prompt has more than one row, if it is answered more than once.
LEMMA SeveralRows ==
    ASSUME BatchAssumption, Balanced, N > 1, NEW p \in 1..Prompts
    PROVE  Cardinality(RowsOf(p)) # 1
  <1>1. Prompts \in Nat \ {0} /\ N \in Nat \ {0} /\ Rows = 1..Total /\ Total \in Nat
    BY Sizes
  <1>2. p - 1 \in 0..Prompts - 1 /\ (p - 1) + 1 = p /\ 1 \in 1..N /\ 2 \in 1..N
    BY <1>1
  <1>3. PICK x, y : x = Cell(N, p - 1, 1) /\ y = Cell(N, p - 1, 2)
    OBVIOUS
  <1>4. x \in 1..Total /\ y \in 1..Total /\ PromptOf[x] = p /\ PromptOf[y] = p
    <2>1. /\ Cell(N, p - 1, 1) \in Rows /\ PromptOf[Cell(N, p - 1, 1)] = (p - 1) + 1
          /\ Cell(N, p - 1, 2) \in Rows /\ PromptOf[Cell(N, p - 1, 2)] = (p - 1) + 1
      BY <1>2, PromptOfRow
    <2> QED BY <1>1, <1>2, <1>3, <2>1
  <1>5. x # y
    <2>1. PICK a \in Int : a = (p - 1) * N
      BY <1>1
    <2>2. x = a + 1 /\ y = a + 2
      BY ONLY <1>3, <2>1 DEF Cell
    <2> QED BY ONLY <2>1, <2>2
  <1>6. PICK i \in 1..Total : batch[i].response = x
    BY <1>4, ResponsesOnce
  <1>7. PICK j \in 1..Total : batch[j].response = y
    BY <1>4, ResponsesOnce
  <1>8. PICK G : G = RowsOf(p)
    OBVIOUS
  <1>9. i \in G /\ j \in G /\ i # j
    BY <1>4, <1>5, <1>6, <1>7, <1>8 DEF RowsOf
  <1>10. IsFiniteSet(G)
    <2>1. PICK T : T = 1..Total
      OBVIOUS
    <2>2. IsFiniteSet(T)
      BY <1>1, <2>1, FS_Interval
    <2>3. G \subseteq T
      BY <1>8, <2>1 DEF RowsOf
    <2> QED BY ONLY <2>2, <2>3, FS_Subset
  <1>11. Cardinality(G) # 1
    <2> SUFFICES ASSUME Cardinality(G) = 1 PROVE FALSE
      OBVIOUS
    <2>1. PICK z : G = {z}
      BY <1>10, FS_Singleton
    <2> QED BY <1>9, <2>1
  <1> QED BY <1>8, <1>11

\* The columns are well-typed, and the group of a row of a prompt are the rows of the prompt.
LEMMA GroupIsRows ==
    ASSUME BatchAssumption, input \in Inputs, Balanced, NEW p
    PROVE  /\ AreColumns(Columns, Total) /\ RowsOf(p) \subseteq 1..Total
           /\ \A i \in RowsOf(p) : Group(Columns.uid, i) = RowsOf(p)
           /\ \A i \in 1..Total : Columns.len[i] = input.len[batch[i].response]
  <1>1. Total \in Nat /\ Len(batch) = Total
    BY Sizes, BatchLength
  <1>2. \A i \in 1..Total : batch[i].response \in 1..Total /\ batch[i].uid = PromptOf[batch[i].response]
    BY BatchResponses
  <1>3. input.len \in [1..Total -> Nat \ {0}] /\ input.score \in [1..Total -> Nat]
    BY InputType
  <1>4. PICK u, v, l : u = Columns.uid /\ v = Columns.score /\ l = Columns.len
    OBVIOUS
  <1>5. /\ u = [i \in 1..Total |-> batch[i].uid] /\ v = [i \in 1..Total |-> input.score[batch[i].response]]
        /\ l = [i \in 1..Total |-> input.len[batch[i].response]]
    BY <1>1, <1>4 DEF Columns, Uids, Lens, Scores
  <1>6. v \in [1..Total -> Int] /\ l \in [1..Total -> Int]
    <2>1. PICK score, len : score = input.score /\ len = input.len
      OBVIOUS
    <2>2. score \in [1..Total -> Nat] /\ len \in [1..Total -> Nat \ {0}]
      BY ONLY <1>3, <2>1
    <2>3. \A i \in 1..Total : score[batch[i].response] \in Int /\ len[batch[i].response] \in Int
      BY ONLY <1>2, <2>2
    <2> QED BY ONLY <1>5, <2>1, <2>3
  <1>7. Len(u) = Total /\ Len(v) = Total
    BY ONLY <1>1, <1>5
  <1>8. AreColumns(Columns, Total)
    BY <1>1, <1>4, <1>6, <1>7 DEF AreColumns
  <1>9. ASSUME NEW i \in RowsOf(p) PROVE Group(u, i) = RowsOf(p)
    <2>1. i \in 1..Total /\ PromptOf[batch[i].response] = p
      BY DEF RowsOf
    <2>2. u[i] = p
      BY <1>2, <1>5, <2>1
    <2>3. \A j \in 1..Total : u[j] = PromptOf[batch[j].response]
      BY <1>2, <1>5
    <2> QED BY <1>7, <2>2, <2>3 DEF Group, RowsOf
  <1> QED BY <1>4, <1>5, <1>8, <1>9 DEF RowsOf

----------------------------------------------------------------------------
(* The advantages of the batch.                                             *)

\* How often the numerator of a row counts
Times(e, len, b) == IF e = "opo" THEN len[b.response] ELSE 1

\* The numerators of the rows in S
RowNumerators(e, len, S) == [b \in S |-> Times(e, len, b) * b.advantage[1]]

\* The sum of AdvantagesCentred
LEMMA NumeratorSum ==
    ASSUME NEW S, NEW e, NEW len, Summable(RowNumerators(e, len, S), S)
    PROVE  MapThenSumSet(LAMBDA b : Times(e, len, b) * b.advantage[1], S) = Iter(RowNumerators(e, len, S))[S]
  <1> DEFINE iter == CHOOSE iter : iter = [s \in SUBSET S |->
                         IF s = {} THEN 0
                         ELSE Times(e, len, CHOOSE x \in s : TRUE) * (CHOOSE x \in s : TRUE).advantage[1]
                              + iter[s \ {CHOOSE x \in s : TRUE}]]
  <1>1. MapThenSumSet(LAMBDA b : Times(e, len, b) * b.advantage[1], S) = iter[S]
    BY DEF MapThenSumSet, MapThenFoldSet
  <1>2. PICK F : F = RowNumerators(e, len, S)
    OBVIOUS
  <1>3. Summable(F, S) /\ \A b \in S : F[b] = Times(e, len, b) * b.advantage[1]
    BY <1>2 DEF RowNumerators
  <1>4. PICK g : PickSums(g, F, S)
    BY <1>3, PickSumsExist
  <1>5. ASSUME NEW h
        PROVE  PickSums(h, F, S) <=>
                 h = [s \in SUBSET S |-> IF s = {} THEN 0
                                         ELSE Times(e, len, Pick(s)) * Pick(s).advantage[1] + h[s \ {Pick(s)}]]
    <2>1. \A s \in SUBSET S :
             (IF s = {} THEN 0 ELSE F[Pick(s)] + h[s \ {Pick(s)}])
              = IF s = {} THEN 0 ELSE Times(e, len, Pick(s)) * Pick(s).advantage[1] + h[s \ {Pick(s)}]
      <3>1. \A s \in SUBSET S : s # {} => Pick(s) \in S
        BY PickIn
      <3>2. \A s \in SUBSET S : s # {} => F[Pick(s)] = Times(e, len, Pick(s)) * Pick(s).advantage[1]
        BY <1>3, <3>1
      <3> QED BY ONLY <3>2
    <2> QED BY ONLY <2>1 DEF PickSums
  <1>6. \E h : h = [s \in SUBSET S |->
                       IF s = {} THEN 0
                       ELSE Times(e, len, CHOOSE x \in s : TRUE) * (CHOOSE x \in s : TRUE).advantage[1]
                            + h[s \ {CHOOSE x \in s : TRUE}]]
    <2>1. g = [s \in SUBSET S |-> IF s = {} THEN 0
                                  ELSE Times(e, len, Pick(s)) * Pick(s).advantage[1] + g[s \ {Pick(s)}]]
      BY <1>4, <1>5
    <2> QED BY ONLY <2>1 DEF Pick
  <1>7. iter = [s \in SUBSET S |->
                   IF s = {} THEN 0
                   ELSE Times(e, len, CHOOSE x \in s : TRUE) * (CHOOSE x \in s : TRUE).advantage[1]
                        + iter[s \ {CHOOSE x \in s : TRUE}]]
    BY ONLY <1>6 DEF iter
  <1> HIDE DEF iter
  <1>8. PickSums(iter, F, S)
    <2>1. iter = [s \in SUBSET S |-> IF s = {} THEN 0
                                     ELSE Times(e, len, Pick(s)) * Pick(s).advantage[1] + iter[s \ {Pick(s)}]]
      BY ONLY <1>7 DEF Pick
    <2> QED BY <1>5, <2>1
  <1>9. iter[S] = Iter(F)[S]
    BY <1>3, <1>8, PickSumsAdd
  <1> QED BY <1>1, <1>2, <1>9

\* The invariants imply AdvantagesCentred.
LEMMA AdvantagesAddUp ==
    ASSUME BatchAssumption, BatchInv, ScoredInv PROVE AdvantagesCentred
  <1> SUFFICES ASSUME phase = "done", N > 1, input.estimator \notin {"remax", "grpo_passk"},
                      NEW p \in 1..Prompts
               PROVE  LET of == {b \in ToSet(batch) : PromptOf[b.response] = p}
                          weight(b) == IF input.estimator = "opo" THEN input.len[b.response] ELSE 1
                      IN  /\ \A b, c \in of : b.advantage[2] = c.advantage[2]
                          /\ MapThenSumSet(LAMBDA b : weight(b) * b.advantage[1], of) = 0
    BY DEF AdvantagesCentred
  <1>1. Balanced /\ input \in Inputs
    BY DEF BatchInv
  <1>2. PICK e, len, of : /\ e = input.estimator /\ len = input.len
                          /\ of = {b \in ToSet(batch) : PromptOf[b.response] = p}
    OBVIOUS
  <1>3. e \in Comparing
    BY <1>1, <1>2 DEF BatchAssumption, Comparing
  <1>4. PICK b, G, n : b = Columns /\ G = RowsOf(p) /\ n = Total
    OBVIOUS
  <1>5. /\ AreColumns(b, n) /\ G \subseteq 1..n /\ \A i \in G : Group(b.uid, i) = G
        /\ \A i \in G : b.len[i] = len[batch[i].response]
    BY <1>1, <1>2, <1>4, GroupIsRows
  <1>6. Cardinality(G) # 1
    BY <1>1, <1>4, SeveralRows
  <1>7. /\ Summable(Numerators(e, b, G), G) /\ Iter(Numerators(e, b, G))[G] = 0
        /\ \A i, j \in G : Advantage(e, b, i)[2] = Advantage(e, b, j)[2]
    BY ONLY <1>3, <1>5, <1>6, GroupCentred
  <1>8. \A i \in G : batch[i].advantage = Advantage(e, b, i)
    BY <1>2, <1>4 DEF ScoredInv, HasAdvantage, RowsOf
  <1>9. PICK h : h = [i \in G |-> batch[i]]
    OBVIOUS
  <1>10. of = ImageOf(h, G)
    <2>1. ToSet(batch) = {batch[i] : i \in 1..Total}
      <3>1. DOMAIN batch = 1..Total
        BY <1>1, BatchLength
      <3> QED BY ONLY <3>1 DEF ToSet
    <2> QED BY <1>2, <1>4, <1>9, <2>1 DEF ImageOf, RowsOf
  <1>11. \A i, j \in G : h[i] = h[j] => i = j
    BY <1>1, <1>4, <1>9, ResponsesOnce DEF RowsOf
  <1>12. PICK F, H : F = RowNumerators(e, len, of) /\ H = Numerators(e, b, G)
    OBVIOUS
  <1>13. ASSUME NEW i \in G PROVE H[i] = F[h[i]] /\ h[i] \in of /\ H[i] \in Int
    <2>1. h[i] = batch[i] /\ h[i] \in of
      BY <1>9, <1>10 DEF ImageOf
    <2>2. F[h[i]] = Times(e, len, h[i]) * h[i].advantage[1]
      BY <1>12, <2>1 DEF RowNumerators
    <2>3. H[i] = Counts(e, b, G)[i] * Advantage(e, b, i)[1]
      BY <1>12 DEF Numerators
    <2>4. Counts(e, b, G)[i] = Times(e, len, h[i])
      BY <1>5, <2>1 DEF Counts, Times
    <2>5. h[i].advantage = Advantage(e, b, i)
      BY <1>8, <2>1
    <2>6. H[i] \in Int
      BY <1>7, <1>12 DEF Summable
    <2> QED BY ONLY <2>1, <2>2, <2>3, <2>4, <2>5, <2>6
  <1>14. Summable(F, of)
    <2>1. IsFiniteSet(G)
      BY <1>7 DEF Summable
    <2>2. IsFiniteSet(of)
      <3>1. of = {h[i] : i \in G}
        BY <1>10 DEF ImageOf
      <3>2. IsImage(of, h, G)
        BY <1>9, <3>1 DEF IsImage
      <3> QED BY <2>1, <3>2, ImageFinite
    <2>3. ASSUME NEW x \in of PROVE F[x] \in Int
      <3>1. PICK i \in G : x = h[i]
        BY <1>10 DEF ImageOf
      <3> QED BY <1>13, <3>1
    <2>4. F = [x \in of |-> F[x]]
      BY <1>12 DEF RowNumerators
    <2>5. F \in [of -> Int]
      BY ONLY <2>3, <2>4
    <2> QED BY <2>2, <2>5 DEF Summable
  <1>15. Renames(h, H, G, F, of)
    <2>1. h \in [G -> of]
      BY <1>9, <1>13
    <2> QED BY <1>7, <1>11, <1>12, <1>13, <1>14, <2>1 DEF Renames
  <1>16. Iter(F)[of] = 0
    <2>1. G \subseteq G
      OBVIOUS
    <2>2. Iter(H)[G] = Iter(F)[ImageOf(h, G)]
      BY ONLY <1>15, <2>1, SumRenamed
    <2> QED BY <1>7, <1>10, <1>12, <2>2
  <1>17. MapThenSumSet(LAMBDA x : Times(input.estimator, input.len, x) * x.advantage[1], of) = 0
    <2>1. Summable(RowNumerators(input.estimator, input.len, of), of)
      BY <1>2, <1>12, <1>14
    <2>2. Iter(RowNumerators(input.estimator, input.len, of))[of] = 0
      BY <1>2, <1>12, <1>16
    <2> QED BY ONLY <2>1, <2>2, NumeratorSum
  <1>18. \A x, y \in of : x.advantage[2] = y.advantage[2]
    <2> SUFFICES ASSUME NEW x \in of, NEW y \in of PROVE x.advantage[2] = y.advantage[2]
      OBVIOUS
    <2>1. PICK i \in G : x = h[i]
      BY <1>10 DEF ImageOf
    <2>2. PICK j \in G : y = h[j]
      BY <1>10 DEF ImageOf
    <2> QED BY <1>7, <1>8, <1>9, <2>1, <2>2
  <1>19. MapThenSumSet(LAMBDA x : (IF input.estimator = "opo" THEN input.len[x.response] ELSE 1)
                                    * x.advantage[1], of) = 0
    BY ONLY <1>17 DEF Times
  <1> QED BY ONLY <1>2, <1>18, <1>19

----------------------------------------------------------------------------
(* The specification.                                                       *)

\* The inductive invariant: the batch, the ranks in step, their outputs, the columns and
\* the rewards
BatchFlowInv == BatchInv /\ RanksInv /\ OutInv /\ ColumnsInv /\ ScoredInv

\* What the state is in every phase and wherever the ranks are in a call: all the
\* other theorems follow from it.
THEOREM BatchFlowInvHolds == Spec => []BatchFlowInv
  <1>1. Init => BatchFlowInv
    BY BatchAssumption, BatchInit, RanksInit, OutInit, ColumnsInit, ScoredInit DEF BatchFlowInv
  <1>2. BatchFlowInv /\ [Next]_vars => BatchFlowInv'
    <2> SUFFICES ASSUME BatchFlowInv, [Next]_vars PROVE BatchFlowInv'
      OBVIOUS
    <2>1. BatchInv /\ RanksInv /\ OutInv /\ ColumnsInv /\ ScoredInv
      BY DEF BatchFlowInv
    <2>2. BatchInv'
      BY <2>1, BatchAssumption, BatchStep
    <2>3. RanksInv'
      BY <2>1, BatchAssumption, RanksStep
    <2>4. OutInv'
      BY <2>1, <2>3, BatchAssumption, OutStep
    <2>5. ColumnsInv'
      BY <2>1, BatchAssumption, ColumnsStep
    <2>6. ScoredInv'
      BY <2>1, BatchAssumption, ScoredStep
    <2> QED BY <2>2, <2>3, <2>4, <2>5, <2>6 DEF BatchFlowInv
  <1> QED BY <1>1, <1>2, PTL DEF Spec

\* Balancing loses no row and gives every rank as many; a prompt stays whole, or loads
\* differ by no more than two rows do that are neighbours when sorted.
THEOREM SharesStayFair == Spec => []SharesAreFair
  <1>1. BatchFlowInv => SharesAreFair
    BY BatchAssumption, FairShares DEF BatchFlowInv
  <1> QED BY <1>1, BatchFlowInvHolds, PTL

\* Log probabilities and values stand in the rows they were computed for, through
\* balancing, dispatch, micro-batches and collection.
THEOREM ColumnsStayInRows == Spec => []RowsInPlace
  <1>1. BatchFlowInv => RowsInPlace
    BY BatchAssumption, RowsStayInPlace DEF BatchFlowInv
  <1> QED BY <1>1, BatchFlowInvHolds, PTL

\* No rank waits for ever in a collective operation that the others do not call.
THEOREM RanksAreNeverStuck == Spec => []RanksGoOn
  <1>1. BatchFlowInv => RanksGoOn
    BY BatchAssumption, RanksDoGoOn DEF BatchFlowInv
  <1> QED BY <1>1, BatchFlowInvHolds, PTL

\* An estimator that compares a row with the others of its prompt gives a prompt
\* advantages that add up to 0 (OPO: weighted by the lengths), whatever place its rows
\* have in the balanced batch.
THEOREM AdvantagesStayCentred == Spec => []AdvantagesCentred
  <1>1. BatchFlowInv => AdvantagesCentred
    BY BatchAssumption, AdvantagesAddUp DEF BatchFlowInv
  <1> QED BY <1>1, BatchFlowInvHolds, PTL
=============================================================================
