-------------------------- MODULE SeqlenBalancing --------------------------
(***************************************************************************)
(* utils/seqlen_balancing.py: how rows of unequal length are divided among *)
(* data parallel ranks and among micro-batches.  Rows are positions of a   *)
(* sequence of lengths, counted from 1; a part is a sequence of positions. *)
(***************************************************************************)
EXTENDS Integers, SequencesExt

\* What a row of n tokens costs, up to a factor: attention is quadratic.
Workload(n) == 24576 * n + n * n

Workloads(lens) == [i \in DOMAIN lens |-> Workload(lens[i])]

\* The sum of the weights w of the positions in part
Weight(w, part) == FoldLeft(LAMBDA sum, i : sum + w[i], 0, part)

CeilDiv(a, b) == (a + b - 1) \div b

\* sorted(s), which is stable: an element comes after all that are less, and after its
\* equals further left.
Sorted(s, Less(_, _)) ==
    LET place == [i \in 1..Len(s) |->
                    1 + Cardinality({j \in 1..Len(s) :
                                       Less(s[j], s[i]) \/ (~Less(s[i], s[j]) /\ j < i)})]
    IN  SubSeq([p \in 1..Len(s) |-> s[CHOOSE i \in 1..Len(s) : place[i] = p]], 1, Len(s))

EveryOther(s, from) == [i \in 1..(Len(s) - from) \div 2 + 1 |-> s[from + 2 * (i - 1)]]

----------------------------------------------------------------------------
(* The differencing method of Karmarkar and Karp.  A set is a part and its  *)
(* weight; a state is a sequence of k disjoint sets, heaviest first.        *)

\* Set.__lt__: disjoint sets differ in their first position at the latest.
Lighter(p, q) ==
    \/ p.sum < q.sum
    \/ /\ p.sum = q.sum
       /\ \/ Len(p.items) < Len(q.items)
          \/ Len(p.items) = Len(q.items) /\ p.items # <<>> /\ p.items[1] < q.items[1]

HeaviestFirst(state) == Sorted(state, LAMBDA p, q : Lighter(q, p))

Joined(p, q) == [sum |-> p.sum + q.sum, items |-> p.items \o q.items]

\* Mutant of Merged: heavy joins heavy.
MergedStraight(s, t) == HeaviestFirst([i \in 1..Len(s) |-> Joined(s[i], t[i])])

\* The lightest set of one state joins the heaviest of the other.
Merged(s, t) ==
    LET k == Len(s) IN HeaviestFirst([i \in 1..k |-> Joined(s[i], t[k + 1 - i])])

Spread(s) == s[1].sum - s[Len(s)].sum

\* State.__lt__, the order of the heap
Before(s, t) ==
    Spread(s) > Spread(t) \/ (Spread(s) = Spread(t) /\ Lighter(t[1], s[1]))

Ascending(w) ==
    Sorted([i \in 1..Len(w) |-> i], LAMBDA i, j : w[i] < w[j] \/ (w[i] = w[j] /\ i < j))

Single(w, i) == [sum |-> w[i], items |-> <<i>>]

\* k neighbours of the sorted list each, or one position each
FirstStates(w, k, equalSize) ==
    IF equalSize
    THEN LET up == Ascending(w)
         IN  {HeaviestFirst([j \in 1..k |-> Single(w, up[g * k + j])]) : g \in 0..(Len(w) \div k) - 1}
    ELSE {[j \in 1..k |-> IF j = 1 THEN Single(w, i) ELSE [sum |-> 0, items |-> <<>>]] :
             i \in 1..Len(w)}

KarmarkarKarp(w, k, equalSize) ==
    LET start == FirstStates(w, k, equalSize)
        Top(S) == CHOOSE s \in S : \A t \in S \ {s} : Before(s, t)
        Pop2(S) == LET s == Top(S)
                       t == Top(S \ {s})
                   IN  (S \ {s, t}) \cup {Merged(s, t)}
        merge[i \in 0..Cardinality(start) - 1] ==
            IF i = 0 THEN start ELSE Pop2(merge[i - 1])
        final == Top(merge[Cardinality(start) - 1])
    IN  [i \in 1..k |-> final[i].items]

\* get_seqlen_balanced_partitions: every part in ascending order
BalancedPartitions(w, k, equalSize) ==
    LET parts == KarmarkarKarp(w, k, equalSize) IN [i \in 1..k |-> Sorted(parts[i], <)]

\* get_group_balanced_partitions: the rows of a uid, which are neighbours, stay
\* together, and every part gets as many uids.
GroupBalancedPartitions(w, uid, k) ==
    LET starts == Sorted(SetToSeq({i \in 1..Len(uid) : i = 1 \/ uid[i] # uid[i - 1]}), <)
        next(g) == IF g < Len(starts) THEN starts[g + 1] ELSE Len(uid) + 1
        Group(g) == [i \in 1..next(g) - starts[g] |-> starts[g] + i - 1]
        groupWeight == [g \in 1..Len(starts) |-> Weight(w, Group(g))]
        parts == BalancedPartitions(groupWeight, k, TRUE)
    IN  [p \in 1..k |-> Sorted(FlattenSeq([g \in 1..Len(parts[p]) |-> Group(parts[p][g])]), <)]

----------------------------------------------------------------------------
(* Micro-batches of at most maxTokens tokens or so.                         *)

MicroBatchNumber(lens, maxTokens) ==
    LET needed == CeilDiv(Weight(lens, [i \in 1..Len(lens) |-> i]), maxTokens)
    IN  IF needed < Len(lens) THEN needed ELSE Len(lens)

\* rearrange_micro_batches, once the number is known: heavy ones in the middle
MicroBatches(lens, number) ==
    LET w == Workloads(lens)
        first(p) == IF p = <<>> THEN 0 ELSE p[1]
        heavyFirst == Sorted(BalancedPartitions(w, number, FALSE),
                             LAMBDA p, q : \/ Weight(w, p) > Weight(w, q)
                                           \/ Weight(w, p) = Weight(w, q) /\ first(p) > first(q))
    IN  Reverse(EveryOther(heavyFirst, 1)) \o EveryOther(heavyFirst, 2)

\* get_reverse_idx of a permutation
ReverseIdx(indices) == [j \in 1..Len(indices) |-> CHOOSE i \in 1..Len(indices) : indices[i] = j]

\* Mutant of Restored: indexed with the permutation and not with its inverse.
RestoredForward(out, parts) ==
    LET idx == FlattenSeq(parts) IN [j \in 1..Len(out) |-> out[idx[j]]]

\* restore_dynamic_batch: outputs in the order of the micro-batches, put back
Restored(out, parts) ==
    LET back == ReverseIdx(FlattenSeq(parts)) IN [j \in 1..Len(out) |-> out[back[j]]]
=============================================================================
