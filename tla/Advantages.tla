----------------------------- MODULE Advantages -----------------------------
(***************************************************************************)
(* The outcome advantages of trainer/ppo/core_algos.py that compare a row  *)
(* with the other rows of its prompt.  Columns of a batch are sequences; an *)
(* advantage is a fraction <<numerator, denominator>>.  Whitening and the  *)
(* division by a standard deviation are left out                           *)
(* (norm_adv_by_std_in_grpo = False).                                      *)
(***************************************************************************)
EXTENDS Integers, Sequences, FiniteSetsExt

\* Mutant of Group: the rows of a prompt are taken for neighbours.
GroupOfNeighbours(uid, i) ==
    LET n == Cardinality({j \in 1..Len(uid) : uid[j] = uid[i]})
    IN  {j \in 1..Len(uid) : (j - 1) \div n = (i - 1) \div n}

Group(uid, i) == {j \in 1..Len(uid) : uid[j] = uid[i]}

Sum(f, S) == MapThenSumSet(LAMBDA j : f[j], S)

\* The score less the mean of the group; a single row has the mean 0.
GrpoAdvantage(uid, score, i) ==
    LET G == Group(uid, i)
        n == Cardinality(G)
    IN  IF n = 1 THEN <<score[i], 1>> ELSE <<n * score[i] - Sum(score, G), n>>

\* The score less the mean of the others; alone, the score itself ...
RlooAdvantage(uid, score, i) ==
    LET G == Group(uid, i)
        n == Cardinality(G)
    IN  IF n = 1 THEN <<score[i], 1>> ELSE <<n * score[i] - Sum(score, G), n - 1>>

\* ... or nothing.
RlooVectorizedAdvantage(uid, score, i) ==
    LET G == Group(uid, i)
        n == Cardinality(G)
    IN  IF n = 1 THEN <<0, 1>> ELSE <<n * score[i] - Sum(score, G), n - 1>>

\* The baseline is the mean weighted by the response lengths.
OpoAdvantage(uid, score, len, i) ==
    LET G == Group(uid, i)
        tokens == Sum(len, G)
    IN  IF Cardinality(G) = 1
        THEN <<score[i], 1>>
        ELSE <<tokens * score[i] - Sum([j \in G |-> len[j] * score[j]], G), tokens>>

\* GRPO without the deviation, scaled by rows over rows with a score
GpgAdvantage(uid, score, i) ==
    LET scored == Cardinality({j \in 1..Len(score) : score[j] # 0})
        grpo == GrpoAdvantage(uid, score, i)
    IN  <<Len(score) * grpo[1], grpo[2] * (IF scored = 0 THEN 1 ELSE scored)>>

\* Only the best row of a group gets anything: its lead over the second best.
PasskAdvantage(uid, score, i) ==
    LET others == {score[j] : j \in Group(uid, i) \ {i}}
    IN  <<IF score[i] > Max(others) THEN score[i] - Max(others) ELSE 0, 1>>

\* The outcome estimators, by name
Estimators == {"grpo", "grpo_vectorized", "rloo", "rloo_vectorized", "opo", "gpg",
               "grpo_passk", "remax"}

\* b has the columns uid, score, len and baseline (the score of a greedy response).
Advantage(estimator, b, i) ==
    CASE estimator \in {"grpo", "grpo_vectorized"} -> GrpoAdvantage(b.uid, b.score, i)
      [] estimator = "rloo" -> RlooAdvantage(b.uid, b.score, i)
      [] estimator = "rloo_vectorized" -> RlooVectorizedAdvantage(b.uid, b.score, i)
      [] estimator = "opo" -> OpoAdvantage(b.uid, b.score, b.len, i)
      [] estimator = "gpg" -> GpgAdvantage(b.uid, b.score, i)
      [] estimator = "grpo_passk" -> PasskAdvantage(b.uid, b.score, i)
      [] estimator = "remax" -> <<b.score[i] - b.baseline[i], 1>>

\* What a critic learns: the advantage, save for ReMax.
Return(estimator, b, i) ==
    IF estimator = "remax" THEN <<b.score[i], 1>> ELSE Advantage(estimator, b, i)
=============================================================================
