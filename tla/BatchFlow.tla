----------------------------- MODULE BatchFlow -----------------------------
(***************************************************************************)
(* One training batch of RayPPOTrainer.fit, from prompts to gradients: the *)
(* agent loop workers generate, the driver balances, the reward workers    *)
(* score; the batch is dispatched to the ranks of the actor and the critic *)
(* for log probabilities and values, collected, given advantages, and      *)
(* dispatched again to be trained on, mini-batch by mini-batch.  A rank    *)
(* runs micro-batches in step with all others: every forward pass gathers  *)
(* sharded weights from all of them.                                       *)
(*                                                                         *)
(* A row of the batch is a record with its columns.  A response is a       *)
(* number, and what a model computes for a response is named by it.  A     *)
(* row's prompt tokens are counted with its response, and every row has a  *)
(* response.  The gradient of an optimizer step is, for each row, the      *)
(* coefficient of its tokens in the loss, a fraction.                      *)
(***************************************************************************)
EXTENDS SeqlenBalancing, Advantages

CONSTANTS
    Prompts,        \* train_batch_size
    N,              \* rollout.n
    AgentWorkers,   \* agent loop workers
    RewardWorkers,  \* reward loop workers
    DpSize, SpSize, \* the device mesh of actor and critic: data x sequence parallel
    MiniPrompts,    \* ppo_mini_batch_size
    MaxTokens,      \* ppo_max_token_len_per_gpu * SpSize
    InferTokens,    \* log_prob_max_token_len_per_gpu * SpSize
    MicroRows,      \* micro_batch_size_per_gpu
    Epochs,         \* ppo_epochs
    LossScale,      \* loss_scale_factor, or the width of the padded responses
    Inputs          \* the batches and settings to look at

LossModes == {"token-mean", "seq-mean-token-sum", "seq-mean-token-mean", "seq-mean-token-sum-norm"}

Rows == 1..Prompts * N
Ranks == 1..DpSize * SpSize
MiniRows == (MiniPrompts * N) \div DpSize

ASSUME BatchAssumption ==
    /\ \A c \in {Prompts, N, AgentWorkers, RewardWorkers, DpSize, SpSize, MiniPrompts,
                 MaxTokens, InferTokens, MicroRows, Epochs, LossScale} : c \in Nat \ {0}
    /\ Prompts % AgentWorkers = 0 /\ (Prompts * N) % RewardWorkers = 0
    /\ (Prompts * N) % DpSize = 0 /\ (MiniPrompts * N) % DpSize = 0
    /\ Prompts % MiniPrompts = 0 /\ MiniRows % MicroRows = 0
    /\ \A in \in Inputs :
           /\ in.len \in [Rows -> 1..MaxTokens] /\ in.score \in [Rows -> Nat]
           /\ in.baseline \in [1..Prompts -> Nat]
           /\ {in.dynamic, in.grouper, in.legacy, in.ref, in.critic} \subseteq BOOLEAN
           /\ in.grouper => Prompts % DpSize = 0
           /\ in.estimator \in Estimators /\ (in.estimator = "grpo_passk" => N > 1)
           /\ in.mode \in LossModes

VARIABLES
    input,   \* responses and scores to come, and the settings
    phase,   \* what the driver is doing
    batch,   \* its batch, a sequence of rows
    reward,  \* reward_tensor, or the future of it
    pc,      \* [Ranks -> what a rank is doing]
    calls,   \* [Ranks -> collective operations called so far]
    data,    \* [Ranks -> rows dispatched to a rank]
    mini,    \* [Ranks -> mini-batches done in this call]
    number,  \* [Ranks -> micro-batches needed for the mini-batch]
    micro,   \* [Ranks -> micro-batches of the mini-batch]
    run,     \* [Ranks -> how many of them have been run]
    out,     \* [Ranks -> outputs of the micro-batches run, in their order]
    grads    \* [Ranks -> gradients of the optimizer steps]

driverVars == <<input, phase, batch, reward>>
rankVars == <<pc, calls, data, mini, number, micro, run, out, grads>>
vars == <<driverVars, rankVars>>

Inference == {"old_log_prob", "ref_log_prob", "values"}
Updates == {"update_critic", "update_actor"}

Init ==
    /\ input \in Inputs
    /\ phase = "generate"
    /\ batch = [p \in 1..Prompts |->
                  [uid |-> p, response |-> 0, baseline |-> 0, old_log_prob |-> 0,
                   ref_log_prob |-> 0, values |-> 0, advantage |-> <<0, 1>>, return |-> <<0, 1>>]]
    /\ reward = <<>>
    /\ pc = [r \in Ranks |-> "idle"]
    /\ calls = [r \in Ranks |-> 0]
    /\ data = [r \in Ranks |-> <<>>]
    /\ mini = [r \in Ranks |-> 0]
    /\ number = [r \in Ranks |-> 0]
    /\ micro = [r \in Ranks |-> <<>>]
    /\ run = [r \in Ranks |-> 0]
    /\ out = [r \in Ranks |-> <<>>]
    /\ grads = [r \in Ranks |-> <<>>]

----------------------------------------------------------------------------
(* The driver                                                               *)

\* repeat(N, interleave=True): the rows of a prompt are neighbours.
Repeated(seq) == [i \in 1..Len(seq) * N |-> seq[(i - 1) \div N + 1]]

\* chunk(k)
Chunk(seq, k, w) ==
    LET size == Len(seq) \div k IN SubSeq(seq, (w - 1) * size + 1, w * size)

\* k workers take a chunk each; what they return is concatenated.
ByWorkers(seq, k, F(_)) ==
    FlattenSeq([w \in 1..k |-> [i \in 1..Len(Chunk(seq, k, w)) |-> F(Chunk(seq, k, w)[i])]])

\* The prompt of a response: the generation batch is repeated before it is sent.
PromptOf == Repeated([p \in 1..Prompts |-> p])

\* For ReMax the prompts are answered greedily as well.
Generate ==
    /\ phase = "generate"
    /\ LET greedy == ByWorkers(batch, AgentWorkers, LAMBDA b : input.baseline[b.uid])
           sampled == ByWorkers([x \in 1..Prompts * N |-> x], AgentWorkers, LAMBDA x : x)
           based == IF input.estimator = "remax"
                    THEN [p \in 1..Prompts |-> [batch[p] EXCEPT !.baseline = greedy[p]]]
                    ELSE batch
       IN  batch' = [i \in 1..Prompts * N |-> [Repeated(based)[i] EXCEPT !.response = sampled[i]]]
    /\ phase' = "balance"
    /\ UNCHANGED <<input, reward, rankVars>>

Lens(seq) == [i \in 1..Len(seq) |-> input.len[seq[i].response]]
Uids(seq) == [i \in 1..Len(seq) |-> seq[i].uid]

\* Light rows at both ends of a rank's share
LightOutside(w, part) ==
    LET up == Sorted(part, LAMBDA i, j : w[i] < w[j] \/ (w[i] = w[j] /\ i < j))
    IN  EveryOther(up, 1) \o Reverse(EveryOther(up, 2))

BalancedShares(seq) ==
    LET w == Workloads(Lens(seq))
    IN  IF input.grouper
        THEN GroupBalancedPartitions(w, Uids(seq), DpSize)
        ELSE LET parts == BalancedPartitions(w, DpSize, TRUE)
             IN  [d \in 1..DpSize |-> LightOutside(w, parts[d])]

\* _balance_batch
Balance ==
    /\ phase = "balance"
    /\ LET order == FlattenSeq(BalancedShares(batch))
       IN  batch' = [i \in 1..Len(order) |-> batch[order[i]]]
    /\ phase' = "reward"
    /\ UNCHANGED <<input, reward, rankVars>>

\* Scores come from the reward loop workers, at once or as a future, and are joined
\* with the batch when advantages are computed.
Score ==
    /\ phase = "reward"
    /\ reward' = ByWorkers(batch, RewardWorkers, LAMBDA b : input.score[b.response])
    /\ phase' = "old_log_prob"
    /\ UNCHANGED <<input, batch, rankVars>>

\* What follows a phase that the ranks carry out
After(p) ==
    CASE p = "update_critic" -> "update_actor"
      [] p = "update_actor" -> "done"
      [] p \in Inference ->
           IF p = "old_log_prob" /\ input.ref THEN "ref_log_prob"
           ELSE IF p # "values" /\ input.critic THEN "values"
           ELSE "advantage"

DpRank(r) == (r - 1) \div SpSize + 1

Collects(r) == (r - 1) % SpSize = 0

Idle == \A r \in Ranks : pc[r] = "idle"
AllReturned == \A r \in Ranks : pc[r] = "returned"

Dispatch ==
    /\ phase \in Inference \cup Updates /\ Idle
    /\ data' = [r \in Ranks |-> Chunk(batch, DpSize, DpRank(r))]
    /\ pc' = [r \in Ranks |-> "start"]
    /\ mini' = [r \in Ranks |-> 0]
    /\ out' = [r \in Ranks |-> <<>>]
    /\ UNCHANGED <<driverVars, calls, number, micro, run, grads>>

\* The outputs of the ranks that collect, one after the other, become a column; an
\* update returns metrics only.
Collect ==
    /\ phase \in Inference \cup Updates /\ AllReturned
    /\ LET column == FlattenSeq([r \in Ranks |-> IF Collects(r) THEN out[r] ELSE <<>>])
       IN  batch' = IF phase \in Updates THEN batch
                    ELSE [i \in 1..Len(batch) |-> [batch[i] EXCEPT ![phase] = column[i]]]
    /\ phase' = After(phase)
    /\ pc' = [r \in Ranks |-> "idle"]
    /\ UNCHANGED <<input, reward, calls, data, mini, number, micro, run, out, grads>>

\* compute_advantage, on the driver
ComputeAdvantage ==
    /\ phase = "advantage"
    /\ LET b == [uid |-> Uids(batch), score |-> reward, len |-> Lens(batch),
                 baseline |-> [i \in 1..Len(batch) |-> batch[i].baseline]]
       IN  batch' = [i \in 1..Len(batch) |->
                       [batch[i] EXCEPT !.advantage = Advantage(input.estimator, b, i),
                                        !.return = Return(input.estimator, b, i)]]
    /\ phase' = IF input.critic THEN "update_critic" ELSE "update_actor"
    /\ UNCHANGED <<input, reward, rankVars>>

----------------------------------------------------------------------------
(* A rank                                                                   *)

\* The rows of a call for log probabilities or values at once; for the update those of
\* one mini-batch, the mini-batches of an epoch in their order.
Mini(r, m) ==
    IF phase \in Inference
    THEN data[r]
    ELSE LET k == m % (Len(data[r]) \div MiniRows)
         IN  SubSeq(data[r], k * MiniRows + 1, (k + 1) * MiniRows)

MiniBatch(r) == Mini(r, mini[r])

MiniBatchesInCall(r) ==
    IF phase \in Inference THEN 1 ELSE Epochs * (Len(data[r]) \div MiniRows)

Lengths(r) == Lens(MiniBatch(r))

TokenLimit == IF phase \in Inference THEN InferTokens ELSE MaxTokens

FixedMicroBatches(rowCount) ==
    [m \in 1..rowCount \div MicroRows |-> [i \in 1..MicroRows |-> (m - 1) * MicroRows + i]]

\* A mini-batch begins: the rank reports how many micro-batches its rows need to
\* an all-reduce, or cuts them into pieces of a fixed size.
Begin(r) ==
    /\ pc[r] = "start"
    /\ calls' = [calls EXCEPT ![r] = @ + 1]
    /\ IF input.dynamic
       THEN /\ number' = [number EXCEPT ![r] = MicroBatchNumber(Lengths(r), TokenLimit)]
            /\ pc' = [pc EXCEPT ![r] = "agree"]
            /\ UNCHANGED <<micro, run>>
       ELSE /\ micro' = [micro EXCEPT ![r] = FixedMicroBatches(Len(MiniBatch(r)))]
            /\ run' = [run EXCEPT ![r] = 0]
            /\ pc' = [pc EXCEPT ![r] = "forward"]
            /\ UNCHANGED number
    /\ UNCHANGED <<driverVars, data, mini, out, grads>>

Collectives == {"agree", "forward"}

\* The collective operation a rank is in completes when all ranks have called it:
\* they are in it, or have left it.
Completes(r) ==
    \A q \in Ranks : calls[q] >= calls[r] /\ (calls[q] = calls[r] /\ pc[q] \in Collectives
                                                 => pc[q] = pc[r])

\* Mutant of Agreed: a rank goes by what it needs itself.
AgreedLocally(r) == number[r]

\* Everyone cuts its rows into as many micro-batches as the one with most needs.
Agreed(r) == CHOOSE n \in {number[q] : q \in Ranks} : \A q \in Ranks : number[q] <= n

Agree(r) ==
    /\ pc[r] = "agree" /\ Completes(r)
    /\ micro' = [micro EXCEPT ![r] = MicroBatches(Lengths(r), Agreed(r))]
    /\ run' = [run EXCEPT ![r] = 0]
    /\ pc' = [pc EXCEPT ![r] = "forward"]
    /\ calls' = [calls EXCEPT ![r] = @ + 1]
    /\ UNCHANGED <<driverVars, data, mini, number, out, grads>>

\* The next micro-batch of the mini-batch
Forward(r) ==
    /\ pc[r] = "forward" /\ Completes(r)
    /\ run' = [run EXCEPT ![r] = @ + 1]
    /\ LET part == micro[r][run'[r]]
       IN  out' = [out EXCEPT ![r] = @ \o
                        [i \in 1..Len(part) |-> MiniBatch(r)[part[i]].response]]
    /\ IF run'[r] < Len(micro[r])
       THEN calls' = [calls EXCEPT ![r] = @ + 1] /\ UNCHANGED pc
       ELSE pc' = [pc EXCEPT ![r] = "end"] /\ UNCHANGED calls
    /\ UNCHANGED <<driverVars, data, mini, number, micro, grads>>

\* compute_log_prob and compute_values return outputs in the order of their rows.
ReturnOutputs(r) ==
    /\ pc[r] = "end" /\ phase \in Inference
    /\ out' = [out EXCEPT ![r] = IF input.dynamic THEN Restored(@, micro[r]) ELSE @]
    /\ pc' = [pc EXCEPT ![r] = "returned"]
    /\ UNCHANGED <<driverVars, calls, data, mini, number, micro, run, grads>>

Tokens(r, part) == Weight(Lengths(r), part)

\* batch_num_tokens, summed over the data parallel ranks before the mini-batch is cut
GlobalTokens(r) ==
    MapThenSumSet(LAMBDA d : FoldLeft(LAMBDA n, item : n + input.len[item.response], 0,
                                      Mini((d - 1) * SpSize + 1, mini[r])), 1..DpSize)

\* What agg_loss divides a sum over tokens by
LossSize(tokens, rowCount) ==
    CASE input.mode = "token-mean" -> tokens
      [] input.mode = "seq-mean-token-sum-norm" -> LossScale
      [] OTHER -> rowCount

\* A sum over the tokens of a row may be a mean.
RowSize(row) == IF input.mode = "seq-mean-token-mean" THEN input.len[row.response] ELSE 1

\* Mutant of Coefficient: every micro-batch counts the same.
CoefficientPerMicroBatch(r, part) ==
    <<1, Len(micro[r]) * LossSize(Tokens(r, part), Len(part))>>

\* The loss over a micro-batch and the factor it is scaled with.  The legacy workers
\* know the micro-batch only; the engine workers give agg_loss the size of the
\* mini-batch of all ranks for the policy, and nothing for the values.  A loss that is
\* divided by a fixed scale is not multiplied by the number of ranks.
Coefficient(r, part) ==
    LET size == LossSize(Tokens(r, part), Len(part))
        globalSize == LossSize(GlobalTokens(r), MiniRows * DpSize)
        ranks == IF input.mode = "seq-mean-token-sum-norm" THEN 1 ELSE DpSize
    IN  CASE ~input.legacy /\ phase = "update_actor" -> <<ranks, globalSize>>
          [] ~input.legacy /\ phase = "update_critic" -> <<1, size>>
          [] input.legacy /\ input.dynamic -> <<Len(part), MiniRows * size>>
          [] OTHER -> <<1, (MiniRows \div MicroRows) * size>>

PartOf(r, i) == CHOOSE part \in ToSet(micro[r]) : i \in ToSet(part)

\* The policy is moved along the advantages, the values towards the returns.
Target(row) == IF phase = "update_actor" THEN row.advantage ELSE row.return

\* The optimizer's step: gradients are averaged over the data parallel ranks.
Step(r) ==
    /\ pc[r] = "end" /\ phase \in Updates
    /\ LET coefficient(i) == Coefficient(r, PartOf(r, i))
           gradient == {LET row == MiniBatch(r)[i]
                        IN  [response |-> row.response,
                             num |-> coefficient(i)[1] * Target(row)[1],
                             den |-> coefficient(i)[2] * RowSize(row) * Target(row)[2] * DpSize] :
                          i \in 1..MiniRows}
       IN  grads' = [grads EXCEPT ![r] = Append(@, [of |-> phase, rows |-> gradient])]
    /\ mini' = [mini EXCEPT ![r] = @ + 1]
    /\ out' = [out EXCEPT ![r] = <<>>]
    /\ pc' = [pc EXCEPT ![r] = IF mini'[r] < MiniBatchesInCall(r) THEN "start" ELSE "returned"]
    /\ UNCHANGED <<driverVars, calls, data, number, micro, run>>

----------------------------------------------------------------------------

Driver == Generate \/ Balance \/ Score \/ Dispatch \/ Collect \/ ComputeAdvantage

Rank(r) == Begin(r) \/ Agree(r) \/ Forward(r) \/ ReturnOutputs(r) \/ Step(r)

Next == Driver \/ \E r \in Ranks : Rank(r)

Spec == Init /\ [][Next]_vars

----------------------------------------------------------------------------
(* Properties                                                               *)

\* Balancing loses no row, and gives each rank a share of equal size.  Without
\* prefix grouping the loads of two ranks differ by no more than two rows do that are
\* neighbours when sorted (fewer than DpSize - 1 rows lie between them); with it, the
\* rows of a prompt are all on one rank.
SharesAreFair ==
    phase \in {"reward", "done"} =>
        LET share(d) == {b.response : b \in ToSet(Chunk(batch, DpSize, d))}
            load(d) == MapThenSumSet(LAMBDA x : Workload(input.len[x]), share(d))
            between(x, y) == {z \in Rows : input.len[y] < input.len[z] /\ input.len[z] < input.len[x]}
            near == {p \in Rows \X Rows : Cardinality(between(p[1], p[2])) < DpSize - 1}
            differences == {Workload(input.len[p[1]]) - Workload(input.len[p[2]]) : p \in near}
        IN  /\ UNION {share(d) : d \in 1..DpSize} = Rows
            /\ \A c, d \in 1..DpSize : c # d =>
                   IF input.grouper
                   THEN \A x \in share(c), y \in share(d) : PromptOf[x] # PromptOf[y]
                   ELSE \E most \in differences : load(c) - load(d) <= most

\* Every column stands in the row it was computed for, whatever generation, balancing,
\* dispatch and micro-batches did to the order.
RowsInPlace ==
    phase \in {"advantage", "done"} =>
        \A b \in ToSet(batch) :
            /\ b.uid = PromptOf[b.response]
            /\ b.old_log_prob = b.response
            /\ b.ref_log_prob = (IF input.ref THEN b.response ELSE 0)
            /\ b.values = (IF input.critic THEN b.response ELSE 0)

\* Advantages are relative to the prompt: over its rows they add up to nothing, for
\* OPO weighted by length, whatever order the rows and their rewards are in.
AdvantagesCentred ==
    phase = "done" /\ N > 1 /\ input.estimator \notin {"remax", "grpo_passk"} =>
        \A p \in 1..Prompts :
            LET of == {b \in ToSet(batch) : PromptOf[b.response] = p}
                weight(b) == IF input.estimator = "opo" THEN input.len[b.response] ELSE 1
            IN  /\ \A b, c \in of : b.advantage[2] = c.advantage[2]
                /\ MapThenSumSet(LAMBDA b : weight(b) * b.advantage[1], of) = 0

\* The batch as generated, before anything moved
Generated == [uid |-> PromptOf, score |-> input.score, len |-> input.len,
              baseline |-> Repeated(input.baseline)]

TargetAsGenerated(of, x) ==
    IF of = "update_actor" THEN Advantage(input.estimator, Generated, x)
                           ELSE Return(input.estimator, Generated, x)

\* The workers whose loss does not depend on how a mini-batch is cut: those of the
\* engine for the policy, the legacy ones where they take a mean over sequences.
Invariant(of) ==
    IF input.legacy THEN input.mode \in {"seq-mean-token-sum", "seq-mean-token-mean"}
                    ELSE of = "update_actor"

\* What a row's tokens are divided by in agg_loss of a mini-batch as a whole.  With a
\* fixed scale averaging over the ranks divides them once more, by DpSize.
WholeSize(rows) ==
    LET tokens == MapThenSumSet(LAMBDA g : input.len[g.response], rows)
        once == IF input.mode = "seq-mean-token-sum-norm" THEN DpSize ELSE 1
    IN  LossSize(tokens, Cardinality(rows)) * once

\* Cutting a mini-batch into micro-batches and ranks does not change its gradient:
\* a row's tokens weigh what agg_loss of the mini-batch as a whole gives them (a
\* DpSize-th of it with a fixed scale), with the advantage or return of the row, once
\* in an epoch.
GradientOfWholeBatch ==
    phase = "done" =>
        /\ \A s \in 1..Len(grads[1]) :
               LET of == grads[1][s].of
                   all == UNION {grads[r][s].rows : r \in Ranks}
               IN  Invariant(of) =>
                       \A g \in all : LET target == TargetAsGenerated(of, g.response)
                                     IN  g.num * WholeSize(all) * RowSize(g) * target[2] = target[1] * g.den
        /\ \A x \in Rows, r \in Ranks, of \in IF input.critic THEN Updates ELSE {"update_actor"} :
               LET steps == {s \in 1..Len(grads[r]) : grads[r][s].of = of /\
                                \E g \in grads[r][s].rows : g.response = x}
               IN  Cardinality(steps) \in {0, Epochs}

\* No rank waits for ever in a collective operation the others do not call: while a
\* call is under way, one of the ranks can go on.
RanksGoOn ==
    (\E r \in Ranks : pc[r] \notin {"idle", "returned"}) =>
        \E r \in Ranks : pc[r] \in {"start", "end"} \/ (pc[r] \in Collectives /\ Completes(r))
=============================================================================
