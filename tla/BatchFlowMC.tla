---------------------------- MODULE BatchFlowMC ----------------------------
(* Batches of four prompts with two responses each, and of several settings.     *)
EXTENDS BatchFlow, TLC

Setting(e, dyn, g, old, ref, critic, m) ==
    [estimator |-> e, dynamic |-> dyn, grouper |-> g, legacy |-> old,
     ref |-> ref, critic |-> critic, mode |-> m]

\* Every estimator, every way to cut, to weigh and to add up a loss, with and without the other models.
Settings ==
    {Setting("grpo", TRUE, FALSE, FALSE, TRUE, FALSE, "token-mean"),
     Setting("rloo", TRUE, FALSE, TRUE, FALSE, FALSE, "seq-mean-token-sum"),
     Setting("opo", TRUE, FALSE, TRUE, FALSE, FALSE, "token-mean"),
     Setting("remax", TRUE, FALSE, TRUE, TRUE, TRUE, "seq-mean-token-mean"),
     Setting("rloo_vectorized", FALSE, FALSE, TRUE, FALSE, FALSE, "seq-mean-token-sum"),
     Setting("gpg", TRUE, TRUE, FALSE, FALSE, FALSE, "seq-mean-token-sum"),
     Setting("grpo_passk", FALSE, TRUE, TRUE, FALSE, TRUE, "seq-mean-token-mean"),
     Setting("grpo_vectorized", FALSE, FALSE, FALSE, FALSE, TRUE, "seq-mean-token-sum-norm"),
     Setting("grpo", FALSE, FALSE, FALSE, FALSE, FALSE, "seq-mean-token-mean")}

\* The lengths of the two responses to a prompt; a middling response is right, and so
\* is the first one to every other prompt.
Pairs == {<<1, 1>>, <<1, 4>>, <<4, 2>>}

Batches ==
    {[len |-> [x \in Rows |-> p[PromptOf[x]][((x - 1) % N) + 1]],
      score |-> [x \in Rows |-> IF p[PromptOf[x]][((x - 1) % N) + 1] = 2 \/ x % 4 = 1 THEN 1 ELSE 0],
      baseline |-> [q \in 1..Prompts |-> q % 2]] :
        p \in [1..Prompts -> Pairs]}

MCInputs == {b @@ s : b \in Batches, s \in Settings}
=============================================================================
