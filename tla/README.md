# MERIT: verification of the training system

TLA+ models of MERIT's training system (`MERIT-Assessor/verl`), the TLC
configurations that check them, and proofs checked by TLAPS. Paths below are
relative to `src/MERIT-Assessor/verl/`; `FA/` is
`experimental/fully_async_policy/`.

## 1. The system

| component | state it keeps | operations | modelled in |
|---|---|---|---|
| message queue (`FA/message_queue.py`), a Ray actor | deque of samples, validation results, version, counters, one lock and one condition | `put_sample`, `get_sample`, `update_param_version`, `clear_queue`, `shutdown`, `put_validate`, `get_validate` | `MessageQueue`, `MessageQueueHistory` |
| rollouter (`FA/fully_async_rollouter.py`), an asyncio Ray actor | `pending_queue`, `cancel_queue`, `active_tasks`, `staleness_samples`, `paused`, `monitor_loop_trigger`, `running`, one lock and one condition | feed, processor, generation tasks, monitor, main, and the remote calls `pause`, `resume`, `update_param_version`, `do_validate_async` | `Rollouter` |
| trainer, parameter synchronizer, task runner (`FA/fully_async_trainer.py`, `FA/param_sync.py`, `FA/fully_async_main.py`) | the batch being collected, `local_trigger_step`, `current_param_version`, the futures of the last remote calls | `fit`, `sync_weights`, `wait_last_valid`, initialization and final clear | `FullyAsync` |
| partial rollout (`FA/vllm_rollout`, `FA/sglang_rollout`, `FA/agent_loop`, `experimental/agent_loop`) | `cancel_event`, `req_output` and `paused` of each server; `agent_data`, `agent_state` and the output of each trajectory; `cancellation_event` of each worker; routes and loads of its server manager | `generate_for_partial`, `cancel`, `resume`, the states of the tool loop, the single-turn loop, dispatch of a sample | `PartialServer`, `PartialAgent` |
| trainers with one driver (`trainer/ppo/ray_trainer.py`, `experimental/one_step_off_policy/ray_trainer.py`) | `global_steps`, epoch, position in the data, the batch in flight | `fit`, `_save_checkpoint`, `_load_checkpoint` | `Training`, `BatchFlow` |
| checkpoints (`utils/checkpoint`) | directories per step, role and rank, `data.pt`, the tracker; the list of saved paths | save, rotate, load | `Checkpoint` |
| checkpoint engine (`checkpoint_engine`, `workers/rollout/vllm_rollout`) | two buffers of each rank, the bucket in flight, the shared buffer and its socket | `send_weights`, `receive_weights`, `update_weights`, `update_weights_from_ipc` | `WeightTransfer` |
| batch: data protocol, dispatch, balancing, workers, advantages (`protocol.py`, `single_controller/base/decorator.py`, `utils/seqlen_balancing.py`, `workers`, `trainer/ppo/core_algos.py`) | the rows of a batch and their order, micro-batches of each rank | repeat, chunk, balance, dispatch, micro-batch, restore, collect, compute advantages, accumulate gradients | `BatchFlow`, `SeqlenBalancing`, `Advantages` |
| rate-limited reward manager (`experimental/reward_loop/reward_manager/limited.py`), one per reward loop worker | token buckets, semaphore, default executor of the worker | `acquire`, `run_single` | `TokenBucket`, `RewardLimiter` |

How they interact. In the fully asynchronous system the feeder puts samples into
`pending_queue`; the processor takes them (cancelled ones first), makes a task
of each, and reaps ended tasks. A task sends the sample to an agent loop worker,
which runs a trajectory per response against the inference servers; the result
goes to the message queue or, if any trajectory was cancelled, the sample goes
to `cancel_queue` with the partial outputs. The trainer takes batches from the
message queue with blocking remote calls. After `trigger_parameter_sync_step`
steps it calls the synchronizer, which waits for the last `update_param_version`
and `resume`, calls `pause` (servers and workers are told to cancel, then the
active tasks are awaited), transfers the weights, and calls
`update_param_version` and `resume` without waiting. The monitor, on a timer,
clears `paused` when the rollouter should go on. The end travels as `"DONE"`
through `pending_queue` and as `None` through the message queue.

In the other trainers one driver takes a batch from the data loader, has it
generated, balances it over the data parallel ranks, has scores, log
probabilities and values computed, computes advantages, has critic and actor
updated, transfers the weights through the checkpoint engine, validates and
saves. The one-step-off trainer generates the next batch meanwhile.

Reward workers run one coroutine per sample: decoding in the default executor,
the RPM bucket, the TPM bucket, the semaphore, and the scorer under
`asyncio.wait_for`; a scorer that is a plain function runs in the executor too,
where a timeout does not end it.

What is hard. Six coroutines of the rollouter interleave at every `await`, and
decide on values read before it; the staleness count is reset from four places
a sample may be in; a cancellation reaches servers and workers in any order
while trajectories are between turns; calls that are not awaited run beside the
trainer; timers race with what they wait for; a crash falls between any two
writes of a checkpoint, while old ones are removed; buffers are reused while
others read them; ranks must enter collectives the same number of times although
their rows differ; and rows are permuted three times on their way through a
step. `PROJECT.json` lists these under "hazards", at their lines.

What makes each component correct:

- message queue: no consumer sleeps beside a sample or a closed queue; samples
  are lost only from the old end and delivered in order, at most once; the
  statistics account for every sample;
- rollouter with trainer: training ends; no sample is duplicated; a sample in a
  batch is not older than the bound that staleness_threshold gives; the count
  that throttles the rollouter covers what is in flight; nothing is generated
  once `pause` has gathered; with threshold 0, training is on-policy and
  uses every sample;
- partial rollout: the tokens of a trajectory are generated once each, in order,
  each with its log probability, across any number of cancellations; a cancelled
  sample is continued and finishes; while weights change nothing generates;
- checkpoints and trainers: the checkpoint the tracker names is complete at any
  time; training resumes where it was; batches are used in turn and at most the
  one in flight is lost; the weights that generated a batch are not older than
  the loop allows; replicas are awake when asked;
- checkpoint engine: each weight arrives once, whole and in order; no buffer
  is written while it is read; the update returns, and not before the last load;
- batch: every value comes back in the row it was computed for; groups of a
  prompt stay together for the advantages; shares are fair; ranks agree on their
  collectives; the gradient does not depend on the division;
- token bucket and reward manager: rate, bursts and concurrency; a sample is
  answered whatever its scorer does, as long as some thread is left to decode it.

## 2. Modules

| module | what it is | correspondence to the code |
|---|---|---|
| `MessageQueue` | one action per method of the actor | a method is one action, since it holds the lock until it returns; `get_sample` is `Take`, `GetClosed` or `Wait`, and a consumer notified on the condition is `woken` until it has the lock again |
| `MessageQueueHistory` | `MessageQueue` with history variables | adds what was put, delivered and cleared, in order |
| `Rollouter` | the rollouter's coroutines | one action per stretch between suspensions; `lockQueue` is `self.lock` (FIFO, the head holds it), `turn` keeps others out while a coroutine that met a free lock goes on without a suspension; `INSTANCE MessageQueue` is the queue actor |
| `FullyAsync` | `EXTENDS Rollouter`: trainer, synchronizer, driver, `Init`, `Next`, fairness, properties | `ray.get` makes the synchronizer part of the trainer's control |
| `SamplePipeline` | abstract: the life of a sample, the batch and the version | implemented by `FullyAsync` (`RefinesPipeline`) |
| `PartialServer` | the servers of partial rollout | the two critical sections of `generate_for_partial` and the outputs of the engine between them |
| `PartialAgent` | `EXTENDS PartialServer`: agent loops, workers, the manager | one action per stretch between awaits; `pc` is where the coroutine is, `toTell` whom `cancel` or `resume` has not reached; a sample is submitted whenever the rollouter's lock is free, also between the return of `pause` and `resume` |
| `Trajectory` | abstract: a trajectory's text only grows, each token by the weights of its time, and is cut once at its end | implemented by `PartialAgent` (`RefinesTrajectory`) |
| `Checkpoint` | what a save does to the disk, one action per write | a model is its history: the batches it was trained on |
| `Training` | `EXTENDS Checkpoint`: both loops of `fit`, crash and restart | one action per stretch between points at which a crash, a generation or the disk matters |
| `DurableTraining` | abstract: training goes on from its last commit | implemented by `Training` (`RefinesDurable`) |
| `WeightTransfer` | sender, receivers and inference workers of an update, for NCCL and NIXL | a weight is its number, a buffer the sequence of weights in it; `mail` and `notes` are messages and notifications |
| `SeqlenBalancing` | pure operators: Karmarkar-Karp, micro-batches, restoration | functions and folds; states are compared as the heap does; `Sorted` is Python's stable `sorted`, by the place of each element |
| `Advantages` | pure operators: the outcome advantages of each estimator, as exact fractions | standard deviation and whitening are left out |
| `BatchFlow` | `EXTENDS SeqlenBalancing, Advantages`: the batch in a step of the trainer, driver and ranks | `calls` counts the collectives a rank has entered, where it waits until all ranks have; `micro` are the micro-batches of its mini-batch and `run` how many of them it has run |
| `TokenBucket` | `AsyncTokenBucket.acquire` with discrete time | `Refilled` and `Charge` are the arithmetic under the lock; `Acquire`, `Sleep`, `Borrow`, `Repaid` the four ways through it |
| `RewardLimiter` | `EXTENDS TokenBucket`: `run_single` in every worker | one bucket for each worker and limit, the semaphore is the number of samples in `calling`, `jobs` and `threads` are the worker's `ThreadPoolExecutor` |
| `MessageQueueMC`, `RewardLimiterMC`, `PartialAgentMC`, `TrainingMC`, `WeightTransferMC`, `BatchFlowMC` | constants for TLC | |
| `MessageQueueProofs`, `FullyAsyncProofs`, `PartialAgentProofs`, `TrainingProofs`, `WeightTransferProofs`, `RewardLimiterProofs`, `BatchFlowProofs` | theorems (section 4) | |
| `DataTheorems` | lemmas on data, for the modules of theorems: induction, sums, sorting, flattening, partitions, grids | |

Abstractions. A sample is its number; prompts, tensors and rewards are left out
where no property is about them.

- Rollouter: the remote `put_sample` and the end of its task are one step. A
  cancelled generation is one step of the task (`TaskCut`); `PartialAgent`
  models what happens within it, and `RefinesTrajectory` with `SamplesFinish`
  justify the step. A ready coroutine may be overtaken by another (the FIFO
  order of ready coroutines is not modelled), which adds behaviours.
- Partial rollout: a token is its kind (word, mark of a tool call, environment)
  and the version of the weights that made it. The model may write anything;
  the assumption `MaxTokens >= ResponseLength + MaxAnswer` says that the
  context is longer than a response.
- Training: optimizer and extra state are one shard with the model. What the
  data loader does when it is put back to the very end of a pass is external,
  and either of the two plausible outcomes is taken. Workers that run
  together between two barriers are one action per rank.
- Training: `total` is `trainer.total_training_steps` where it is set and the
  product of passes and batches where it is not (`TotalTrainingSteps`, with 0 for
  `null`); every restart is made with the same value.
- Batch: prompt tokens are counted with the response, every row has a response
  token; `ppo_mini_batch_size` divides the batch (`BatchAssumption`). Gradients
  are the coefficient of every row's tokens, as a fraction, in each of the four
  modes of `agg_loss`; the `1e-8` of `seq-mean-token-mean` is left out. `LossScale`
  stands for what `seq-mean-token-sum-norm` divides by, `loss_scale_factor` or the
  padded width of the responses, which is the same for all micro-batches. FSDP
  averages over data parallel ranks. Mini-batches are taken in the order of the rows
  (`Mini`): the engine workers can shuffle them (`dataloader_kwargs`,
  `workers/engine_workers.py:234-240`), which is off by default. Bypass mode, rollout correction and the KL penalty are
  left out.
- `TokenBucket`: one token flows in per tick, and rounding of floats is left
  out. Before the first `acquire`, `last_update` is `None` and the bucket is
  full, which is the same as a full bucket at time 0.

Operators called "Mutant of ..." stand before the definition they alter. No
specification uses them. `PROJECT.json` pairs each property with the
mutant that violates it, which shows that the property depends on that code.

## 3. Runs

| run | question | bounds |
|---|---|---|
| `MessageQueueMC` | wakeups, order, accounts and shutdown of the queue | 2 consumers, 2 values, 5 puts through a queue of 2: enough to fill, drop, clear, overtake and close it |
| `SyncTraining` | threshold 0: on-policy, nothing lost, training ends | 5 samples, 2 steps per version, partial rollout on, at most 1 failing call; 5 leaves one step in the last version |
| `StalenessBound` | how old a trained sample can be; the count covers what is in flight | 5 samples, threshold 1: the smallest size that reaches the bound (lag 3) |
| `PartialRollout` | cancelled and resubmitted samples: no duplicates, quiescence, refinement | 4 samples, threshold 1, validation as a task |
| `RewardScoring` | concurrency, rate, bursts and answers of the reward manager; synchronous and asynchronous scorer | 3 samples, both limits, semaphore 1, 1 thread, timeout 5, so that samples queue at every stage and one hung scorer is enough to starve decoding; the clock bound 22 lies after the last return |
| `AgentRollout` | text, log probabilities, versions and the end of cancelled trajectories | one sample of 2 trajectories (a tool loop and a single-turn loop) on one worker and one server, both server classes, responses of 4 tokens, 2 assistant turns, one synchronization, which may fall anywhere, with submissions before, in and after it; with 2 workers and 2 servers the safety invariants hold as well (76 million states, too many for a run), and all but `SamplesFinish` are proved for every number of them |
| `Recovery` | checkpoints, crash and restart of both trainers | 2 roles, 2 ranks, 2 passes of 3 batches, `total_training_steps` unset, 4 or 7, saves every 2 steps and whenever the instance may end, 2 checkpoints kept, 2 crashes at any point: enough to rotate, to crash in a save after a resumed run, to resume within and at the end of a pass, and to have fewer batches than steps |
| `WeightTransfer` | order and stability of buffers, end of the update | 3 rollouts, so that one rank is in the middle of the chain; models of up to 5 buckets |
| `BatchFlow` | rows, shares, groups, gradient and agreement of ranks | 4 prompts with 2 responses, 2 data parallel ranks of 2 sequence parallel ones, 2 mini-batches, 2 epochs; 9 settings of the trainer, among them the four modes of `agg_loss`, and 81 choices of lengths and scores |

All runs but `SyncTraining` and `RewardScoring` have 0.2 to 2.3 million states. `Total`, `MaxPuts`, `MaxVersion`, `MaxPending`, `MaxFailures`,
`LastArrival`, `MaxTime`, `Lateness` and `MaxCrashes` are the bounds. A finite run
of `Total` samples is the program's own (`total_rollout_steps`). Deadlock is
checked in the runs of the fully asynchronous system and the queue; the other
models stop when their batch, update or run is over.

Fairness. In `FullyAsync` generation ends, and asyncio serves ready coroutines in
FIFO order. As that order is not modelled, strong fairness of "some coroutine
other than the monitor runs" stands for it: the monitor's timer must not exclude
for ever a coroutine that is ready again and again. Monitor, trainer and driver
are weakly fair. No failure is forced. In `MessageQueue` a woken consumer
runs. In `PartialAgent` every coroutine, the delivery of `cancel` and `resume`
and the engine go on; no cancellation is forced, and no submission between `pause`
and `resume`, where it need not happen. In `Training` the driver goes on
and no crash is forced. In `WeightTransfer` processes and links go on. In
`RewardLimiter` time goes by, and coroutines and threads that are ready run.
Nothing is assumed of scorers, since neither `run_in_executor` nor an endpoint
gives a bound (`limited.py:387-396`): a synchronous scorer may keep its thread for
ever and an asynchronous one may hang until its timeout. `Answered` says what is
left: a sample that has been decoded is answered, and one that waits to be decoded
is answered or from some time on every thread of its worker is held by a scorer of
a sample that has timed out. Without the second alternative it is false.
`BatchFlow` assumes none: `RanksGoOn` says that some step is possible until the
batch is done.

### Disagreements between the code and its documentation

Each is a run that ends in a counterexample.

- `SyncViolation`: generation runs while weights are transferred. The monitor
  checks its condition, waits for the lock `pause` holds, and clears `paused`
  afterwards (`FA/fully_async_rollouter.py:711`), against `FA/README.md:237`.
- `InterruptedViolation`: an interrupted sample is never continued and training
  hangs. The staleness reset counts a task that has ended together with
  its cancelled sample, so that the count reaches the maximum with nothing in
  flight (`FA/fully_async_rollouter.py:238`), against `FA/README.md:246`.
  This is why `Termination` is checked with threshold 0.
- `UnderrunViolation`: a one-step-off run that is resumed within its first pass
  over the data has one batch fewer than steps. The batch that was in flight when
  the checkpoint was saved counts as read
  (`experimental/one_step_off_policy/ray_trainer.py:515`), the iterator makes
  `total_epochs` passes from there, and the last step unpacks `None` (line 502),
  against `trainer/config/ppo_trainer.yaml:169`.

Other behaviours the models contain, met while building them and not kept as runs:

- the processor dies on an unbound `done_tasks` when `active_tasks` has become
  empty while it waited for the lock (`FA/fully_async_rollouter.py:510`;
  state `procPc = "dead"`, reached with five samples and `MaxPending = 1`);
- the processor returns while a pause has moved a sample to `cancel_queue`
  (`FA/fully_async_rollouter.py:531`);
- more than `max_required_samples` samples are in flight, by the one the
  processor has fetched (`FA/fully_async_rollouter.py:238`; five samples);
- a version that arrives while the last validation runs calls
  `validate_task.get()`, which an `asyncio.Task` does not have
  (`FA/fully_async_rollouter.py:285`); `update_param_version` and `resume` raise;
- with parallel validation, the last result is lost, as the trainer waits for the
  synchronizer's validation and not the rollouter's (`FA/fully_async_trainer.py:350`);
- a tool call whose text is cut by a cancellation is not made: calls are extracted
  from the tokens of the last chunk only
  (`FA/agent_loop/partial_tool_agent_loop.py:206` and `:220`; `HasCall` looks at
  `chunk`), against `FA/README.md:525-528`, "rather than starting over";
- a sample submitted between the transfer of the weights and
  `update_param_version`, which `SyncViolation` shows to be possible, is given the old
  version (`FA/fully_async_rollouter.py:571`); if its trajectory reaches a worker
  after `resume`, it ends with tokens one version newer than its
  `param_version_end`. `VersionsEnclosed` allows for this one version; in that
  window the servers refuse calls and the workers cancel, so that nothing is
  generated (`Quiescent`);
- the vLLM server keeps the entry of a request cut before its first token
  (`FA/vllm_rollout/vllm_async_server.py:106`), the SGLang server does not;
  `RequestsForgotten` says which entries may be left;
- `GeneratesAwake` fails with `CriticWarmup = 2`, where a step without actor
  update (`trainer/ppo/ray_trainer.py:1678`) leaves the replicas asleep, and
  with `Remax = TRUE`, whose second generation follows `sleep_replicas`
  (`:1466`, `:1485`); `checkpoint_engine/base.py:372` says that sleep frees
  weights and cache;
- keeping one checkpoint (`max_*_ckpt_to_keep = 1`) breaks
  `NamedCheckpointLoads`: the old one is removed before the tracker names the
  new one. A crash between the truncation of the tracker and the write leaves an
  empty file, which raises at each restart (`trainer/ppo/ray_trainer.py:1063`,
  "for atomic usage" in line 1050). The list of saved paths does not survive a
  restart, so that checkpoints of earlier runs are never removed;
- nothing compares `trainer.total_training_steps` with the data
  (`ray_trainer.py:380-381`). If it is larger than the number of batches in all
  passes, the PPO trainer's loop ends without the last step and so without its
  validation and, unless `save_freq` divides the number of batches, without a last
  save; the one-step-off trainer awaits a batch that does not exist
  (`one_step_off_policy/ray_trainer.py:502`). `StopsShort` says that this, and the
  restarts named next, are the only ways to it;
- a run of the PPO trainer resumed at the end of a pass may lose a pass, if
  the data loader first yields an empty one; a one-step-off run resumed after
  its last checkpoint trains one step more;
- the engine workers' `value_loss` (`workers/utils/losses.py:195`) aggregates
  without global batch sizes, so that with several micro-batches the critic's
  gradient is a sum of their means; `DataParallelPPOActor` with `token-mean`
  weighs micro-batches equally, and with `seq-mean-token-sum-norm` by their rows
  besides the fixed scale; `core_algos.py:1034` says the loss is invariant
  to the division. `GradientOfWholeBatch` is stated for the workers and modes
  in which the cut makes no difference (`Invariant`): the engine workers' policy in
  every mode, and the legacy workers in the two means over sequences;
- `agg_loss` multiplies by `dp_size` in three modes but not in
  `seq-mean-token-sum-norm` (`core_algos.py:1072-1076`). FSDP averages gradients over
  the ranks, so that in this mode the gradient is a `dp_size`-th of that of one rank
  with the same batch, again against `core_algos.py:1034`. `GradientOfWholeBatch`
  says so: `WholeSize` has the factor `DpSize` in this mode;
- hung synchronous scorers can keep all threads of the default executor, and a
  sample that waits to be decoded there has no timeout (`limited.py:387-396,414`):
  the reward of its batch is then never complete. `Answered` leaves exactly this case;
- `rearrange_micro_batches` may exceed `max_token_len` (rows of 3, 3, 3, 3 and
  a maximum of 4 give a micro-batch of 6), although its docstring says
  "max sum of attention_mask per micro-batch";
- `keep_minibatch` of `_balance_batch` is never set, and the sort within each
  partition would undo its order;
- a timed-out synchronous scorer keeps its thread and its API call after the
  semaphore is released (`limited.py:430`, against `limited.py:182-183`), and
  tokens are taken before the semaphore is waited for, so that calls held up by
  slow ones start in a burst above `max_rpm` (`limited.py:422`, against
  `limited.py:186`); `AsyncConcurrencyLimit` and `AverageRate` say what does hold;
- the class-level limiters are one set per process, and every agent loop worker
  has its own reward worker, so that limits multiply (`limited.py:306`,
  `experimental/agent_loop/agent_loop.py:389`).

## 4. Theorems

All are proved for every value of the constants, from the named assumptions of
the modules (sizes are positive numbers, `MaxRequired` is positive, costs are
positive numbers, every limiter request has the bucket of its worker). Where a
theorem assumes more, it says so, and section 3 has the counterexample without.

- `MessageQueueProofs`: `MessageQueueTypes`, `NoWakeupIsLost`, `QueueConserves`,
  `QueueKeepsNewest`, `QueueDeliversInOrder`. `MQInv` joins the types with
  `NoLostWakeup`: each is needed for the other's step, since a waiting consumer
  must meet an empty queue when `put_sample` notifies. `HInv` adds the three
  history properties, which need one another through the position of the
  head of the queue. `PutShape` and `TakeShape` say once what a put and a take do
  to a bounded sequence.
- `FullyAsyncProofs`, part one: `PauseKeepsPromise`, `FullyAsyncTypes`, `NoSampleTwice`.
  Once `pause` has gathered and until it returns, no generation task exists. The
  property is not inductive; `QuiesceInv` adds `LockInv`, which coroutine holds
  the lock while it is suspended, and the type of `task`. For `NoSampleTwice`,
  `PlacesInv` counts the places a sample is in and says that one that has not
  been fed is in none; no step but the feeder's gives a sample a place more
  (`Fewer`): it moves on, or is dropped from a full queue.
- `FullyAsyncProofs`, part two: `StalenessIsCovered`, `LagIsBounded`, `SynchronousIsOnPolicy`.
  `CoverInv` adds to `StalenessCovers` what `update_param_version` has counted
  when it waits for the size of the queue: it holds the lock, so that nothing is
  submitted between its counts. `VersionLagBound` speaks of a full batch; `LagInv`
  says it of every sample in the row of batch and queue, with the versions
  (`VersionsTo`) that pass until the sample is trained on. A put needs that the
  sample was stamped at most `Slack` versions ago (`PutInv`), which `CallInv`
  gives: the versions of trainer and rollouter are one apart between the end of
  a version and the call that tells the rollouter. The proof showed that the
  bound first stated, with the quotient rounded down, is false when
  `staleness_threshold` is a fraction that does not divide; it was restated as
  `(MaxRequired - 1) \div (Required * Trigger) + 2`. `SynchronousIsOnPolicy`
  assumes `ThetaNum = 0`. Then what the trainer has used of a version and what is
  outstanding are at most a version's samples (`RoomInv`), so that nothing is
  outstanding when its last step is over, and the rollouter is blocked until
  `update_param_version` has counted; after the loop the processor has ended
  (`EndInv`) and nothing is submitted any more (`QuietInv`); `FreshInv` is the
  version of what waits for the trainer.
- `FullyAsyncProofs`, part three: `PipelineImplemented` and `SynchronousLosesNothing`. The first
  is the refinement of `SamplePipeline`. By
  `PlacesInv` a sample is at one place of the code, so that each place has its
  stage (`OneStage`); a step leaves every stage or moves one sample, or a batch,
  one stage on. Most steps stutter (`StutterStep`). The start of a sample must
  respect the abstract capacity: what is rolling or ready is outstanding, which
  `StalenessCovers` bounds, or in the batch, and the processor has seen room
  (`HandInv`). A training step takes exactly a batch because the rows of `batch`
  are distinct (`PlacesInv` again).
  `SynchronousLosesNothing` is `NothingLost` for every size with `ThetaNum = 0`. Its
  invariant, `LostParts`, speaks of the system while no generation call has raised:
  - every sample that was fed is somewhere (`KeptInv`), because a full queue never
    drops: a sample finds room by `RoomInv`, and the end signal because the
    processor takes "DONE" only when it has seen room (`SpareInv`). "DONE" is the
    last item fed (`PendingInv`), and the processor ends only with no task left
    (`QuitInv`), so that the end signal follows the last sample (`LastInv`);
  - nothing is ever cancelled (`CancelInv`), even with partial rollout: nothing
    runs when the servers are cancelled, and nothing starts until they resume
    (`CutInv`). The delicate case is the monitor, which reads its flags without the
    lock and clears `paused` with it: when it has found room its request for the
    lock is ahead of that of `pause` (`OrderInv`);
  - the processor does not raise (`AliveInv`). The loop over `done_tasks` reads a
    variable that may not be bound yet; before the first round of
    `asyncio.wait` no `pause` can empty `active_tasks`, because it waits for the
    lock or is not called while the first samples are fetched (`ReapInv`). The
    argument needs the threshold 0;
  - whole batches are trained on, and less than a batch is left at the end
    (`SumInv`).
- `RewardLimiterProofs`: `BucketTypes`, `BooksBalance`, `DebtIsCovered`,
  `RateIsKept`: the average rate holds with requests of every size.
  `AverageRate` follows from `Accounts` (charged + held never exceeds the size
  plus what has flowed in) and `DebtCovered` (an overdrawn bucket has a sleeper
  who outlasts the whole debt, or the debt has been repaid and not booked yet),
  which together with the types are inductive. `LimiterKeepsRate` carries it to
  the buckets of the reward manager, whose other steps leave them alone.
  `AsyncCallsLimited`: with an asynchronous scorer a call ends with its sample, so
  that the calls of a worker are its samples in `calling`, which the semaphore
  bounds. A late answer cannot move such a sample on: threads only decode then,
  and every sample is decoded once.
  `BurstsAreBounded` and `LimiterBoundsBursts`: between two of its grants, a bucket
  that no request is larger than (`AllFit`) grants at most a full bucket and what
  flows in meanwhile. `BurstBound` sums over the grants in between; `BurstInv` says
  that such a bucket is never overdrawn, and that for every grant so far, what was
  granted from it on and what the bucket holds are no more than a full bucket and
  what has flowed in since. A bucket with larger requests is overdrawn on purpose,
  and only the average rate holds.
- `DataTheorems`: induction over data. The provers cannot instantiate the
  library's induction theorems, whose hypothesis is an operator; here a predicate is
  the set of the values it is true of, and induction follows from `WFMin`, that
  a set of numbers that is not empty has a least one (`Induct`, `SubsetInduct`).
  Existence of the recursive function behind a fold follows (`SumsExist`), then
  that a sum does not depend on the order in which the fold chooses
  (`SumUnique`), and that one more summand adds to it (`SumAdds`). For
  `BatchFlowProofs`: `Sorted` rearranges and orders a sequence, `FlattenSeq` has
  its parts one after the other, a partition of positions is a bijection between
  places in the parts and positions, and flattening equal chunks is the identity.
- `PartialAgentProofs`: `CancelQuiesces`: from the return of `pause` until `resume` no
  server has a request under way, although samples may be submitted in between.
  `QuietInv` says that a generation task runs only for a trajectory that waits for it
  (`HandleWaits`), that a trajectory that is under way belongs to an active sample
  (`LoopOfActive`), which `pause` waits for, that until then every server has been
  told or is about to be (`ServersTold`), and that from then on all servers refuse,
  so that a reply that is on its way is empty (`Hushed`). `Aligned`, `Enclosed` and
  `Forgets` rest on it: as no call is under way when the weights change, the output
  on a server, a reply and an answer are all of the version in use, so that they may
  be appended to a text ordered up to that version (`Versioned`). `ParamRecent` says
  that the version a sample was given is at most one behind: one that was given
  the version before is active, and the next `pause` waits for it before another
  change. `Aligned` needs that tools answer only after something has been said
  (`Said`), since the code adds log probabilities for an answer only if there are any.
  `TrajectoryImplemented` is the refinement `RefinesTrajectory`: an answer appends
  to the text, and only to one that is not over; the cut at the end of a
  trajectory happens once, and a new version adds nothing to any text.
- `TrainingProofs`: `BoundedLag`, `ReplicasAwake`, `CheckpointsLoad` and
  `TrainingIsDurable`, across any number of crashes. `BoundedLag` follows the
  weights of a batch from its generation to its update. For `CheckpointsLoad`,
  `DurableInv` relates disk and memory: the newest path a role keeps is the one
  the tracker names, so that a rotation that keeps two or more never removes it;
  the shards the save under way has written are the model of this step, so that
  the tracker is written only when they are complete; and the tracker is torn
  only between its truncation and its write. `TrainingIsDurable` is the
  refinement: the write of the tracker is the abstract commit, a restart
  the abstract recovery. `CheckpointsLoad` and `TrainingIsDurable` assume
  `Keep # 1`, and these and `ReplicasAwake` `CriticWarmup <= 1` (`ReplicasAwake`
  also `~Remax`): section 3 gives the counterexamples without them. With a longer
  warm-up the actor's history does not grow in every step.
  `NoBatchTwice` and `ShortOfBatches` are about the order of batches. `TurnInv`
  says of every history in memory, and `NamedInv` of those the tracker names,
  that they are in turn but for as many omissions as there were crashes (none in
  the PPO trainer), and which batch may follow; `ReadInv` and `WroteInv` tie the
  position of the data loader, in memory and on disk, to the batches.
  `NoBatchTwice` assumes `Keep # 1` and `CriticWarmup <= 1` like
  `CheckpointsLoad`, on whose invariant it rests. `CountInv` counts batches read
  against steps made: within a run they go together, a restart can only add what
  the checkpoint had read. `ShortOfBatches` needs no assumption on
  `TotalTrainingSteps`: `StopsShort` compares the steps left with the batches left.
- `WeightTransferProofs`: `WeightsLoadedInOrder`, `AllWeightsLoaded`,
  `BuffersAreStable`. `TransferInv` says what both buffers of every rank, each
  message, notification and shared buffer hold at each place of the chain. Its
  core is the link between a rank and the one before it: the bucket is offered,
  and the rank one bucket behind, or it is taken, and the notification on its
  way back. A rank offers a new bucket only on a link that is taken, so that
  nobody is more than one bucket ahead of his reader and the buffer on offer is
  not the one that is written.

- `BatchFlowProofs`: `BatchFlowInvHolds`, and from it `SharesStayFair`,
  `ColumnsStayInRows`, `RanksAreNeverStuck` and `AdvantagesStayCentred`. `BatchInv` says which rows the
  batch has in each phase: every response once, beside the uid of its prompt, and
  after `_balance_batch` in fair shares. `RanksInv` is the plan of a call: a rank's
  data are its chunk, its count of collectives follows from where it is (mini-batch,
  agreement, micro-batch), ranks that have agreed agreed on the same number, and
  nobody is more than one collective ahead; the rank that is furthest behind can
  go on. `OutInv` says that the outputs so far are those of the rows of the
  micro-batches run so far, in their order. `ColumnsInv` says which columns are
  filled in each phase and that a filled one has the row's own response.
  `ScoredInv` says that a row's reward is the score of its own response, whichever
  worker scored it, and its advantage what the estimator makes of the columns of the
  whole batch. The group of a row is then every row of its prompt, of which there are
  `N`, wherever they stand, and the numerators of an estimator that compares them all
  have the form c·(t·w·score − w·l), with w the weight of a row, t the sum of the
  weights and l that of w·score: their sum is c·(t·l − t·l) = 0.
  Under these are theorems about the pure operators. `BalancedPartition`: the heap
  of Karmarkar-Karp always holds partitions of disjoint sets of positions, which a
  merger joins; with `equal_size` all sets of a state have the same size, and since a
  merger pairs the heaviest set with the lightest, the sums within a state stay no
  further apart than those in the widest of the first states, which is a statement
  about neighbours in the sorted order. `MicroBatchesDivide`: every row is in exactly one
  micro-batch. `RestoredInOrder`: `restore_dynamic_batch` undoes any such order.
  The attempt to prove `ColumnsInv` found that two guards of `After` overlapped, so
  that the model did not say which phase follows; they were made exclusive. The
  number of micro-batches run, which the model had derived from the outputs, is the
  variable `run`.

Only model-checked, and why:

- the liveness properties (`Termination`, `Answered`, `SamplesFinish`,
  `TrainingEnds`, `UpdateReturnsInTheEnd`, `ShutdownReleasesConsumers`): liveness
  under fairness is out of reach of the proof system;
- `GradientOfWholeBatch`: algebra on sums of fractions over the rows of all ranks in
  an optimizer step, for every setting in which `Invariant` holds, which the provers do not
  do by themselves; the lemmas that would do it by hand are as long again as those for
  the ranks. What it rests on is proved: rows in place, every row in exactly one
  micro-batch, and all ranks at the same step.

## 5. Plan

1. The recovery of the fully asynchronous trainer, which loses the samples in
   flight (`FA/fully_async_rollouter.py:322`).
2. Checkpoints saved in the background (`async_save`), whose tracker is written
   by the Megatron workers.

## 6. Not modelled

Models, kernels, attention, parameter resharding, optimizers and policy losses
are numerical code on tensors: what could be said about them concerns real
numbers and memory layout, out of reach of TLC and TLAPS. They are most of the
implementation's lines. The transfer queue trainer rests on an external package;
the trainer of the vision-language-action experiment is a variant of the PPO
trainer with numerical models; the judge reward, tools and interactions
are single calls of external services; data preparation, evaluation and the
retriever are sequential scripts.
