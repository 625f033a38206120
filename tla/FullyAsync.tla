----------------------------- MODULE FullyAsync -----------------------------
(***************************************************************************)
(* Fully asynchronous training: the rollouter, the message queue, the      *)
(* trainer (fully_async_trainer.py), the parameter synchronizer            *)
(* (param_sync.py) and the driver that clears the queue when both loops    *)
(* are over (fully_async_main.py).                                         *)
(*                                                                         *)
(* The trainer calls the synchronizer with ray.get, so that sync_weights   *)
(* and wait_last_valid are stretches of the trainer's own control, and     *)
(* only update_param_version and resume, which sync_weights does not wait  *)
(* for, run beside it.  use_trainer_do_validate is off, checkpoints are    *)
(* left out, and reward functions are configured (val_reward_fn is set).   *)
(***************************************************************************)
EXTENDS Rollouter

VARIABLES
    trainerPc,       \* control of fit and of the calls it makes
    phase,           \* before the end signal, after it, or in the extra sync
    batch,           \* queue_samples
    trained,         \* the samples of every training step so far
    trainerVersion,  \* self.current_param_version
    localStep,       \* self.local_trigger_step
    weights,         \* the version of the weights on the inference servers
    logged           \* the versions whose validation metrics were logged

trainerVars == <<trainerPc, phase, batch, trained, trainerVersion, localStep,
                 weights, logged>>
vars == <<queueVars, rollVars, trainerVars>>

\* The synchronization before training has validated version 0
\* (val_before_train) and left the result in the queue, unless that validation
\* is a task of its own.
Init ==
    /\ queue = <<>> /\ mqRunning = TRUE /\ mqVersion = 0
    /\ valQueue = IF ParallelValidate THEN <<>> ELSE <<[version |-> 0, metrics |-> TRUE]>>
    /\ totalProduced = 0 /\ totalConsumed = 0 /\ droppedSamples = 0
    /\ getState = [c \in {"trainer"} |-> "out"]
    /\ RollInit
    /\ trainerPc = "log" /\ phase = "loop"
    /\ batch = <<>> /\ trained = {}
    /\ trainerVersion = 0 /\ localStep = 1
    /\ weights = 0 /\ logged = {}

-----------------------------------------------------------------------------
(* _get_samples_from_queue                                                 *)

GetWait ==
    /\ trainerPc = "get"
    /\ MQ!Wait("trainer")
    /\ UNCHANGED <<rollVars, trainerVars>>

\* Mutant of GetSample: a batch is complete one sample late.
GetSampleOneMore ==
    /\ trainerPc = "get"
    /\ MQ!Take("trainer")
    /\ Head(queue) # EndOfStream
    /\ batch' = Append(batch, Head(queue))
    /\ trainerPc' = IF Len(batch) = Required THEN "train" ELSE "get"
    /\ UNCHANGED <<rollVars, phase, trained, trainerVersion, localStep, weights, logged>>

GetSample ==
    /\ trainerPc = "get"
    /\ MQ!Take("trainer")
    /\ Head(queue) # EndOfStream
    /\ batch' = Append(batch, Head(queue))
    /\ trainerPc' = IF Len(batch) + 1 = Required THEN "train" ELSE "get"
    /\ UNCHANGED <<rollVars, phase, trained, trainerVersion, localStep, weights, logged>>

\* None ends the loop; the samples of an unfinished batch are given up.
GetEnd ==
    /\ trainerPc = "get"
    /\ MQ!Take("trainer")
    /\ Head(queue) = EndOfStream
    /\ batch' = <<>>
    /\ phase' = "final" /\ trainerPc' = "lastValid"
    /\ UNCHANGED <<rollVars, trained, trainerVersion, localStep, weights, logged>>

-----------------------------------------------------------------------------
(* One training step and _trigger_parameter_sync_after_step                *)

BeginSync ==
    /\ trainerVersion' = trainerVersion + 1
    /\ localStep' = 1
    /\ trainerPc' = "waitValid"

Train ==
    /\ trainerPc = "train"
    /\ trained' = trained \cup {batch[i] : i \in 1..Len(batch)}
    /\ batch' = <<>>
    /\ IF localStep < Trigger
         THEN localStep' = localStep + 1 /\ trainerPc' = "log" /\ UNCHANGED trainerVersion
         ELSE BeginSync
    /\ UNCHANGED <<queueVars, rollVars, phase, weights, logged>>

\* wait_last_valid: both remote calls have returned, or one raises.
LastCallsDone == updatePc = "done" /\ resumePc = "done"
LastCallFailed == "failed" \in {updatePc, resumePc}

WaitValid ==
    /\ trainerPc = "waitValid" /\ LastCallsDone
    /\ trainerPc' = "pausing" /\ pausePc' = "called"
    /\ UNCHANGED <<queueVars, feedVars, cancelQueue, taskVars, flagVars, staleness,
                   lockVars, procVars, mainPc, monitorPc, updatePc, resumePc, updateArg,
                   snapshot, validating, phase, batch, trained, trainerVersion,
                   localStep, weights, logged>>

WaitFailed ==
    /\ trainerPc \in {"waitValid", "lastValid"} /\ LastCallFailed
    /\ trainerPc' = "failed"
    /\ UNCHANGED <<queueVars, rollVars, phase, batch, trained, trainerVersion,
                   localStep, weights, logged>>

\* pause has returned: the queue learns the version, the transfer starts.
SyncBegin ==
    /\ trainerPc = "pausing" /\ pausePc = "done"
    /\ MQ!UpdateParamVersion(trainerVersion)
    /\ trainerPc' = "transfer"
    /\ UNCHANGED <<rollVars, phase, batch, trained, trainerVersion, localStep, weights, logged>>

\* The weights have arrived; update_param_version and resume are called and
\* not awaited.
SyncEnd ==
    /\ trainerPc = "transfer"
    /\ weights' = trainerVersion
    /\ updatePc' = "called" /\ resumePc' = "called"
    /\ updateArg' = [version |-> trainerVersion, validate |-> phase = "extra"]
    /\ trainerPc' = IF phase = "extra" THEN "lastValid" ELSE "log"
    /\ UNCHANGED <<queueVars, feedVars, cancelQueue, taskVars, flagVars, staleness,
                   lockVars, procVars, mainPc, monitorPc, pausePc, snapshot, validating,
                   phase, batch, trained, trainerVersion, localStep, logged>>

-----------------------------------------------------------------------------
(* wait_last_valid after the loop, _log_validation_data, the extra sync    *)

LastValid ==
    /\ trainerPc = "lastValid" /\ LastCallsDone
    /\ trainerPc' = "log"
    /\ UNCHANGED <<queueVars, rollVars, phase, batch, trained, trainerVersion,
                   localStep, weights, logged>>

NeedsExtraSync == trainerVersion % TestFreq # 0 \/ localStep > 1

Log ==
    /\ trainerPc = "log"
    /\ MQ!GetValidate
    /\ logged' = IF valQueue # <<>> /\ Head(valQueue).metrics
                    THEN logged \cup {Head(valQueue).version} ELSE logged
    /\ \/ /\ phase = "loop" /\ trainerPc' = "get"
          /\ UNCHANGED <<phase, trainerVersion, localStep>>
       \/ phase = "final" /\ NeedsExtraSync /\ phase' = "extra" /\ BeginSync
       \/ /\ phase = "extra" \/ (phase = "final" /\ ~NeedsExtraSync)
          /\ trainerPc' = "done"
          /\ UNCHANGED <<phase, trainerVersion, localStep>>
    /\ UNCHANGED <<rollVars, batch, trained, weights>>

Trainer ==
    \/ GetWait \/ GetSample \/ GetEnd \/ Train \/ WaitValid \/ WaitFailed
    \/ SyncBegin \/ SyncEnd \/ LastValid \/ Log

-----------------------------------------------------------------------------
(* _run_training_loop: both futures are done, the queue is cleared         *)

DriverClear ==
    /\ trainerPc = "done" /\ mainPc = "stopped" /\ monitorPc = "exited"
    /\ MQ!ClearQueue
    /\ trainerPc' = "cleared"
    /\ UNCHANGED <<rollVars, phase, batch, trained, trainerVersion, localStep,
                   weights, logged>>

\* The program has ended, or the driver cancels the rollouter after an error.
Ended == trainerPc \in {"cleared", "failed"}
Terminated == Ended /\ UNCHANGED vars

-----------------------------------------------------------------------------
Rollout == RollNext /\ UNCHANGED trainerVars

Next == Rollout \/ Trainer \/ DriverClear \/ Terminated

\* The coroutines of the rollouter, but for the monitor and its timer.
Coroutine ==
    \/ Feed \/ Processor \/ MainPutEnd \/ MainStop
    \/ \E s \in Samples : Task(s)
    \/ Pause \/ Update \/ ValidationDone \/ Resume

\* An asyncio loop runs its ready coroutines in FIFO order and generation
\* ends, so that while some coroutine is ready again and again between the
\* turns of the monitor, one of them runs.  The trainer and the driver are
\* processes of their own.  A call of the generation server may fail, but
\* nothing makes it fail.
Fairness ==
    /\ SF_vars(Coroutine /\ UNCHANGED trainerVars)
    /\ WF_vars(Monitor /\ UNCHANGED trainerVars)
    /\ WF_vars(Trainer)
    /\ WF_vars(DriverClear)

Spec == Init /\ [][Next]_vars
FairSpec == Spec /\ Fairness

-----------------------------------------------------------------------------
(* Properties                                                              *)

\* The types of the state, and that nothing shuts the message queue down.
TypeOK ==
    /\ queue \in Seq(Samples \cup {EndOfStream})
    /\ valQueue \in Seq([version : Nat, metrics : BOOLEAN])
    /\ mqRunning = TRUE /\ mqVersion \in Nat
    /\ totalProduced \in Nat /\ totalConsumed \in Nat /\ droppedSamples \in Nat
    /\ getState \in [{"trainer"} -> {"out", "waiting", "woken"}]
    /\ fed \in 0..(Total + 1)
    /\ pending \in Seq(Samples \cup {EndOfStream})
    /\ cancelQueue \in Seq(Samples)
    /\ task \in [Samples -> {"none", "new", "gen", "put"}]
    /\ stamp \in [Samples -> Nat]
    /\ finished \in Nat /\ failed \in BOOLEAN /\ failures \in 0..MaxFailures
    /\ paused \in BOOLEAN /\ monitorTrigger \in BOOLEAN /\ running \in BOOLEAN
    /\ serversPaused \in BOOLEAN /\ version \in Nat /\ staleness \in Nat
    /\ lockQueue \in Seq({"processor", "main", "monitor", "pause", "update", "resume"})
    /\ turn \in {"loop", "processor", "main", "monitor", "pause", "update", "resume"}
    /\ procPc \in {"top", "fetchWait", "setPaused", "drain", "drainWait", "idle",
                   "idleWait", "idleWoken", "submit", "submitWait", "submitWoken",
                   "exited", "dead"}
    /\ hand \in Samples \cup {EndOfStream}
    /\ drainFor \in {"pause", "full", "done"} /\ reaped \in BOOLEAN
    /\ mainPc \in {"streaming", "stopping", "stopped"}
    /\ monitorPc \in {"check", "sleep", "unpause", "exited"}
    /\ pausePc \in {"called", "lock", "gather", "flush", "done"}
    /\ updatePc \in {"called", "lock", "count", "publish", "failed", "done"}
    /\ resumePc \in {"called", "lock", "servers", "failed", "done"}
    /\ updateArg \in [version : Nat, validate : BOOLEAN]
    /\ snapshot \in Nat /\ validating \in SUBSET Nat
    /\ trainerPc \in {"log", "get", "train", "waitValid", "pausing", "transfer",
                      "lastValid", "done", "cleared", "failed"}
    /\ phase \in {"loop", "final", "extra"}
    /\ batch \in Seq(Samples)
    /\ trained \in SUBSET Samples
    /\ trainerVersion \in Nat /\ weights \in Nat /\ localStep \in 1..Trigger
    /\ logged \in SUBSET Nat

In(s, seq) == \E i \in 1..Len(seq) : seq[i] = s
Copies(seq, s) == Cardinality({i \in 1..Len(seq) : seq[i] = s})
One(p) == IF p THEN 1 ELSE 0

\* How many places between the feeder and the optimizer hold sample s.
Places(s) ==
    Copies(pending, s) + Copies(cancelQueue, s) + Copies(queue, s) + Copies(batch, s)
    + One(hand = s) + One(task[s] # "none") + One(s \in trained)

\* A sample is never in two places: no order of cancellations, resubmissions,
\* pauses and drops generates a sample twice at once or trains on it twice.
NoDuplicates == \A s \in Samples : Places(s) <= 1

\* Samples that have been fetched and have not reached the trainer.
Outstanding ==
    One(hand # EndOfStream) + Cardinality(Live) + Len(cancelQueue)
    + Len(queue) - Copies(queue, EndOfStream)

\* staleness_samples, which throttles the rollouter, never misses more than the
\* one sample the processor holds while it is reset from what is in flight.
StalenessCovers == Outstanding <= staleness + 1

\* How many versions older than the trainer the samples of a full batch are.
Lags == {trainerVersion - stamp[batch[i]] : i \in 1..Len(batch)}

\* No batch holds a sample more than ceil(1 + staleness_threshold) + 1 versions
\* behind the trainer.
VersionLagBound ==
    trainerPc = "train" =>
        \A lag \in Lags : lag <= (MaxRequired - 1) \div (Required * Trigger) + 2

\* staleness_threshold = 0 is synchronous training: every sample trained on was
\* generated by the version being trained, and none is generated while the
\* weights change.
OnPolicy ==
    /\ trainerPc = "train" => Lags \subseteq {0}
    /\ trainerPc = "transfer" => Live = {}

\* With staleness_threshold = 0 no sample is lost: when the program has ended and no
\* generation call has raised, every sample that fills a batch has been trained on.
NothingLost ==
    trainerPc = "cleared" /\ failures = 0 =>
        Cardinality(trained) = Total - (Total % Required)

\* pause() keeps its promise to its caller for as long as it holds the lock:
\* from the end of its gather, no generation task exists or can be submitted.
PauseQuiesces == pausePc = "flush" => Live = {}

\* Training ends: no order of pauses, timers, waits and wakeups leaves the
\* trainer waiting for samples the rollouter will not make.
Termination == <>Ended

\* The rollouter "will wait for the tasks to complete and not add new tasks"
\* when a synchronization is triggered: none runs while the weights change.
NoGenerationDuringSync == trainerPc = "transfer" => Live = {}

\* "The interrupted samples will continue to be generated after
\* synchronization": while training goes on, a cancelled sample is submitted.
InterruptedResumes ==
    \A s \in Samples : In(s, cancelQueue) ~> task[s] # "none" \/ Ended

-----------------------------------------------------------------------------
(* Refinement of SamplePipeline                                            *)

Stage(s) ==
    IF s \in trained THEN "trained"
    ELSE IF In(s, queue) \/ In(s, batch) THEN "ready"
    ELSE IF hand = s \/ task[s] # "none" \/ In(s, cancelQueue) THEN "rolling"
    ELSE IF s > fed \/ In(s, pending) THEN "waiting"
    ELSE "lost"

Pipeline == INSTANCE SamplePipeline WITH
    BatchSize <- Required, StepsPerVersion <- Trigger,
    Capacity <- MaxRequired + Required + 1,
    stage <- [s \in Samples |-> Stage(s)],
    current <- trainerVersion, steps <- localStep - 1,
    closing <- phase = "extra"

\* The whole system implements SamplePipeline.
RefinesPipeline == Pipeline!Spec
=============================================================================
