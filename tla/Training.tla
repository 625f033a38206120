------------------------------ MODULE Training ------------------------------
(***************************************************************************)
(* The training loops of RayPPOTrainer.fit and OneStepOffRayTrainer.fit    *)
(* with their checkpoints, a crash of the job at any point and its restart.*)
(*                                                                         *)
(* The driver is one process; an action is a stretch of its loop between   *)
(* two points at which a crash, a generation or the disk matters.  The     *)
(* data loader is external: it yields batches 1..EpochLength in every pass *)
(* and is put back to the position a checkpoint saved.                     *)
(***************************************************************************)
EXTENDS Checkpoint

CONSTANTS Loops,          \* trainers: "ppo", "one_step_off"
          EpochLength, TotalEpochs,
          TotalTrainingSteps,  \* what trainer.total_training_steps may be: a number or Null
          CriticWarmup, SaveFreq, TestFreq,
          Remax,          \* adv_estimator is REMAX: a second, greedy generation
          MaxCrashes      \* bound: crashes of a behaviour

Null == 0
DataSteps == EpochLength * TotalEpochs  \* a step for each batch of each pass

\* _create_dataloader: a configured number takes the place of the product.
Totals == {IF n = Null THEN DataSteps ELSE n : n \in TotalTrainingSteps}

ASSUME TrainingAssumption ==
    /\ EpochLength \in Nat \ {0} /\ TotalEpochs \in Nat \ {0} /\ TotalTrainingSteps \subseteq Nat
    /\ SaveFreq \in Nat \ {0} /\ TestFreq \in Nat \ {0} /\ CriticWarmup \in Nat /\ MaxCrashes \in Nat
    /\ \A n \in Totals : 1..(n + MaxCrashes) \subseteq Steps
    /\ Roles \in {<<"actor">>, <<"actor", "critic">>}

VARIABLES
    loop,        \* which trainer runs
    total,       \* self.total_training_steps
    phase,       \* where the driver is in fit
    step,        \* self.global_steps
    epoch,       \* the variable of the loop over epochs
    position,    \* batches the data loader has yielded in this pass
    batch,       \* the batch being trained: its index and the weights that generated it
    flight,      \* batch_data_future of the one-step-off trainer
    model,       \* model[r]: the batches role r has been trained on
    rollout,     \* number of actor updates the rollout weights hold
    awake,       \* the replicas hold weights and cache
    resumedAt,   \* the step of the checkpoint the run was resumed from
    crashes

loopVars == <<step, epoch, position, batch, flight>>
weightVars == <<model, rollout, awake>>
vars == <<checkpointVars, loop, total, phase, loopVars, weightVars, resumedAt, crashes>>

NoBatch == [index |-> 0, weights |-> 0]
IsLastStep == step >= total

----------------------------------------------------------------------------
\* update_weights after a load, an update or a save: the rollout gets the
\* actor's weights, and a colocated replica is woken by it.
UpdateWeights == rollout' = Len(model["actor"]) /\ awake' = TRUE

\* External: a loader put back to the end of a pass begins with a pass that
\* yields nothing, or with a new one.
Restored(s) ==
    IF data[s] = NoData THEN {0}
    ELSE IF data[s] = EpochLength THEN {0, EpochLength} ELSE {data[s]}

\* _load_checkpoint: nothing to resume from
StartFromScratch ==
    /\ phase = "start" /\ tracker # Torn /\ Latest = 0
    /\ step' = 0 /\ resumedAt' = 0 /\ position' = 0
    /\ model' = [r \in RoleSet |-> <<>>]
    /\ phase' = "loaded"
    /\ UNCHANGED <<checkpointVars, loop, total, epoch, batch, flight, rollout, awake, crashes>>

\* Mutant of Resume: the position of the data loader is not restored.
ResumeNoData ==
    /\ phase = "start" /\ Latest # 0
    /\ \A r \in RoleSet : Loadable(r, Latest)
    /\ step' = Latest /\ resumedAt' = Latest
    /\ model' = [r \in RoleSet |-> Loaded(r, Latest)]
    /\ position' = 0
    /\ phase' = "loaded"
    /\ UNCHANGED <<checkpointVars, loop, total, epoch, batch, flight, rollout, awake, crashes>>

\* _load_checkpoint: every role and the data loader from the folder of Latest
Resume ==
    /\ phase = "start" /\ Latest # 0
    /\ \A r \in RoleSet : Loadable(r, Latest)
    /\ step' = Latest /\ resumedAt' = Latest
    /\ model' = [r \in RoleSet |-> Loaded(r, Latest)]
    /\ position' \in Restored(Latest)
    /\ phase' = "loaded"
    /\ UNCHANGED <<checkpointVars, loop, total, epoch, batch, flight, rollout, awake, crashes>>

\* int("") raises on a truncated tracker, torch.load on a missing shard.
ResumeRaises ==
    /\ phase = "start"
    /\ tracker # Torn => Latest # 0 /\ \E r \in RoleSet : ~Loadable(r, Latest)
    /\ phase' = "failed"
    /\ UNCHANGED <<checkpointVars, loop, total, loopVars, weightVars, resumedAt, crashes>>

\* Mutant of Begin: current_epoch is computed after global_steps += 1.
BeginLater ==
    /\ phase = "loaded"
    /\ UpdateWeights
    /\ epoch' = IF loop = "ppo" THEN (step + 1) \div EpochLength ELSE 0
    /\ step' = step + 1
    /\ phase' = IF loop = "ppo" THEN "fetch" ELSE "launch"
    /\ UNCHANGED <<checkpointVars, loop, total, position, batch, flight, model, resumedAt, crashes>>

\* fit up to its loop: current_epoch, the first weights, global_steps += 1.  The
\* one-step-off trainer counts epochs from 0 again.
Begin ==
    /\ phase = "loaded"
    /\ UpdateWeights
    /\ epoch' = IF loop = "ppo" THEN step \div EpochLength ELSE 0
    /\ step' = step + 1
    /\ phase' = IF loop = "ppo" THEN "fetch" ELSE "launch"
    /\ UNCHANGED <<checkpointVars, loop, total, position, batch, flight, model, resumedAt, crashes>>

----------------------------------------------------------------------------
(* RayPPOTrainer.fit                                                       *)

\* The next batch of the pass
Fetch ==
    /\ phase = "fetch" /\ epoch < TotalEpochs /\ position < EpochLength
    /\ position' = position + 1
    /\ batch' = [index |-> position + 1, weights |-> rollout]
    /\ phase' = "generate"
    /\ UNCHANGED <<checkpointVars, loop, total, step, epoch, flight, weightVars, resumedAt, crashes>>

\* The data loader is at the end of a pass: the loop over epochs goes on.
EndOfPass ==
    /\ phase = "fetch" /\ epoch < TotalEpochs /\ position = EpochLength
    /\ epoch' = epoch + 1 /\ position' = 0
    /\ UNCHANGED <<checkpointVars, loop, total, phase, step, batch, flight, weightVars, resumedAt, crashes>>

\* The loop over epochs is over and fit returns without a last step.
EndOfEpochs ==
    /\ phase = "fetch" /\ epoch >= TotalEpochs
    /\ phase' = "ended"
    /\ UNCHANGED <<checkpointVars, loop, total, loopVars, weightVars, resumedAt, crashes>>

\* generate_sequences, then sleep_replicas; REMAX does both once more.
Generate ==
    /\ phase \in {"generate", "baseline"}
    /\ awake' = FALSE
    /\ phase' = IF Remax /\ phase = "generate" THEN "baseline" ELSE "update"
    /\ UNCHANGED <<checkpointVars, loop, total, loopVars, model, rollout, resumedAt, crashes>>

----------------------------------------------------------------------------
(* OneStepOffRayTrainer.fit                                                *)

\* Mutant of Launched: the next generation runs on the weights of the one before.
LaunchedStale ==
    IF position < EpochLength
    THEN [index |-> position + 1, weights |-> IF rollout = 0 THEN 0 ELSE rollout - 1]
    ELSE IF epoch + 1 < TotalEpochs THEN [index |-> 1, weights |-> rollout] ELSE NoBatch

\* _async_gen_next_batch: the next batch of the continuous iterator, generated
\* with the weights the rollout holds; None when the data has been used up.
Launched ==
    IF position < EpochLength THEN [index |-> position + 1, weights |-> rollout]
    ELSE IF epoch + 1 < TotalEpochs THEN [index |-> 1, weights |-> rollout] ELSE NoBatch

Advance(launched) ==
    /\ flight' = launched
    /\ position' = IF launched = NoBatch THEN position ELSE launched.index
    /\ epoch' = IF position = EpochLength /\ launched # NoBatch THEN epoch + 1 ELSE epoch

\* The first generation task
Launch ==
    /\ phase = "launch"
    /\ Advance(Launched)
    /\ phase' = "await"
    /\ UNCHANGED <<checkpointVars, loop, total, step, batch, weightVars, resumedAt, crashes>>

\* await batch_data_future, sync_rollout_weights
Await ==
    /\ phase = "await" /\ flight # NoBatch
    /\ batch' = flight /\ flight' = NoBatch
    /\ UpdateWeights
    /\ phase' = IF IsLastStep THEN "update" ELSE "relaunch"
    /\ UNCHANGED <<checkpointVars, loop, total, step, epoch, position, model, resumedAt, crashes>>

\* Mutant of AwaitNone: an empty answer is waited for again.
AwaitNoneAgain == phase = "await" /\ flight = NoBatch /\ UNCHANGED vars

\* None cannot be unpacked.
AwaitNone ==
    /\ phase = "await" /\ flight = NoBatch
    /\ phase' = "underrun"
    /\ UNCHANGED <<checkpointVars, loop, total, loopVars, weightVars, resumedAt, crashes>>

\* The generation of the next batch starts before this one is trained.
Relaunch ==
    /\ phase = "relaunch"
    /\ Advance(Launched)
    /\ phase' = "update"
    /\ UNCHANGED <<checkpointVars, loop, total, step, batch, weightVars, resumedAt, crashes>>

----------------------------------------------------------------------------
(* Both loops: update, validate, save, next step                           *)

ActorTrained == CriticWarmup <= step

\* _update_critic, _update_actor; RayPPOTrainer gives the rollout the new weights.
Update ==
    /\ phase = "update"
    /\ LET after == [r \in RoleSet |-> IF r = "critic" \/ ActorTrained
                                       THEN Append(model[r], batch.index) ELSE model[r]]
       IN  /\ model' = after
           /\ IF loop = "ppo" /\ ActorTrained
              THEN rollout' = Len(after["actor"]) /\ awake' = TRUE
              ELSE UNCHANGED <<rollout, awake>>
    /\ phase' = IF IsLastStep \/ step % TestFreq = 0 THEN "validate" ELSE "decide"
    /\ UNCHANGED <<checkpointVars, loop, total, loopVars, resumedAt, crashes>>

\* _validate generates with the replicas.
Validate ==
    /\ phase = "validate"
    /\ phase' = "decide"
    /\ UNCHANGED <<checkpointVars, loop, total, loopVars, weightVars, resumedAt, crashes>>

\* The end of the instance may come near at any step (should_save_ckpt_esi).
DecideSave ==
    /\ phase = "decide"
    /\ \E esiClose \in BOOLEAN :
         IF IsLastStep \/ step % SaveFreq = 0 \/ esiClose
         THEN /\ SaveStart(step)
              /\ phase' = "save"
              /\ awake' = (loop # "ppo")
         ELSE /\ phase' = "advance"
              /\ UNCHANGED <<checkpointVars, awake>>
    /\ UNCHANGED <<loop, total, loopVars, model, rollout, resumedAt, crashes>>

\* _save_checkpoint, one action per step that the disk sees
Save ==
    /\ phase = "save"
    /\ \/ EnsureCapacity
       \/ \E k \in Ranks : SaveShard(k, model[Role])
       \/ saving.stage = "shards" /\ Register(model[Role])
       \/ SaveData(position)
       \/ TruncateTracker
       \/ WriteTracker
    /\ UNCHANGED <<loop, total, phase, loopVars, weightVars, resumedAt, crashes>>

\* Mutant of SaveReturns: the replicas are not woken after the save.
SaveReturnsAsleep ==
    /\ phase = "save" /\ saving.stage = "none"
    /\ phase' = "advance"
    /\ UNCHANGED <<checkpointVars, loop, total, loopVars, weightVars, resumedAt, crashes>>

\* RayPPOTrainer: update_weights wakes the replicas after the save.
SaveReturns ==
    /\ phase = "save" /\ saving.stage = "none"
    /\ IF loop = "ppo" THEN UpdateWeights ELSE UNCHANGED <<rollout, awake>>
    /\ phase' = "advance"
    /\ UNCHANGED <<checkpointVars, loop, total, loopVars, model, resumedAt, crashes>>

NextStep ==
    /\ phase = "advance"
    /\ step' = step + 1
    /\ phase' = IF IsLastStep THEN "done" ELSE IF loop = "ppo" THEN "fetch" ELSE "await"
    /\ UNCHANGED <<checkpointVars, loop, total, epoch, position, batch, flight, weightVars, resumedAt, crashes>>

\* The job dies and is started again.
Crash ==
    /\ phase \notin {"start", "done", "ended", "failed", "underrun"}
    /\ crashes < MaxCrashes /\ crashes' = crashes + 1
    /\ LoseMemory
    /\ phase' = "start"
    /\ step' = 0 /\ epoch' = 0 /\ position' = 0 /\ resumedAt' = 0
    /\ batch' = NoBatch /\ flight' = NoBatch
    /\ model' = [r \in RoleSet |-> <<>>] /\ rollout' = 0 /\ awake' = FALSE
    /\ UNCHANGED <<loop, total>>

Init ==
    /\ CheckpointInit
    /\ loop \in Loops /\ total \in Totals
    /\ phase = "start"
    /\ step = 0 /\ epoch = 0 /\ position = 0 /\ resumedAt = 0 /\ crashes = 0
    /\ batch = NoBatch /\ flight = NoBatch
    /\ model = [r \in RoleSet |-> <<>>] /\ rollout = 0 /\ awake = FALSE

Driver ==
    \/ StartFromScratch \/ Resume \/ ResumeRaises \/ Begin
    \/ Fetch \/ EndOfPass \/ EndOfEpochs \/ Generate
    \/ Launch \/ Await \/ AwaitNone \/ Relaunch
    \/ Update \/ Validate \/ DecideSave \/ Save \/ SaveReturns \/ NextStep

Next == Driver \/ Crash

\* The driver goes on; no crash is forced.
Spec == Init /\ [][Next]_vars /\ WF_vars(Driver)

----------------------------------------------------------------------------
(* Properties                                                              *)

\* The checkpoint the tracker names can be loaded, whatever has been rotated away
\* since and wherever the save was interrupted: every rank of every role finds its
\* shard, the shards of a role are of one model, the roles have been trained on the
\* same last batch and the data loader was saved with them.
NamedCheckpointLoads ==
    tracker \in Steps =>
        /\ \A r \in RoleSet : Loadable(r, tracker) /\ Uniform(r, tracker)
        /\ \A q, r \in RoleSet : Last(Loaded(q, tracker)) = Last(Loaded(r, tracker))
        /\ data[tracker] # NoData

\* The actor is updated with a batch that its own weights have generated, or those
\* before its last update in the one-step-off trainer.
LagBound ==
    phase = "update" => Len(model["actor"]) - batch.weights \in 0..(IF loop = "ppo" THEN 0 ELSE 1)

\* The batch that follows "last" in the passes over the data, and the one after that
Following(last) == (last % EpochLength) + 1
Skipped(r) == {i \in 1..Len(model[r]) :
                 model[r][i] # Following(IF i = 1 THEN 0 ELSE model[r][i - 1])}

\* Crashes and restarts make no role train on a batch twice or leave one out, but the
\* one-step-off trainer leaves out the batch in flight, one for each restart.
BatchesInTurn ==
    \A r \in RoleSet :
        /\ Cardinality(Skipped(r)) <= (IF loop = "ppo" THEN 0 ELSE crashes)
        /\ \A i \in Skipped(r) \ {1} : model[r][i] = Following(Following(model[r][i - 1]))

\* Colocated replicas are asked to generate only while they hold weights and cache.
GeneratesAwake ==
    loop = "ppo" /\ phase \in {"generate", "baseline", "validate"} => awake

\* How many batches the data loader had yielded when the run began
Yielded == IF resumedAt = 0 THEN 0 ELSE data[resumedAt]

\* RayPPOTrainer stops short of its last step only in a run that asks for more steps
\* than there are batches, or that was resumed at the end of a pass; the one-step-off
\* trainer, which counts passes from 0 again, finds no next batch only in a run that
\* began with fewer batches left than steps, or with none.
StopsShort ==
    /\ phase = "ended" => total > DataSteps \/ Yielded = EpochLength
    /\ phase = "underrun" =>
         DataSteps - Yielded < total - resumedAt \/ Yielded = DataSteps

\* What resume_mode "auto" promises (trainer/config/ppo_trainer.yaml:169, "resume from
\* last checkpoint if available"): a run resumed within a pass over the data has a
\* batch for each of its steps.
\* The code breaks it: the batch that was in flight when the checkpoint was saved
\* counts as read, and the last step of the run awaits None.
NextBatchFound == phase = "underrun" => resumedAt = 0 \/ data[resumedAt] = EpochLength

\* The role that is saved last is trained on every batch.
LastRole == Roles[Len(Roles)]
NamedLineage == IF tracker \in Steps THEN Loaded(LastRole, tracker) ELSE <<>>

Durable == INSTANCE DurableTraining
    WITH Batches <- 1..EpochLength,
         working <- IF phase = "start" THEN NamedLineage ELSE model[LastRole],
         durable <- NamedLineage,
         committing <- tracker = Torn

\* Checkpoints keep the promise of DurableTraining: training goes on from the model
\* it had at its last commit, never from a mixture of two saves.
RefinesDurable == Durable!Spec

\* The driver ends, by its last step or by one of the errors above.
TrainingEnds == <>(phase \in {"done", "ended", "failed", "underrun"})
=============================================================================
