--------------------------- MODULE TrainingProofs ---------------------------
(***************************************************************************)
(* What holds of the training loops for every number of ranks, batches,    *)
(* passes, checkpoints kept and crashes.                                   *)
(*                                                                         *)
(* Inv types the state and keeps a save within its roles and its step.     *)
(* LagInv follows the weights of a batch from its generation to its        *)
(* update.  DurableInv relates the disk to what is in memory: the newest   *)
(* path a role keeps is the one the tracker names, so that rotation never  *)
(* reaches it, and what the save under way has written is the model of     *)
(* this step, so that the tracker names it only when it is complete.       *)
(*                                                                         *)
(* The rest is about the order of the batches.                             *)
(* TurnInv says of every history in memory, and NamedInv of those the      *)
(* tracker names, that they are in turn and which batch may follow them;   *)
(* ReadInv ties the position of the data loader to the batches in memory.  *)
(* CountInv counts batches read against steps made: within a run they go   *)
(* together, and a restart can only add what the checkpoint had read.      *)
(***************************************************************************)
EXTENDS Training, FiniteSetTheorems, TLAPS

Stages == {"none", "capacity", "shards", "data", "truncate", "write"}
Before == {"start", "loaded"}
Over == {"done", "ended", "failed", "underrun"}
PpoPhases == {"fetch", "generate", "baseline"}
OneStepPhases == {"launch", "await", "relaunch"}
Running == PpoPhases \cup OneStepPhases \cup {"update", "validate", "decide", "save", "advance"}
Batch == [index : Nat, weights : Nat]

DiskTypes ==
    /\ shard \in [RoleSet -> [Steps -> [Ranks -> Seq(Nat)]]]
    /\ data \in [Steps -> Nat \cup {NoData}]
    /\ tracker \in Steps \cup {0, Torn}
    /\ saved \in [RoleSet -> Seq(Steps)]
    /\ saving \in [stage : Stages, role : Nat, step : Nat]

LoopTypes ==
    /\ phase \in Before \cup Running \cup Over
    /\ step \in Nat /\ epoch \in Nat /\ position \in Nat
    /\ batch \in Batch /\ flight \in Batch
    /\ model \in [RoleSet -> Seq(Nat)]
    /\ rollout \in Nat /\ awake \in BOOLEAN /\ crashes \in Nat /\ total \in Totals

Types == DiskTypes /\ LoopTypes

----------------------------------------------------------------------------
(* The constants, and sequences of paths                                    *)

\* The two ways roles are configured
LEMMA TwoRoles ==
  /\ "actor" \in RoleSet /\ Roles[Len(Roles)] \in RoleSet
  /\ Len(Roles) \in Nat \ {0}
  /\ \A i \in 1..Len(Roles) : Roles[i] \in RoleSet
  /\ \A r \in RoleSet : \E i \in 1..Len(Roles) : Roles[i] = r
  /\ \A i, j \in 1..Len(Roles) : Roles[i] = Roles[j] => i = j
<1>1. CASE Roles = <<"actor">>
  BY <1>1 DEF RoleSet
<1>2. CASE Roles = <<"actor", "critic">>
  BY <1>2 DEF RoleSet
<1>. QED BY <1>1, <1>2, TrainingAssumption

\* There is a step, and the disk has room for each.
LEMMA TotalIsPositive ==
  \A n \in Totals : n \in Nat \ {0} /\ \A s \in 1..(n + MaxCrashes) : s \in Steps
<1>1. DataSteps \in Nat \ {0}
  BY TrainingAssumption DEF DataSteps
<1>. QED BY <1>1, TrainingAssumption DEF Totals, Null

LEMMA StepsAreNumbers == \A s \in Steps : s \in Nat /\ s \in Int /\ s > 0
  BY CheckpointAssumption

LEMMA NewestShape ==
  ASSUME NEW S, NEW p \in Seq(S), NEW n \in 0..Len(p)
  PROVE  /\ Newest(p, n) \in Seq(S) /\ Len(Newest(p, n)) = n
         /\ \A i \in 1..n : Newest(p, n)[i] = p[Len(p) - n + i]
  BY DEF Newest

LEMMA BeyondShape ==
  ASSUME NEW S, NEW p \in Seq(S), NEW n \in 0..Len(p)
  PROVE  /\ Beyond(p, n) \in Seq(S) /\ Len(Beyond(p, n)) = Len(p) - n
         /\ \A i \in 1..Len(p) - n : Beyond(p, n)[i] = p[i]
  BY DEF Beyond

\* Removing paths keeps the shape of the disk, and the shards of other roles and steps.
LEMMA RemovedShape ==
  ASSUME DiskTypes, NEW q \in RoleSet, NEW p
  PROVE  /\ Removed(q, p) \in [RoleSet -> [Steps -> [Ranks -> Seq(Nat)]]]
         /\ \A r \in RoleSet, s \in Steps :
              r # q \/ (\A i \in 1..Len(p) : p[i] # s) => Removed(q, p)[r][s] = shard[r][s]
<1>1. NoShard \in Seq(Nat)
  BY DEF NoShard
<1>2. [k \in Ranks |-> NoShard] \in [Ranks -> Seq(Nat)]
  BY <1>1
<1>. QED BY <1>2 DEF Removed, DiskTypes

\* A role is loaded from a shard of some rank.
LEMMA LoadedType ==
  ASSUME DiskTypes, NEW r \in RoleSet, Latest # 0
  PROVE  Latest = tracker /\ tracker \in Steps /\ Loaded(r, Latest) \in Seq(Nat)
<1>1. Latest = tracker /\ tracker \in Steps
  BY DEF Latest
<1>2. (CHOOSE k \in Ranks : TRUE) \in Ranks
  BY CheckpointAssumption
<1>. QED BY <1>1, <1>2 DEF Loaded, DiskTypes

----------------------------------------------------------------------------
(* Types                                                                    *)

LEMMA ShardWritten ==
  ASSUME NEW A, NEW B, NEW C, NEW D, NEW f \in [A -> [B -> [C -> D]]],
         NEW a \in A, NEW b \in B, NEW c \in C, NEW d \in D
  PROVE  [f EXCEPT ![a][b][c] = d] \in [A -> [B -> [C -> D]]]
<1>1. [f[a] EXCEPT ![b][c] = d] \in [B -> [C -> D]]
  <2>1. [f[a][b] EXCEPT ![c] = d] \in [C -> D]
    OBVIOUS
  <2>. QED BY <2>1
<1>. QED BY <1>1

\* While a save is under way its role is one of the roles, and its step is saved.
SavingInv ==
    saving.stage # "none" => /\ phase = "save" /\ saving.step = step
                             /\ saving.role \in 1..Len(Roles)

LEMMA SavingRole ==
  ASSUME SavingInv, DiskTypes, saving.stage # "none"
  PROVE  Role \in RoleSet
  BY TwoRoles DEF SavingInv, Role

\* What a save does to the disk
LEMMA DiskStep ==
  ASSUME DiskTypes, SavingInv, step \in Steps, model \in [RoleSet -> Seq(Nat)],
         position \in Nat, Save
  PROVE  DiskTypes'
<1>1. CASE EnsureCapacity
  <2>1. Role \in RoleSet
    BY <1>1, SavingRole DEF EnsureCapacity
  <2>2. saving' \in [stage : Stages, role : Nat, step : Nat]
    BY <1>1 DEF EnsureCapacity, DiskTypes, Stages
  <2>3. CASE ~(Keep > 1 /\ Len(saved[Role]) >= Keep)
    BY <1>1, <2>2, <2>3 DEF EnsureCapacity, DiskTypes
  <2>4. CASE Keep > 1 /\ Len(saved[Role]) >= Keep
    <3>1. saved[Role] \in Seq(Steps) /\ Keep - 1 \in 0..Len(saved[Role])
      BY <2>1, <2>4, CheckpointAssumption DEF DiskTypes
    <3>2. Newest(saved[Role], Keep - 1) \in Seq(Steps)
      BY <3>1, NewestShape
    <3>3. Removed(Role, Beyond(saved[Role], Keep - 1)) \in [RoleSet -> [Steps -> [Ranks -> Seq(Nat)]]]
      BY <2>1, RemovedShape
    <3>4. /\ shard' = Removed(Role, Beyond(saved[Role], Keep - 1))
          /\ saved' = [saved EXCEPT ![Role] = Newest(saved[Role], Keep - 1)]
          /\ UNCHANGED <<data, tracker>>
      BY <1>1, <2>4 DEF EnsureCapacity
    <3>. QED BY <2>1, <2>2, <3>2, <3>3, <3>4 DEF DiskTypes
  <2>. QED BY <2>3, <2>4
<1>2. CASE \E k \in Ranks : SaveShard(k, model[Role])
  <2>1. Role \in RoleSet
    BY <1>2, SavingRole DEF SaveShard
  <2>2. PICK k \in Ranks : shard' = [shard EXCEPT ![Role][saving.step][k] = model[Role]]
    BY <1>2 DEF SaveShard
  <2>3. saving.step \in Steps
    BY <1>2 DEF SaveShard, SavingInv
  <2>4. shard' \in [RoleSet -> [Steps -> [Ranks -> Seq(Nat)]]]
    BY <2>1, <2>2, <2>3, ShardWritten DEF DiskTypes
  <2>5. UNCHANGED <<data, tracker, saved, saving>>
    BY <1>2 DEF SaveShard
  <2>. QED BY <2>4, <2>5 DEF DiskTypes
<1>3. CASE saving.stage = "shards" /\ Register(model[Role])
  <2>1. Role \in RoleSet /\ saving.step \in Steps
    BY <1>3, SavingRole DEF SavingInv
  <2>2. saving' \in [stage : Stages, role : Nat, step : Nat]
    BY <1>3 DEF Register, DiskTypes, Stages
  <2>. DEFINE paths == Append(saved[Role], saving.step)
              over == Keep > 0 /\ Len(paths) > Keep
  <2>3. paths \in Seq(Steps)
    BY <2>1 DEF DiskTypes
  <2>4. over => Newest(paths, Keep) \in Seq(Steps)
    <3>1. over => Keep \in 0..Len(paths)
      BY <2>3, CheckpointAssumption
    <3>. QED BY <2>3, <3>1, NewestShape
  <2>5. shard' = IF over THEN Removed(Role, Beyond(paths, Keep)) ELSE shard
    BY <1>3 DEF Register
  <2>6. saved' = [saved EXCEPT ![Role] = IF over THEN Newest(paths, Keep) ELSE paths]
    BY <1>3 DEF Register
  <2>7. saved' \in [RoleSet -> Seq(Steps)]
    BY <2>1, <2>3, <2>4, <2>6 DEF DiskTypes
  <2>8. shard' \in [RoleSet -> [Steps -> [Ranks -> Seq(Nat)]]]
    BY <2>1, <2>5, RemovedShape DEF DiskTypes
  <2>. QED BY <1>3, <2>2, <2>7, <2>8 DEF Register, DiskTypes
<1>4. CASE SaveData(position)
  BY <1>4 DEF SaveData, DiskTypes, Stages, NoData
<1>5. CASE TruncateTracker
  BY <1>5 DEF TruncateTracker, DiskTypes, Stages
<1>6. CASE WriteTracker
  BY <1>6 DEF WriteTracker, DiskTypes, Stages, NotSaving, SavingInv
<1>. QED BY <1>1, <1>2, <1>3, <1>4, <1>5, <1>6 DEF Save

\* No step is taken, and none named by the tracker, beyond the last one the disk has
\* room for: a run resumed at its last step takes one more.
StepInv ==
    /\ crashes <= MaxCrashes
    /\ tracker <= total + crashes
    /\ phase \in Before => tracker < total + crashes
    /\ phase = "loaded" => step < total + crashes
    /\ phase \in Running => step \in 1..total + crashes

\* Every phase is one of the loop that runs.
LoopInv ==
    /\ phase \in PpoPhases => loop = "ppo"
    /\ phase \in OneStepPhases => loop # "ppo"

Inv == Types /\ SavingInv /\ StepInv /\ LoopInv

LEMMA InvInit == Init => Inv
<1>. SUFFICES ASSUME Init PROVE Inv
  OBVIOUS
<1>. USE DEF Init, CheckpointInit
<1>1. shard \in [RoleSet -> [Steps -> [Ranks -> Seq(Nat)]]]
  <2>1. NoShard \in Seq(Nat)
    BY DEF NoShard
  <2>. QED BY <2>1
<1>2. saved \in [RoleSet -> Seq(Steps)] /\ model \in [RoleSet -> Seq(Nat)]
  <2>1. <<>> \in Seq(Steps) /\ <<>> \in Seq(Nat)
    OBVIOUS
  <2>. QED BY <2>1
<1>3. DiskTypes
  BY <1>1, <1>2 DEF DiskTypes, NoData, NotSaving, Stages
<1>4. LoopTypes
  BY <1>2 DEF LoopTypes, NoBatch, Before, Batch
<1>5. SavingInv /\ StepInv /\ LoopInv
  BY TotalIsPositive, TrainingAssumption
     DEF SavingInv, StepInv, LoopInv, NotSaving, Before, Running, PpoPhases, OneStepPhases
<1>. QED BY <1>3, <1>4, <1>5 DEF Inv, Types

\* A save, and the steps of fit around it, keep the save within the roles.
LEMMA SavingStep == Inv /\ [Next]_vars => SavingInv'
<1>. SUFFICES ASSUME Inv, [Next]_vars PROVE SavingInv'
  OBVIOUS
<1>. USE DEF Inv, Types, DiskTypes, SavingInv
<1>1. CASE Save
  <2>1. CASE EnsureCapacity
    BY <1>1, <2>1 DEF Save, EnsureCapacity, loopVars
  <2>2. CASE \E k \in Ranks : SaveShard(k, model[Role])
    BY <1>1, <2>2 DEF Save, SaveShard, loopVars
  <2>3. CASE saving.stage = "shards" /\ Register(model[Role])
    BY <1>1, <2>3, TwoRoles DEF Save, Register, loopVars
  <2>4. CASE SaveData(position)
    BY <1>1, <2>4 DEF Save, SaveData, loopVars
  <2>5. CASE TruncateTracker
    BY <1>1, <2>5 DEF Save, TruncateTracker, loopVars
  <2>6. CASE WriteTracker
    BY <1>1, <2>6 DEF Save, WriteTracker, NotSaving, loopVars
  <2>. QED BY <1>1, <2>1, <2>2, <2>3, <2>4, <2>5, <2>6 DEF Save
<1>2. CASE DecideSave
  BY <1>2, TwoRoles DEF DecideSave, SaveStart, checkpointVars, loopVars
<1>3. CASE Crash
  BY <1>3 DEF Crash, LoseMemory, NotSaving
<1>4. CASE SaveReturns
  BY <1>4 DEF SaveReturns, checkpointVars
<1>5. CASE \/ StartFromScratch \/ Resume \/ ResumeRaises \/ Begin
            \/ Fetch \/ EndOfPass \/ EndOfEpochs \/ Generate
            \/ Launch \/ Await \/ AwaitNone \/ Relaunch
            \/ Update \/ Validate \/ NextStep
  <2>1. saving' = saving /\ phase # "save"
    BY <1>5 DEF StartFromScratch, Resume, ResumeRaises, Begin, Fetch, EndOfPass, EndOfEpochs, Generate,
       Launch, Await, AwaitNone, Relaunch, Update, Validate, NextStep, checkpointVars
  <2>. QED BY <2>1
<1>6. CASE UNCHANGED vars
  BY <1>6 DEF vars, checkpointVars, loopVars
<1>. QED BY <1>1, <1>2, <1>3, <1>4, <1>5, <1>6 DEF Next, Driver

\* What the steps of a save leave alone, and what they do to the tracker.
LEMMA SaveFrame ==
  ASSUME Save
  PROVE  /\ UNCHANGED <<loop, total, phase, loopVars, weightVars, resumedAt, crashes>> /\ phase = "save"
         /\ tracker' \in {tracker, Torn, saving.step}
         /\ tracker' = saving.step /\ tracker' # tracker => saving.stage = "write" \/ tracker' = Torn
<1>1. UNCHANGED <<loop, total, phase, loopVars, weightVars, resumedAt, crashes>> /\ phase = "save"
  BY DEF Save
<1>2. CASE EnsureCapacity
  BY <1>1, <1>2 DEF EnsureCapacity
<1>3. CASE \E k \in Ranks : SaveShard(k, model[Role])
  BY <1>1, <1>3 DEF SaveShard
<1>4. CASE saving.stage = "shards" /\ Register(model[Role])
  BY <1>1, <1>4 DEF Register
<1>5. CASE SaveData(position)
  BY <1>1, <1>5 DEF SaveData
<1>6. CASE TruncateTracker
  BY <1>1, <1>6 DEF TruncateTracker
<1>7. CASE WriteTracker
  BY <1>1, <1>7 DEF WriteTracker
<1>. QED BY <1>2, <1>3, <1>4, <1>5, <1>6, <1>7 DEF Save

LEMMA StepStep == Inv /\ [Next]_vars => StepInv' /\ LoopInv'
<1>. SUFFICES ASSUME Inv, [Next]_vars PROVE StepInv' /\ LoopInv'
  OBVIOUS
<1>. USE TotalIsPositive
         DEF Inv, Types, DiskTypes, LoopTypes, StepInv, LoopInv, Before, Running, PpoPhases,
             OneStepPhases, Over, loopVars, weightVars
<1>1. CASE StartFromScratch
  BY <1>1 DEF StartFromScratch, checkpointVars
<1>2. CASE Resume
  <2>1. Latest = tracker /\ tracker \in Steps
    BY <1>2 DEF Resume, Latest
  <2>2. /\ phase' = "loaded" /\ step' = tracker /\ phase = "start"
        /\ UNCHANGED <<tracker, loop, total, crashes>>
    BY <1>2, <2>1 DEF Resume, checkpointVars
  <2>. QED BY <2>1, <2>2, CheckpointAssumption
<1>3. CASE ResumeRaises \/ EndOfEpochs \/ AwaitNone
  BY <1>3 DEF ResumeRaises, EndOfEpochs, AwaitNone, checkpointVars
<1>4. CASE Begin
  BY <1>4 DEF Begin, checkpointVars
<1>5. CASE Fetch \/ EndOfPass \/ Generate
  BY <1>5 DEF Fetch, EndOfPass, Generate, checkpointVars
<1>6. CASE Launch \/ Await \/ Relaunch
  BY <1>6 DEF Launch, Await, Relaunch, checkpointVars
<1>7. CASE Update \/ Validate \/ SaveReturns
  BY <1>7 DEF Update, Validate, SaveReturns, checkpointVars
<1>8. CASE DecideSave
  BY <1>8 DEF DecideSave, SaveStart, checkpointVars, diskVars
<1>9. CASE Save
  <2>1. UNCHANGED <<loop, total, phase, step, crashes>> /\ phase = "save"
    BY <1>9, SaveFrame
  <2>2. tracker' <= total + crashes
    <3>1. CASE tracker' = tracker
      BY <3>1
    <3>2. CASE tracker' = Torn
      BY <3>2 DEF Torn
    <3>3. CASE tracker' = saving.step /\ tracker' # tracker /\ tracker' # Torn
      BY <1>9, <2>1, <3>3, SaveFrame DEF SavingInv
    <3>. QED BY <1>9, <3>1, <3>2, <3>3, SaveFrame
  <2>. QED BY <2>1, <2>2
<1>10. CASE NextStep
  BY <1>10 DEF NextStep, IsLastStep, checkpointVars
<1>11. CASE Crash
  <2>1. /\ crashes' = crashes + 1 /\ crashes < MaxCrashes /\ UNCHANGED <<tracker, total>>
        /\ phase' = "start"
    BY <1>11 DEF Crash, LoseMemory, diskVars
  <2>2. MaxCrashes \in Nat
    BY TrainingAssumption
  <2>3. total \in Nat /\ tracker \in Int
    BY CheckpointAssumption DEF Torn
  <2>. QED BY <2>1, <2>2, <2>3
<1>12. CASE UNCHANGED vars
  BY <1>12 DEF vars, checkpointVars
<1>. QED BY <1>1, <1>2, <1>3, <1>4, <1>5, <1>6, <1>7, <1>8, <1>9, <1>10, <1>11, <1>12 DEF Next, Driver

LEMMA LaunchedType ==
  ASSUME LoopTypes
  PROVE  Launched \in Batch
  BY TrainingAssumption DEF LoopTypes, Launched, Batch, NoBatch

LEMMA TypesStep == Inv /\ [Next]_vars => Types'
<1>. SUFFICES ASSUME Inv, [Next]_vars PROVE Types'
  OBVIOUS
<1>. USE DEF Inv, Types
<1>e. <<>> \in Seq(Nat) /\ <<>> \in Seq(Steps)
  OBVIOUS
<1>n. NoBatch \in Batch
  BY DEF NoBatch, Batch
<1>u. ASSUME UpdateWeights, model' = model PROVE rollout' \in Nat /\ awake' \in BOOLEAN
  BY <1>u, TwoRoles DEF UpdateWeights, LoopTypes
<1>1. ASSUME UNCHANGED checkpointVars PROVE DiskTypes'
  BY <1>1 DEF checkpointVars, DiskTypes
<1>2. CASE StartFromScratch
  BY <1>2, <1>1, <1>e DEF StartFromScratch, LoopTypes, Before
<1>3. CASE Resume
  <2>1. model' \in [RoleSet -> Seq(Nat)]
    <3>1. \A r \in RoleSet : Loaded(r, Latest) \in Seq(Nat)
      BY <1>3, LoadedType DEF Resume
    <3>. QED BY <1>3, <3>1 DEF Resume
  <2>2. step' \in Nat
    BY <1>3, TwoRoles, LoadedType, CheckpointAssumption DEF Resume
  <2>3. position' \in Nat
    <3>1. Latest \in Steps
      BY <1>3, TwoRoles, LoadedType DEF Resume
    <3>. QED BY <1>3, <3>1, TrainingAssumption DEF Resume, Restored, DiskTypes, NoData
  <2>. QED BY <1>3, <1>1, <2>1, <2>2, <2>3 DEF Resume, LoopTypes, Before
<1>4. CASE ResumeRaises \/ EndOfEpochs \/ AwaitNone
  BY <1>4, <1>1 DEF ResumeRaises, EndOfEpochs, AwaitNone, LoopTypes, Over, loopVars, weightVars
<1>5. CASE Begin
  <2>1. epoch' \in Nat
    <3>1. EpochLength \in Nat \ {0}
      BY TrainingAssumption
    <3>2. step \in Nat => step \div EpochLength \in Nat
      BY ONLY <3>1
    <3>. QED BY <1>5, <3>2 DEF Begin, LoopTypes
  <2>. QED BY <1>5, <1>1, <1>u, <2>1 DEF Begin, LoopTypes, Running, PpoPhases, OneStepPhases
<1>6. CASE Fetch
  BY <1>6, <1>1 DEF Fetch, LoopTypes, Running, PpoPhases, Batch, weightVars
<1>7. CASE EndOfPass
  BY <1>7, <1>1 DEF EndOfPass, LoopTypes, weightVars
<1>8. CASE Generate
  BY <1>8, <1>1 DEF Generate, LoopTypes, Running, PpoPhases, loopVars
<1>9. CASE Launch \/ Relaunch
  <2>1. flight' \in Batch /\ position' \in Nat /\ epoch' \in Nat
    BY <1>9, LaunchedType DEF Launch, Relaunch, Advance, LoopTypes, Batch
  <2>2. phase' \in Running
    BY <1>9 DEF Launch, Relaunch, Running, OneStepPhases
  <2>3. UNCHANGED <<checkpointVars, total, step, batch, weightVars, crashes>>
    BY <1>9 DEF Launch, Relaunch
  <2>. QED BY <1>1, <2>1, <2>2, <2>3 DEF LoopTypes, weightVars
<1>10. CASE Await
  BY <1>10, <1>1, <1>n, <1>u DEF Await, LoopTypes, Running, OneStepPhases
<1>11. CASE Update
  <2>1. PICK after : /\ after = [r \in RoleSet |-> IF r = "critic" \/ ActorTrained
                                  THEN Append(model[r], batch.index) ELSE model[r]]
                    /\ model' = after
                    /\ \/ rollout' = Len(after["actor"]) /\ awake' = TRUE
                       \/ UNCHANGED <<rollout, awake>>
    BY <1>11 DEF Update
  <2>2. model' \in [RoleSet -> Seq(Nat)]
    <3>1. \A r \in RoleSet : Append(model[r], batch.index) \in Seq(Nat)
      BY DEF LoopTypes, Batch
    <3>. QED BY <2>1, <3>1 DEF LoopTypes
  <2>3. rollout' \in Nat /\ awake' \in BOOLEAN
    <3>1. after["actor"] \in Seq(Nat)
      BY <2>1, <2>2, TwoRoles
    <3>2. Len(after["actor"]) \in Nat
      BY <3>1
    <3>. QED BY <2>1, <3>2 DEF LoopTypes
  <2>4. phase' \in Running /\ UNCHANGED <<checkpointVars, total, loopVars, crashes>>
    BY <1>11 DEF Update, Running
  <2>. QED BY <1>1, <2>2, <2>3, <2>4 DEF LoopTypes, loopVars
<1>12. CASE Validate
  BY <1>12, <1>1 DEF Validate, LoopTypes, Running, loopVars, weightVars
<1>13. CASE DecideSave
  <2>1. DiskTypes'
    <3>1. CASE SaveStart(step)
      BY <3>1 DEF SaveStart, DiskTypes, LoopTypes, Stages, diskVars
    <3>. QED BY <1>13, <1>1, <3>1 DEF DecideSave
  <2>2. phase' \in Running /\ awake' \in BOOLEAN /\ UNCHANGED <<total, loopVars, model, rollout, crashes>>
    BY <1>13 DEF DecideSave, Running, LoopTypes, checkpointVars
  <2>. QED BY <2>1, <2>2 DEF LoopTypes, loopVars
<1>14. CASE Save
  <2>1. UNCHANGED <<total, phase, loopVars, weightVars, crashes>> /\ phase = "save"
    BY <1>14, SaveFrame
  <2>2. step \in Steps
    BY <2>1, TotalIsPositive, TrainingAssumption DEF StepInv, LoopTypes, Running
  <2>3. DiskTypes'
    BY <1>14, <2>2, DiskStep DEF LoopTypes
  <2>. QED BY <2>1, <2>3 DEF LoopTypes, loopVars, weightVars
<1>15. CASE SaveReturns
  BY <1>15, <1>1, <1>u DEF SaveReturns, LoopTypes, Running, loopVars
<1>16. CASE NextStep
  BY <1>16, <1>1 DEF NextStep, LoopTypes, Running, PpoPhases, OneStepPhases, Over, weightVars
<1>17. CASE Crash
  <2>1. DiskTypes'
    BY <1>17, <1>e DEF Crash, LoseMemory, DiskTypes, diskVars, NotSaving, Stages
  <2>2. model' \in [RoleSet -> Seq(Nat)]
    BY <1>17, <1>e DEF Crash
  <2>3. /\ phase' \in Before /\ crashes' \in Nat /\ step' = 0 /\ epoch' = 0 /\ position' = 0
        /\ batch' = NoBatch /\ flight' = NoBatch /\ rollout' = 0 /\ awake' = FALSE /\ total' = total
    BY <1>17 DEF Crash, LoopTypes, Before
  <2>4. LoopTypes'
    BY <1>n, <2>2, <2>3 DEF LoopTypes
  <2>. QED BY <2>1, <2>4
<1>18. CASE UNCHANGED vars
  BY <1>18, <1>1 DEF vars, LoopTypes, loopVars, weightVars
<1>. QED BY <1>2, <1>3, <1>4, <1>5, <1>6, <1>7, <1>8, <1>9, <1>10, <1>11, <1>12, <1>13, <1>14,
            <1>15, <1>16, <1>17, <1>18 DEF Next, Driver

THEOREM Invariance == Spec => []Inv
<1>1. Inv /\ [Next]_vars => Inv'
  BY TypesStep, SavingStep, StepStep DEF Inv
<1>. QED BY InvInit, <1>1, PTL DEF Spec

----------------------------------------------------------------------------
(* The weights a batch was generated with                                   *)

Updates == Len(model["actor"])

LagInv ==
    /\ loop = "ppo" =>
         /\ phase \in Running => rollout = Updates
         /\ phase \in {"generate", "baseline", "update"} => batch.weights = rollout
    /\ loop # "ppo" =>
         /\ phase \in {"launch", "relaunch"} => rollout = Updates
         /\ phase = "update" /\ flight # NoBatch => flight.weights = Updates
         /\ phase \in {"await", "validate", "decide", "save", "advance"} /\ flight # NoBatch =>
              Updates - flight.weights \in 0..1
         /\ phase \in {"relaunch", "update"} => Updates - batch.weights \in 0..1

\* An update appends at most one batch to the actor's history.
LEMMA UpdateAppends ==
  ASSUME LoopTypes, Update
  PROVE  /\ Updates \in Nat /\ model' \in [RoleSet -> Seq(Nat)]
         /\ Updates' = IF ActorTrained THEN Updates + 1 ELSE Updates
         /\ loop = "ppo" => rollout' = IF ActorTrained THEN Updates' ELSE rollout
<1>. DEFINE after == [r \in RoleSet |-> IF r = "critic" \/ ActorTrained
                                       THEN Append(model[r], batch.index) ELSE model[r]]
<1>1. model' = after /\ (loop = "ppo" /\ ActorTrained => rollout' = Len(after["actor"]))
      /\ (~(loop = "ppo" /\ ActorTrained) => rollout' = rollout)
  BY DEF Update
<1>2. \A r \in RoleSet : Append(model[r], batch.index) \in Seq(Nat)
  BY DEF LoopTypes, Batch
<1>3. model' \in [RoleSet -> Seq(Nat)]
  BY <1>1, <1>2 DEF LoopTypes
<1>4. model["actor"] \in Seq(Nat) /\ Updates \in Nat
  BY TwoRoles DEF LoopTypes, Updates
<1>5. model'["actor"] = IF ActorTrained THEN Append(model["actor"], batch.index) ELSE model["actor"]
  BY <1>1, TwoRoles
<1>6. Updates' = IF ActorTrained THEN Updates + 1 ELSE Updates
  BY <1>4, <1>5 DEF Updates
<1>. QED BY <1>1, <1>3, <1>4, <1>6 DEF Updates

LEMMA LagStep == Inv /\ LagInv /\ [Next]_vars => LagInv'
<1>. SUFFICES ASSUME Inv, LagInv, [Next]_vars PROVE LagInv'
  OBVIOUS
<1>. USE DEF LagInv, Running, PpoPhases, OneStepPhases
<1>u. Updates \in Nat /\ rollout \in Nat
  BY TwoRoles DEF Inv, Types, LoopTypes, Updates
<1>1. CASE StartFromScratch \/ Resume \/ ResumeRaises \/ EndOfEpochs \/ AwaitNone
  BY <1>1 DEF StartFromScratch, Resume, ResumeRaises, EndOfEpochs, AwaitNone
<1>2. CASE Begin
  BY <1>2 DEF Begin, UpdateWeights, Updates
<1>3. CASE Fetch \/ EndOfPass
  BY <1>3 DEF Fetch, EndOfPass, weightVars, Updates, Inv, LoopInv
<1>4. CASE Generate
  BY <1>4 DEF Generate, loopVars, Updates, Inv, LoopInv
<1>5. CASE Launch \/ Relaunch
  <2>1. /\ \/ phase = "launch" /\ phase' = "await"
           \/ phase = "relaunch" /\ phase' = "update"
        /\ flight' = Launched /\ UNCHANGED <<loop, batch, weightVars>>
    BY <1>5 DEF Launch, Relaunch, Advance
  <2>2. Launched # NoBatch => Launched.weights = rollout
    BY DEF Launched
  <2>3. loop # "ppo"
    BY <2>1 DEF Inv, LoopInv
  <2>. QED BY <1>u, <2>1, <2>2, <2>3 DEF weightVars, Updates
<1>6. CASE Await
  BY <1>6, <1>u DEF Await, UpdateWeights, Updates, Inv, LoopInv
<1>7. CASE Update
  <2>1. /\ phase = "update" /\ phase' \in {"validate", "decide"}
        /\ UNCHANGED <<loop, batch, flight>>
    BY <1>7 DEF Update, loopVars
  <2>2. Updates' \in {Updates, Updates + 1} /\ (loop = "ppo" => rollout' = Updates')
    BY <1>7, <1>u, <2>1, UpdateAppends DEF Inv, Types
  <2>. QED BY <1>u, <2>1, <2>2
<1>8. CASE Validate
  BY <1>8 DEF Validate, loopVars, weightVars, Updates
<1>9. CASE DecideSave
  BY <1>9 DEF DecideSave, loopVars, Updates
<1>10. CASE Save
  BY <1>10, SaveFrame DEF loopVars, weightVars, Updates
<1>11. CASE SaveReturns
  BY <1>11 DEF SaveReturns, UpdateWeights, loopVars, Updates
<1>12. CASE NextStep
  BY <1>12 DEF NextStep, weightVars, Updates
<1>13. CASE Crash
  BY <1>13 DEF Crash
<1>14. CASE UNCHANGED vars
  BY <1>14 DEF vars, loopVars, weightVars, Updates
<1>. QED BY <1>1, <1>2, <1>3, <1>4, <1>5, <1>6, <1>7, <1>8, <1>9, <1>10, <1>11, <1>12, <1>13, <1>14
         DEF Next, Driver

\* RayPPOTrainer updates the actor with a batch its own weights have generated, the
\* one-step-off trainer with one at most one update behind, across crashes and
\* restarts, for every number of ranks, steps, epochs and checkpoints.
THEOREM BoundedLag == Spec => []LagBound
<1>1. Init => LagInv
  BY DEF Init, LagInv, Running, PpoPhases, OneStepPhases
<1>2. Inv /\ LagInv => LagBound
  <2>. SUFFICES ASSUME Inv, LagInv, phase = "update"
                PROVE  Len(model["actor"]) - batch.weights \in 0..(IF loop = "ppo" THEN 0 ELSE 1)
    BY DEF LagBound
  <2>1. Updates \in Nat
    BY TwoRoles DEF Inv, Types, LoopTypes, Updates
  <2>. QED BY <2>1 DEF LagInv, Running, Updates
<1>3. Spec => []LagInv
  BY Invariance, <1>1, LagStep, PTL DEF Spec
<1>. QED BY Invariance, <1>2, <1>3, PTL

----------------------------------------------------------------------------
(* Colocated replicas                                                       *)

AwakeInv ==
    loop = "ppo" =>
        /\ phase # "baseline"
        /\ phase \in {"fetch", "generate", "validate", "decide", "advance"} => awake

\* Without the second generation of REMAX, and with an actor that is trained from the
\* first step, no step of fit generates with replicas that sleep.
THEOREM ReplicasAwake ==
  ASSUME ~Remax, CriticWarmup <= 1
  PROVE  Spec => []GeneratesAwake
<1>1. Init => AwakeInv
  BY DEF Init, AwakeInv
<1>2. Inv /\ AwakeInv /\ [Next]_vars => AwakeInv'
  <2>. SUFFICES ASSUME Inv, AwakeInv, [Next]_vars PROVE AwakeInv'
    OBVIOUS
  <2>. USE DEF AwakeInv
  <2>1. CASE \/ StartFromScratch \/ Resume \/ ResumeRaises \/ EndOfEpochs \/ AwaitNone
             \/ Launch \/ Await \/ Relaunch
    BY <2>1 DEF StartFromScratch, Resume, ResumeRaises, EndOfEpochs, AwaitNone, Launch, Await, Relaunch
  <2>2. CASE Begin \/ SaveReturns
    BY <2>2 DEF Begin, SaveReturns, UpdateWeights
  <2>3. CASE Fetch \/ EndOfPass \/ Validate \/ NextStep
    BY <2>3 DEF Fetch, EndOfPass, Validate, NextStep, weightVars
  <2>4. CASE Generate
    BY <2>4, ~Remax DEF Generate
  <2>5. CASE Update
    <3>1. ActorTrained
      BY <2>5, CriticWarmup <= 1, TrainingAssumption, TotalIsPositive
         DEF Update, ActorTrained, Inv, Types, LoopTypes, StepInv, Running
    <3>. QED BY <2>5, <3>1 DEF Update
  <2>6. CASE DecideSave
    BY <2>6 DEF DecideSave
  <2>7. CASE Save
    BY <2>7, SaveFrame DEF weightVars
  <2>8. CASE Crash
    BY <2>8 DEF Crash
  <2>9. CASE UNCHANGED vars
    BY <2>9 DEF vars, weightVars
  <2>. QED BY <2>1, <2>2, <2>3, <2>4, <2>5, <2>6, <2>7, <2>8, <2>9 DEF Next, Driver
<1>3. AwakeInv => GeneratesAwake
  BY DEF AwakeInv, GeneratesAwake
<1>. QED BY Invariance, <1>1, <1>2, <1>3, PTL DEF Spec

----------------------------------------------------------------------------
(* The checkpoint the tracker names                                         *)

\* Role i has been saved and registered in the save under way.
Done(i) == \/ saving.stage \in {"data", "truncate", "write"}
           \/ saving.stage \in {"capacity", "shards"} /\ i < saving.role

\* The paths a role keeps are in the order of their steps; the newest is that of the
\* save under way, or the one the tracker names.
Increasing(p) == \A a, b \in 1..Len(p) : a < b => p[a] < p[b]
SavedInv ==
    \A i \in 1..Len(Roles) :
        /\ Increasing(saved[Roles[i]])
        /\ Len(saved[Roles[i]]) > 0 =>
              saved[Roles[i]][Len(saved[Roles[i]])] = IF Done(i) THEN saving.step ELSE tracker

\* The step being made is beyond the one the tracker names until the tracker names it;
\* a torn tracker is about to be written, or was left by a crash.
OrderInv ==
    /\ phase = "loaded" => step = tracker
    /\ phase \in Running => tracker <= step
    /\ phase \in Running \ {"save", "advance"} => tracker < step
    /\ saving.stage # "none" => tracker < step
    /\ tracker = Torn => saving.stage = "write" \/ phase \in {"start", "failed"}
    /\ saving.stage = "write" => tracker = Torn
    /\ phase = "start" => \A r \in RoleSet : model[r] = <<>>

\* After an update every role has been trained on the current batch.
BatchInv ==
    /\ phase \in {"generate", "baseline", "relaunch", "update", "validate", "decide", "save"} =>
         batch.index \in 1..EpochLength
    /\ flight # NoBatch => flight.index \in 1..EpochLength
    /\ phase \in {"validate", "decide", "save"} =>
         \A r \in RoleSet : Len(model[r]) > 0 /\ model[r][Len(model[r])] = batch.index

\* What the save under way has written so far
WrittenInv ==
    /\ \A i \in 1..Len(Roles) : Done(i) =>
         \A k \in Ranks : shard[Roles[i]][saving.step][k] = model[Roles[i]]
    /\ saving.stage \in {"truncate", "write"} => data[saving.step] # NoData

DurableInv == SavedInv /\ OrderInv /\ BatchInv /\ WrittenInv /\ NamedCheckpointLoads

\* With shards of every rank there is a folder.
LEMMA NamedExists ==
  ASSUME Inv, NamedCheckpointLoads, tracker \in Steps
  PROVE  Latest = tracker
<1>1. PICK k : k \in Ranks
  BY CheckpointAssumption
<1>2. shard["actor"][tracker][k] # NoShard
  BY <1>1, TwoRoles DEF NamedCheckpointLoads, Loadable
<1>. QED BY <1>1, <1>2, TwoRoles DEF Latest, FolderExists

LEMMA OrderStep == Inv /\ OrderInv /\ NamedCheckpointLoads /\ [Next]_vars => OrderInv'
<1>. SUFFICES ASSUME Inv, OrderInv, NamedCheckpointLoads, [Next]_vars PROVE OrderInv'
  OBVIOUS
<1>. USE DEF OrderInv, Running, PpoPhases, OneStepPhases
<1>t. /\ tracker \in Int /\ step \in Nat /\ (tracker \in Steps \/ tracker = 0 \/ tracker = Torn)
      /\ saving.stage # "none" => phase = "save" /\ saving.step = step
  BY CheckpointAssumption DEF Inv, Types, DiskTypes, LoopTypes, SavingInv, Torn
<1>1. CASE StartFromScratch
  <2>1. tracker = 0
    BY <1>1, <1>t, NamedExists, CheckpointAssumption DEF StartFromScratch
  <2>. QED BY <1>1, <1>t, <2>1 DEF StartFromScratch, checkpointVars
<1>2. CASE Resume
  <2>1. Latest = tracker /\ tracker # Torn
    BY <1>2, StepsAreNumbers DEF Resume, Latest, Torn
  <2>. QED BY <1>2, <1>t, <2>1 DEF Resume, checkpointVars
<1>3. CASE ResumeRaises \/ EndOfEpochs \/ AwaitNone
  BY <1>3, <1>t DEF ResumeRaises, EndOfEpochs, AwaitNone, checkpointVars
<1>4. CASE Begin
  BY <1>4, <1>t DEF Begin, checkpointVars
<1>5. CASE Fetch \/ EndOfPass \/ Generate
  BY <1>5, <1>t DEF Fetch, EndOfPass, Generate, checkpointVars, loopVars
<1>6. CASE Launch \/ Await \/ Relaunch
  BY <1>6, <1>t DEF Launch, Await, Relaunch, checkpointVars
<1>7. CASE Update \/ Validate \/ SaveReturns
  BY <1>7, <1>t DEF Update, Validate, SaveReturns, checkpointVars, loopVars
<1>8. CASE DecideSave
  BY <1>8, <1>t DEF DecideSave, SaveStart, checkpointVars, diskVars, loopVars
<1>9. CASE Save
  <2>1. phase = "save" /\ phase' = "save" /\ step' = step
    BY <1>9, SaveFrame DEF loopVars
  <2>2. CASE EnsureCapacity
    BY <1>t, <2>1, <2>2 DEF EnsureCapacity
  <2>3. CASE \E k \in Ranks : SaveShard(k, model[Role])
    BY <1>t, <2>1, <2>3 DEF SaveShard
  <2>4. CASE saving.stage = "shards" /\ Register(model[Role])
    BY <1>t, <2>1, <2>4 DEF Register
  <2>5. CASE SaveData(position)
    BY <1>t, <2>1, <2>5 DEF SaveData
  <2>6. CASE TruncateTracker
    BY <1>t, <2>1, <2>6 DEF TruncateTracker, Torn
  <2>7. CASE WriteTracker
    BY <1>t, <2>1, <2>7 DEF WriteTracker, NotSaving
  <2>. QED BY <1>9, <2>2, <2>3, <2>4, <2>5, <2>6, <2>7 DEF Save
<1>10. CASE NextStep
  BY <1>10, <1>t DEF NextStep, checkpointVars
<1>11. CASE Crash
  BY <1>11, <1>t DEF Crash, LoseMemory, NotSaving
<1>12. CASE UNCHANGED vars
  BY <1>12, <1>t DEF vars, checkpointVars, loopVars, weightVars
<1>. QED BY <1>1, <1>2, <1>3, <1>4, <1>5, <1>6, <1>7, <1>8, <1>9, <1>10, <1>11, <1>12 DEF Next, Driver

LEMMA BatchStep ==
  ASSUME CriticWarmup <= 1
  PROVE  Inv /\ BatchInv /\ [Next]_vars => BatchInv'
<1>. SUFFICES ASSUME Inv, BatchInv, [Next]_vars PROVE BatchInv'
  OBVIOUS
<1>. USE DEF BatchInv
<1>1. CASE StartFromScratch \/ Resume \/ ResumeRaises \/ EndOfEpochs \/ AwaitNone \/ Begin \/ NextStep
  BY <1>1 DEF StartFromScratch, Resume, ResumeRaises, EndOfEpochs, AwaitNone, Begin, NextStep, loopVars
<1>2. CASE Fetch \/ EndOfPass
  BY <1>2, TrainingAssumption DEF Fetch, EndOfPass, Inv, Types, LoopTypes
<1>3. CASE Generate
  BY <1>3 DEF Generate, loopVars
<1>4. CASE Launch \/ Relaunch
  <2>1. Launched # NoBatch => Launched.index \in 1..EpochLength
    BY TrainingAssumption DEF Launched, Inv, Types, LoopTypes
  <2>. QED BY <1>4, <2>1 DEF Launch, Relaunch, Advance
<1>5. CASE Await
  BY <1>5 DEF Await
<1>6. CASE Update
  <2>1. ActorTrained
    BY <1>6, CriticWarmup <= 1, TrainingAssumption, TotalIsPositive
       DEF Update, ActorTrained, Inv, Types, LoopTypes, StepInv, Running
  <2>2. model' = [r \in RoleSet |-> Append(model[r], batch.index)]
    BY <1>6, <2>1 DEF Update
  <2>3. \A r \in RoleSet : model[r] \in Seq(Nat)
    BY DEF Inv, Types, LoopTypes
  <2>4. \A r \in RoleSet : Len(model'[r]) > 0 /\ model'[r][Len(model'[r])] = batch.index
    BY <2>2, <2>3
  <2>. QED BY <1>6, <2>4 DEF Update, loopVars
<1>7. CASE Validate
  BY <1>7 DEF Validate, loopVars, weightVars
<1>8. CASE DecideSave
  BY <1>8 DEF DecideSave, loopVars
<1>9. CASE Save
  BY <1>9, SaveFrame DEF loopVars, weightVars
<1>10. CASE SaveReturns
  BY <1>10 DEF SaveReturns, loopVars
<1>11. CASE Crash
  BY <1>11 DEF Crash
<1>12. CASE UNCHANGED vars
  BY <1>12 DEF vars, loopVars, weightVars
<1>. QED BY <1>1, <1>2, <1>3, <1>4, <1>5, <1>6, <1>7, <1>8, <1>9, <1>10, <1>11, <1>12 DEF Next, Driver

NamedShardsStay ==
    tracker \in Steps => \A r \in RoleSet : shard'[r][tracker] = shard[r][tracker]

\* What was named stays loadable while its shards and its data stay.
LEMMA NamedKept ==
  ASSUME NamedCheckpointLoads, tracker' \in Steps => tracker' = tracker,
         tracker \in Steps =>
             /\ \A r \in RoleSet : shard'[r][tracker] = shard[r][tracker]
             /\ data'[tracker] = data[tracker]
  PROVE  NamedCheckpointLoads'
<1>. SUFFICES ASSUME tracker' \in Steps
              PROVE  /\ \A r \in RoleSet : Loadable(r, tracker)' /\ Uniform(r, tracker)'
                     /\ \A q, r \in RoleSet : Last(Loaded(q, tracker))' = Last(Loaded(r, tracker))'
                     /\ data'[tracker'] # NoData
  BY DEF NamedCheckpointLoads
<1>1. tracker' = tracker /\ tracker \in Steps
  OBVIOUS
<1>2. \A r \in RoleSet : Loadable(r, tracker)' /\ Uniform(r, tracker)'
  BY <1>1 DEF NamedCheckpointLoads, Loadable, Uniform
<1>3. \A r \in RoleSet : Loaded(r, tracker)' = Loaded(r, tracker)
  BY <1>1 DEF Loaded
<1>4. \A q, r \in RoleSet : Last(Loaded(q, tracker))' = Last(Loaded(r, tracker))'
  BY <1>1, <1>3 DEF NamedCheckpointLoads, Last
<1>. QED BY <1>1, <1>2, <1>4 DEF NamedCheckpointLoads

\* The paths beyond the newest are older than the last one.
LEMMA BeyondOlder ==
  ASSUME NEW p \in Seq(Steps), NEW n \in 1..Len(p), Increasing(p)
  PROVE  \A a \in 1..Len(Beyond(p, n)) : Beyond(p, n)[a] # p[Len(p)] /\ Beyond(p, n)[a] < p[Len(p)]
<1>. DEFINE l == Len(p)
<1>1. l \in Nat /\ n \in 0..l /\ (\A a \in 1..l : p[a] \in Nat)
  <2>1. l \in Nat /\ n \in 0..l /\ (\A a \in 1..l : p[a] \in Steps)
    OBVIOUS
  <2>. QED BY <2>1, CheckpointAssumption
<1>2. Len(Beyond(p, n)) = l - n /\ \A a \in 1..l - n : Beyond(p, n)[a] = p[a]
  BY <1>1, BeyondShape
<1>. SUFFICES ASSUME NEW a \in 1..l - n PROVE p[a] # p[l] /\ p[a] < p[l]
  BY <1>2
<1>3. a \in 1..l /\ l \in 1..l /\ a < l
  BY <1>1
<1>4. p[a] < p[l]
  BY <1>3 DEF Increasing
<1>5. p[a] \in Nat /\ p[l] \in Nat
  BY <1>1, <1>3
<1>. QED BY <1>4, <1>5

LEMMA NewestIncreasing ==
  ASSUME NEW p \in Seq(Steps), NEW n \in 1..Len(p), Increasing(p)
  PROVE  Increasing(Newest(p, n)) /\ Newest(p, n)[n] = p[Len(p)]
<1>. DEFINE l == Len(p)
            q == Newest(p, n)
<1>1. l \in Nat /\ n \in 0..l
  OBVIOUS
<1>2. Len(q) = n /\ \A a \in 1..n : q[a] = p[l - n + a]
  BY <1>1, NewestShape
<1>3. q[n] = p[l]
  BY <1>1, <1>2
<1>. SUFFICES ASSUME NEW a \in 1..n, NEW b \in 1..n, a < b PROVE q[a] < q[b]
  BY <1>2, <1>3 DEF Increasing
<1>4. l - n + a \in 1..l /\ l - n + b \in 1..l /\ l - n + a < l - n + b
  BY <1>1
<1>. HIDE DEF q
<1>5. p[l - n + a] < p[l - n + b]
  BY <1>4 DEF Increasing
<1>. QED BY <1>2, <1>5

\* Removing older paths of a role leaves every shard from its last path on.
LEMMA OlderRemoved ==
  ASSUME DiskTypes, NEW q \in RoleSet, NEW p \in Seq(Steps), NEW n \in 1..Len(p), Increasing(p)
  PROVE  \A r \in RoleSet, s \in Steps :
           r # q \/ s >= p[Len(p)] => Removed(q, Beyond(p, n))[r][s] = shard[r][s]
<1>1. \A r \in RoleSet, s \in Steps :
        r # q \/ (\A a \in 1..Len(Beyond(p, n)) : Beyond(p, n)[a] # s) =>
           Removed(q, Beyond(p, n))[r][s] = shard[r][s]
  BY RemovedShape
<1>2. p[Len(p)] \in Nat
  <2>1. Len(p) \in 1..Len(p) /\ p[Len(p)] \in Steps
    OBVIOUS
  <2>. QED BY <2>1, CheckpointAssumption
<1>3. \A a \in 1..Len(Beyond(p, n)) : Beyond(p, n)[a] \in Nat
  <2>1. n \in 0..Len(p)
    OBVIOUS
  <2>2. Beyond(p, n) \in Seq(Steps)
    BY <2>1, BeyondShape
  <2>3. \A a \in 1..Len(Beyond(p, n)) : Beyond(p, n)[a] \in Steps
    BY <2>2
  <2>. QED BY <2>3, CheckpointAssumption
<1>4. ASSUME NEW s \in Steps, s >= p[Len(p)], NEW a \in 1..Len(Beyond(p, n))
      PROVE  Beyond(p, n)[a] # s
  BY <1>2, <1>3, <1>4, BeyondOlder, CheckpointAssumption
<1>. QED BY <1>1, <1>4

\* Making room for a checkpoint leaves the one the tracker names.
LEMMA CapacityStep ==
  ASSUME Keep # 1, Inv, DurableInv, Save, EnsureCapacity
  PROVE  SavedInv' /\ WrittenInv' /\ NamedCheckpointLoads' /\ NamedShardsStay
<1>. DEFINE i == saving.role
            p == saved[Role]
<1>1. /\ i \in 1..Len(Roles) /\ Role = Roles[i] /\ Role \in RoleSet /\ p \in Seq(Steps)
      /\ ~Done(i) /\ saving.step = step /\ tracker < step /\ UNCHANGED <<model, data, tracker>>
  BY TwoRoles, SaveFrame DEF Inv, SavingInv, Types, DiskTypes, EnsureCapacity, Role, Done, DurableInv, OrderInv, weightVars
<1>2. /\ saving'.role = i /\ saving'.step = saving.step /\ saving'.stage = "shards"
      /\ \A j : Done(j)' = Done(j)
  BY DEF EnsureCapacity, Inv, Types, DiskTypes, Done
<1>3. CASE UNCHANGED <<shard, saved>>
  <2>1. SavedInv' /\ WrittenInv'
    BY <1>1, <1>2, <1>3 DEF DurableInv, SavedInv, WrittenInv
  <2>. QED BY <1>1, <1>3, <2>1, NamedKept DEF DurableInv, NamedShardsStay
<1>4. CASE Keep > 1 /\ Len(p) >= Keep
  <2>. DEFINE n == Keep - 1
              old == Beyond(p, n)
              new == Newest(p, n)
  <2>1. n \in 1..Len(p) /\ Increasing(p) /\ p[Len(p)] = tracker /\ tracker \in Nat
    <3>1. n \in 1..Len(p) /\ Len(p) > 0
      BY <1>1, <1>4, CheckpointAssumption
    <3>2. Increasing(p) /\ p[Len(p)] = tracker
      BY <1>1, <3>1 DEF DurableInv, SavedInv
    <3>3. p[Len(p)] \in Steps
      BY <1>1, <3>1
    <3>. QED BY <3>1, <3>2, <3>3, CheckpointAssumption
  <2>2. shard' = Removed(Role, old) /\ saved' = [saved EXCEPT ![Role] = new]
    BY <1>4 DEF EnsureCapacity
  <2>4. \A r \in RoleSet, s \in Steps : r # Role \/ s >= tracker => shard'[r][s] = shard[r][s]
    BY <1>1, <2>1, <2>2, OlderRemoved DEF Inv, Types
  <2>5. new \in Seq(Steps) /\ Len(new) = n /\ Increasing(new) /\ new[n] = tracker
    <3>1. n \in 0..Len(p)
      BY <2>1
    <3>2. Increasing(new) /\ new[n] = tracker
      BY <1>1, <2>1, NewestIncreasing
    <3>. QED BY <1>1, <3>1, <3>2, NewestShape
  <2>6. SavedInv'
    <3>. SUFFICES ASSUME NEW j \in 1..Len(Roles)
                  PROVE  /\ Increasing(saved'[Roles[j]])
                         /\ Len(saved'[Roles[j]]) > 0 =>
                              saved'[Roles[j]][Len(saved'[Roles[j]])] =
                                IF Done(j)' THEN saving'.step ELSE tracker'
      BY DEF SavedInv, Increasing
    <3>1. CASE j = i
      BY <1>1, <1>2, <2>2, <2>5, <3>1 DEF Inv, Types, DiskTypes
    <3>2. CASE j # i
      <4>1. saved'[Roles[j]] = saved[Roles[j]]
        BY <1>1, <2>2, <3>2, TwoRoles DEF Inv, Types, DiskTypes
      <4>. QED BY <1>1, <1>2, <4>1 DEF DurableInv, SavedInv
    <3>. QED BY <3>1, <3>2
  <2>7. WrittenInv'
    <3>1. \A j \in 1..Len(Roles) : Done(j) => Roles[j] # Role /\ Roles[j] \in RoleSet
      BY <1>1, TwoRoles
    <3>2. saving.stage # "none" /\ step \in Steps
      BY TotalIsPositive, TrainingAssumption DEF EnsureCapacity, Inv, SavingInv, Types, LoopTypes, StepInv, Running
    <3>. QED BY <1>1, <1>2, <2>4, <3>1, <3>2 DEF DurableInv, WrittenInv
  <2>8. NamedShardsStay
    BY <2>1, <2>4 DEF NamedShardsStay
  <2>9. NamedCheckpointLoads'
    BY <1>1, <2>8, NamedKept DEF DurableInv, NamedShardsStay
  <2>. QED BY <2>6, <2>7, <2>8, <2>9
<1>. QED BY <1>3, <1>4 DEF EnsureCapacity

\* The shards of a role are registered when all are written; what is rotated away is
\* older than the checkpoint the tracker names.
LEMMA RegisterStep ==
  ASSUME Keep # 1, Inv, DurableInv, Save, saving.stage = "shards", Register(model[Role])
  PROVE  SavedInv' /\ WrittenInv' /\ NamedCheckpointLoads' /\ NamedShardsStay
<1>. DEFINE i == saving.role
            p == saved[Role]
            paths == Append(p, step)
            over == Keep > 0 /\ Len(paths) > Keep
            kept == IF over THEN Newest(paths, Keep) ELSE paths
<1>1. /\ i \in 1..Len(Roles) /\ Role = Roles[i] /\ Role \in RoleSet /\ p \in Seq(Steps)
      /\ ~Done(i) /\ saving.step = step /\ tracker < step /\ UNCHANGED <<model, data, tracker>>
  BY TwoRoles, SaveFrame DEF Inv, SavingInv, Types, DiskTypes, Register, Role, Done, DurableInv, OrderInv, weightVars
<1>2. step \in Steps /\ step \in Nat /\ tracker \in Int
  <2>1. phase = "save" /\ step \in Nat
    BY SaveFrame DEF Inv, Types, LoopTypes
  <2>2. step \in Steps
    BY <2>1, TotalIsPositive, TrainingAssumption DEF Inv, Types, LoopTypes, StepInv, Running
  <2>. QED BY <2>1, <2>2, CheckpointAssumption DEF Inv, Types, DiskTypes, Torn
<1>3. /\ saving'.step = step /\ saving'.stage \in {"capacity", "data"}
      /\ \A j \in 1..Len(Roles) : Done(j)' <=> Done(j) \/ j = i
  <2>1. CASE saving.role < Len(Roles)
    BY <1>1, <2>1, TwoRoles DEF Register, Inv, Types, DiskTypes, Done
  <2>2. CASE ~(saving.role < Len(Roles))
    BY <1>1, <2>2, TwoRoles DEF Register, Inv, Types, DiskTypes, Done
  <2>. QED BY <2>1, <2>2
<1>4. /\ shard' = IF over THEN Removed(Role, Beyond(paths, Keep)) ELSE shard
      /\ saved' = [saved EXCEPT ![Role] = kept]
  BY <1>1 DEF Register
<1>5. paths \in Seq(Steps) /\ Len(paths) = Len(p) + 1 /\ paths[Len(paths)] = step
  BY <1>1, <1>2
<1>6. /\ Increasing(p)
      /\ Len(p) > 0 => p[Len(p)] = tracker
  BY <1>1 DEF DurableInv, SavedInv
<1>7. Increasing(paths)
  <2>. SUFFICES ASSUME NEW a \in 1..Len(paths), NEW b \in 1..Len(paths), a < b
                PROVE  paths[a] < paths[b]
    BY DEF Increasing
  <2>1. Len(p) \in Nat /\ a \in 1..Len(p) /\ paths[a] = p[a]
    BY <1>1, <1>2, <1>5
  <2>2. CASE b \in 1..Len(p)
    <3>1. paths[b] = p[b]
      BY <1>1, <1>2, <2>2
    <3>. QED BY <1>6, <2>1, <2>2, <3>1 DEF Increasing
  <2>3. CASE b = Len(p) + 1
    <3>1. paths[b] = step
      BY <1>5, <2>3
    <3>2. p[a] <= tracker
      <4>1. p[Len(p)] = tracker
        BY <1>6, <2>1
      <4>2. a = Len(p) \/ p[a] < p[Len(p)]
        <5>. SUFFICES ASSUME a # Len(p) PROVE p[a] < p[Len(p)]
          OBVIOUS
        <5>1. Len(p) \in 1..Len(p) /\ a < Len(p)
          BY <2>1
        <5>. QED BY <1>6, <2>1, <5>1 DEF Increasing
      <4>3. p[a] \in Int
        BY <1>1, <2>1, StepsAreNumbers
      <4>. QED BY <1>2, <4>1, <4>2, <4>3
    <3>3. p[a] \in Int
      <4>1. p[a] \in Steps
        BY <1>1, <2>1
      <4>. QED BY <4>1, StepsAreNumbers
    <3>. QED BY <1>1, <1>2, <2>1, <3>1, <3>2, <3>3
  <2>. QED BY <1>5, <2>1, <2>2, <2>3
<1>. HIDE DEF paths
<1>8. over => Keep \in 1..Len(paths) /\ Keep > 1
  BY <1>5, CheckpointAssumption
<1>9. kept \in Seq(Steps) /\ Increasing(kept) /\ Len(kept) > 0 /\ kept[Len(kept)] = step
  <2>1. CASE over
    <3>1. Keep \in 0..Len(paths) /\ Keep \in 1..Len(paths)
      BY <1>8, <2>1
    <3>2. Increasing(Newest(paths, Keep)) /\ Newest(paths, Keep)[Keep] = step
      BY <1>5, <1>7, <3>1, NewestIncreasing
    <3>3. Newest(paths, Keep) \in Seq(Steps) /\ Len(Newest(paths, Keep)) = Keep
      BY <1>5, <3>1, NewestShape
    <3>. QED BY <2>1, <3>1, <3>2, <3>3
  <2>2. CASE ~over
    BY <1>5, <1>7, <2>2
  <2>. QED BY <2>1, <2>2
<1>10. \A r \in RoleSet, s \in Steps : r # Role \/ s >= tracker => shard'[r][s] = shard[r][s]
  <2>1. CASE ~over
    BY <1>4, <2>1
  <2>2. CASE over
    <3>. DEFINE old == Beyond(paths, Keep)
    <3>1. Len(p) \in Nat /\ Keep \in Nat /\ Len(p) >= Keep /\ Keep > 1
      BY <1>1, <1>5, <1>8, <2>2, CheckpointAssumption
    <3>2. Len(old) = Len(p) + 1 - Keep /\ \A a \in 1..Len(old) : old[a] = paths[a]
      <4>1. Keep \in 0..Len(paths)
        BY <1>8, <2>2
      <4>2. Len(old) = Len(paths) - Keep /\ \A a \in 1..Len(paths) - Keep : old[a] = paths[a]
        BY <1>5, <4>1, BeyondShape
      <4>. QED BY <1>5, <3>1, <4>2
    <3>3. ASSUME NEW a \in 1..Len(old)
          PROVE  old[a] < tracker
      <4>1. a \in 1..Len(p) /\ Len(p) \in 1..Len(p) /\ a < Len(p)
        BY <3>1, <3>2
      <4>2. p[a] < p[Len(p)]
        BY <1>6, <4>1 DEF Increasing
      <4>3. old[a] = p[a]
        BY <1>1, <1>2, <3>2, <4>1 DEF paths
      <4>. QED BY <1>6, <3>1, <4>2, <4>3
    <3>4. \A a \in 1..Len(old) : old[a] \in Int
      <4>1. old \in Seq(Steps)
        <5>1. Keep \in 0..Len(paths)
          BY <1>8, <2>2
        <5>. QED BY <1>5, <5>1, BeyondShape
      <4>2. \A a \in 1..Len(old) : old[a] \in Steps
        BY <4>1
      <4>. QED BY <4>2, StepsAreNumbers
    <3>5. ASSUME NEW s \in Steps, s >= tracker, NEW a \in 1..Len(old)
          PROVE  old[a] # s
      BY <1>2, <3>3, <3>4, <3>5, StepsAreNumbers
    <3>6. \A r \in RoleSet, s \in Steps :
            r # Role \/ (\A a \in 1..Len(old) : old[a] # s) => Removed(Role, old)[r][s] = shard[r][s]
      <4>1. DiskTypes /\ Role \in RoleSet
        BY <1>1 DEF Inv, Types
      <4>. QED BY <4>1, RemovedShape
    <3>. QED BY <1>4, <2>2, <3>5, <3>6
  <2>. QED BY <2>1, <2>2
<1>11. SavedInv'
  <2>. SUFFICES ASSUME NEW j \in 1..Len(Roles)
                PROVE  /\ Increasing(saved'[Roles[j]])
                       /\ Len(saved'[Roles[j]]) > 0 =>
                            saved'[Roles[j]][Len(saved'[Roles[j]])] =
                              IF Done(j)' THEN saving'.step ELSE tracker'
    BY DEF SavedInv, Increasing
  <2>. HIDE DEF kept
  <2>1. CASE j = i
    BY <1>1, <1>3, <1>4, <1>9, <2>1 DEF Inv, Types, DiskTypes
  <2>2. CASE j # i
    <3>1. saved'[Roles[j]] = saved[Roles[j]]
      BY <1>1, <1>4, <2>2, TwoRoles DEF Inv, Types, DiskTypes
    <3>. QED BY <1>1, <1>3, <2>2, <3>1 DEF DurableInv, SavedInv
  <2>. QED BY <2>1, <2>2
<1>12. WrittenInv'
  <2>1. \A j \in 1..Len(Roles) : Done(j)' =>
          \A k \in Ranks : shard[Roles[j]][step][k] = model[Roles[j]]
    BY <1>1, <1>3 DEF DurableInv, WrittenInv, Register, AllSaved
  <2>2. \A j \in 1..Len(Roles) : shard'[Roles[j]][step] = shard[Roles[j]][step]
    BY <1>1, <1>2, <1>10, TwoRoles
  <2>. QED BY <1>1, <1>3, <2>1, <2>2 DEF WrittenInv
<1>13. NamedShardsStay
  BY <1>2, <1>10 DEF NamedShardsStay
<1>14. NamedCheckpointLoads'
  BY <1>1, <1>13, NamedKept DEF DurableInv, NamedShardsStay
<1>. QED BY <1>11, <1>12, <1>13, <1>14

\* A rank writes where neither the tracker nor a role already saved points.
LEMMA ShardStep ==
  ASSUME Inv, DurableInv, Save, NEW k \in Ranks, SaveShard(k, model[Role])
  PROVE  SavedInv' /\ WrittenInv' /\ NamedCheckpointLoads' /\ NamedShardsStay
<1>1. /\ saving.role \in 1..Len(Roles) /\ Role \in RoleSet /\ Role = Roles[saving.role]
      /\ ~Done(saving.role) /\ saving.step = step /\ tracker < step
      /\ UNCHANGED <<model, data, tracker, saved, saving>>
  BY TwoRoles, SaveFrame DEF Inv, SavingInv, Types, DiskTypes, SaveShard, Role, Done, DurableInv, OrderInv, weightVars
<1>2. \A j : Done(j)' = Done(j)
  BY <1>1 DEF Done
<1>3. shard' = [shard EXCEPT ![Role][step][k] = model[Role]]
  BY <1>1 DEF SaveShard
<1>4. \A r \in RoleSet : r # Role => shard'[r] = shard[r]
  BY <1>1, <1>3 DEF Inv, Types, DiskTypes
<1>5. \A r \in RoleSet, s \in Steps : s # step => shard'[r][s] = shard[r][s]
  <2>1. shard' = [shard EXCEPT ![Role] = [shard[Role] EXCEPT ![step] = [shard[Role][step] EXCEPT ![k] = model[Role]]]]
    BY <1>3
  <2>2. shard'[Role] = [shard[Role] EXCEPT ![step] = [shard[Role][step] EXCEPT ![k] = model[Role]]]
    BY <1>1, <2>1 DEF Inv, Types, DiskTypes
  <2>3. shard[Role] \in [Steps -> [Ranks -> Seq(Nat)]]
    BY <1>1 DEF Inv, Types, DiskTypes
  <2>4. \A s \in Steps : s # step => shard'[Role][s] = shard[Role][s]
    BY <2>2, <2>3
  <2>. QED BY <1>4, <2>4
<1>6. SavedInv'
  BY <1>1, <1>2 DEF DurableInv, SavedInv, Increasing
<1>7. WrittenInv'
  <2>1. \A j \in 1..Len(Roles) : Done(j) => Roles[j] \in RoleSet /\ Roles[j] # Role
    BY <1>1, TwoRoles
  <2>. QED BY <1>1, <1>2, <1>4, <2>1 DEF DurableInv, WrittenInv
<1>8. NamedShardsStay
  <2>1. tracker \in Steps => tracker # step
    BY <1>1, StepsAreNumbers DEF Inv, Types, LoopTypes
  <2>. QED BY <1>5, <2>1 DEF NamedShardsStay
<1>9. NamedCheckpointLoads'
  BY <1>1, <1>8, NamedKept DEF DurableInv, NamedShardsStay
<1>. QED BY <1>6, <1>7, <1>8, <1>9

\* data.pt, then the tracker: it names a step only when all of it is written.
LEMMA TrackerStep ==
  ASSUME Inv, DurableInv, Save, SaveData(position) \/ TruncateTracker \/ WriteTracker
  PROVE  /\ SavedInv' /\ WrittenInv' /\ NamedCheckpointLoads'
         /\ WriteTracker => /\ tracker' \in Steps
                            /\ \A r \in RoleSet : Loaded(r, tracker)' = model[r] /\ model'[r] = model[r]
<1>1. /\ \A j : Done(j) /\ saving.stage \in {"data", "truncate", "write"}
      /\ saving.step = step /\ tracker < step /\ step \in Steps
      /\ UNCHANGED <<model, shard, saved>>
  <2>1. saving.stage \in {"data", "truncate", "write"} /\ UNCHANGED <<shard, saved>>
    BY DEF SaveData, TruncateTracker, WriteTracker
  <2>2. UNCHANGED model /\ phase = "save"
    BY SaveFrame DEF weightVars
  <2>3. step \in Steps
    BY <2>2, TotalIsPositive, TrainingAssumption DEF Inv, Types, LoopTypes, StepInv, Running
  <2>. QED BY <2>1, <2>2, <2>3 DEF Inv, SavingInv, DurableInv, OrderInv, Done
<1>2. CASE SaveData(position)
  <2>1. /\ saving'.stage = "truncate" /\ saving'.step = step /\ tracker' = tracker
        /\ data' = [data EXCEPT ![step] = position] /\ \A j : Done(j)'
    BY <1>1, <1>2 DEF SaveData, Done, Inv, Types, DiskTypes
  <2>2. SavedInv'
    BY <1>1, <2>1 DEF DurableInv, SavedInv, Increasing
  <2>3. WrittenInv'
    <3>1. data'[step] # NoData
      BY <1>1, <2>1 DEF NoData, Inv, Types, DiskTypes, LoopTypes
    <3>. QED BY <1>1, <2>1, <3>1 DEF DurableInv, WrittenInv
  <2>4. tracker \in Steps => data'[tracker] = data[tracker]
    BY <1>1, <2>1, StepsAreNumbers DEF Inv, Types, DiskTypes
  <2>5. NamedCheckpointLoads'
    BY <1>1, <2>1, <2>4, NamedKept DEF DurableInv
  <2>. QED BY <1>2, <2>2, <2>3, <2>5 DEF SaveData, WriteTracker
<1>3. CASE TruncateTracker
  <2>1. /\ saving'.stage = "write" /\ saving'.step = step /\ tracker' = Torn
        /\ data' = data /\ (\A j : Done(j)') /\ saving.stage = "truncate"
    BY <1>1, <1>3 DEF TruncateTracker, Done, Inv, Types, DiskTypes
  <2>2. SavedInv'
    BY <1>1, <2>1 DEF DurableInv, SavedInv, Increasing
  <2>3. WrittenInv'
    BY <1>1, <2>1 DEF DurableInv, WrittenInv
  <2>4. tracker' \notin Steps
    BY <2>1, StepsAreNumbers DEF Torn
  <2>. QED BY <2>1, <2>2, <2>3, <2>4 DEF NamedCheckpointLoads, WriteTracker
<1>4. CASE WriteTracker
  <2>1. /\ saving' = NotSaving /\ tracker' = step /\ data' = data
        /\ (\A j : ~Done(j)') /\ saving.stage = "write"
    BY <1>1, <1>4 DEF WriteTracker, Done, NotSaving
  <2>2. SavedInv'
    BY <1>1, <2>1 DEF DurableInv, SavedInv, Increasing
  <2>3. WrittenInv'
    BY <2>1 DEF WrittenInv, NotSaving
  <2>4. \A r \in RoleSet, k \in Ranks : shard[r][step][k] = model[r]
    BY <1>1, TwoRoles DEF DurableInv, WrittenInv
  <2>5. \A r \in RoleSet : model[r] \in Seq(Nat) /\ model[r] # NoShard /\ Last(model[r]) = batch.index
    <3>1. phase = "save"
      BY SaveFrame
    <3>2. \A r \in RoleSet : Len(model[r]) > 0 /\ model[r][Len(model[r])] = batch.index
      BY <3>1 DEF DurableInv, BatchInv
    <3>3. batch.index >= 1
      BY <3>1, TrainingAssumption DEF DurableInv, BatchInv
    <3>4. \A r \in RoleSet : model[r] \in Seq(Nat)
      BY DEF Inv, Types, LoopTypes
    <3>5. Len(NoShard) = 1 /\ NoShard[1] = 0
      BY DEF NoShard
    <3>. QED BY <3>2, <3>3, <3>4, <3>5 DEF Last
  <2>6. (CHOOSE k \in Ranks : TRUE) \in Ranks
    BY CheckpointAssumption
  <2>7. \A r \in RoleSet : Loaded(r, tracker)' = model[r]
    BY <1>1, <2>1, <2>4, <2>6 DEF Loaded
  <2>8. data[step] # NoData
    BY <1>1, <2>1 DEF DurableInv, WrittenInv
  <2>9. \A r \in RoleSet : Loadable(r, tracker)' /\ Uniform(r, tracker)'
    BY <1>1, <2>1, <2>4, <2>5 DEF Loadable, Uniform
  <2>10. \A q, r \in RoleSet : Last(Loaded(q, tracker))' = Last(Loaded(r, tracker))'
    BY <2>5, <2>7 DEF Last
  <2>. QED BY <1>1, <2>1, <2>2, <2>3, <2>7, <2>8, <2>9, <2>10 DEF NamedCheckpointLoads
<1>. QED BY <1>2, <1>3, <1>4

\* Between saves nothing is written.
LEMMA DiskKept ==
  ASSUME Inv, DurableInv, UNCHANGED diskVars,
         \/ UNCHANGED <<saved, saving>> /\ (saving.stage # "none" => UNCHANGED model)
         \/ saving.stage = "none" /\ saving'.stage = "capacity" /\ saving'.role = 1 /\ UNCHANGED saved
         \/ saved' = [r \in RoleSet |-> <<>>] /\ saving' = NotSaving
  PROVE  SavedInv' /\ WrittenInv' /\ NamedCheckpointLoads'
<1>1. NamedCheckpointLoads'
  BY NamedKept DEF DurableInv, diskVars
<1>2. CASE UNCHANGED <<saved, saving>> /\ (saving.stage # "none" => UNCHANGED model)
  <2>1. \A j : (Done(j)' <=> Done(j)) /\ (Done(j) => saving.stage # "none")
    BY <1>2 DEF Done
  <2>2. SavedInv'
    BY <1>2, <2>1 DEF DurableInv, SavedInv, Increasing, diskVars
  <2>3. WrittenInv'
    BY <1>2, <2>1 DEF DurableInv, WrittenInv, diskVars
  <2>. QED BY <1>1, <2>2, <2>3
<1>3. CASE saving.stage = "none" /\ saving'.stage = "capacity" /\ saving'.role = 1 /\ UNCHANGED saved
  <2>1. \A j \in 1..Len(Roles) : ~Done(j)' /\ ~Done(j)
    BY <1>3, TwoRoles DEF Done
  <2>2. SavedInv'
    BY <1>3, <2>1 DEF DurableInv, SavedInv, Increasing, diskVars
  <2>3. WrittenInv'
    BY <1>3, <2>1 DEF WrittenInv
  <2>. QED BY <1>1, <2>2, <2>3
<1>4. CASE saved' = [r \in RoleSet |-> <<>>] /\ saving' = NotSaving
  <2>1. \A j : ~Done(j)'
    BY <1>4 DEF Done, NotSaving
  <2>2. SavedInv'
    BY <1>4, TwoRoles DEF SavedInv, Increasing
  <2>3. WrittenInv'
    BY <1>4, <2>1 DEF WrittenInv, NotSaving
  <2>. QED BY <1>1, <2>2, <2>3
<1>. QED BY <1>2, <1>3, <1>4

LEMMA DurableInvariance ==
  ASSUME Keep # 1, CriticWarmup <= 1
  PROVE  Spec => []DurableInv
<1>1. Init => DurableInv
  <2>. SUFFICES ASSUME Init PROVE DurableInv
    OBVIOUS
  <2>1. SavedInv
    BY TwoRoles DEF Init, CheckpointInit, SavedInv, Increasing
  <2>2. OrderInv /\ BatchInv /\ WrittenInv
    BY DEF Init, CheckpointInit, OrderInv, BatchInv, WrittenInv, Done, NotSaving, Running,
       PpoPhases, OneStepPhases
  <2>3. NamedCheckpointLoads
    BY StepsAreNumbers DEF Init, CheckpointInit, NamedCheckpointLoads
  <2>. QED BY <2>1, <2>2, <2>3 DEF DurableInv
<1>2. Inv /\ DurableInv /\ [Next]_vars => DurableInv'
  <2>. SUFFICES ASSUME Inv, DurableInv, [Next]_vars PROVE DurableInv'
    OBVIOUS
  <2>1. OrderInv' /\ BatchInv'
    BY OrderStep, BatchStep, CriticWarmup <= 1 DEF DurableInv
  <2>2. SavedInv' /\ WrittenInv' /\ NamedCheckpointLoads'
    <3>1. CASE Save
      BY <3>1, Keep # 1, CapacityStep, ShardStep, RegisterStep, TrackerStep DEF Save
    <3>2. CASE DecideSave
      <4>1. saving.stage # "none" => UNCHANGED model
        BY <3>2 DEF DecideSave
      <4>. QED BY <3>2, <4>1, DiskKept DEF DecideSave, SaveStart, checkpointVars, diskVars
    <3>3. CASE Crash
      BY <3>3, DiskKept DEF Crash, LoseMemory
    <3>4. CASE \/ StartFromScratch \/ Resume \/ ResumeRaises \/ Begin
               \/ Fetch \/ EndOfPass \/ EndOfEpochs \/ Generate
               \/ Launch \/ Await \/ AwaitNone \/ Relaunch
               \/ Update \/ Validate \/ SaveReturns \/ NextStep
      <4>1. UNCHANGED checkpointVars /\ (phase # "save" \/ UNCHANGED model)
        BY <3>4 DEF StartFromScratch, Resume, ResumeRaises, Begin, Fetch, EndOfPass, EndOfEpochs,
           Generate, Launch, Await, AwaitNone, Relaunch, Update, Validate, SaveReturns, NextStep
      <4>. QED BY <4>1, DiskKept DEF checkpointVars, diskVars, Inv, SavingInv
    <3>5. CASE UNCHANGED vars
      BY <3>5, DiskKept DEF vars, checkpointVars, diskVars, weightVars
    <3>. QED BY <3>1, <3>2, <3>3, <3>4, <3>5 DEF Next, Driver
  <2>. QED BY <2>1, <2>2 DEF DurableInv
<1>. QED BY Invariance, <1>1, <1>2, PTL DEF Spec

\* A job may be killed anywhere, also within a save: the checkpoint the tracker names
\* loads, with the same history of updates in every role, whenever at least two
\* checkpoints (or all of them) are kept.
THEOREM CheckpointsLoad ==
  ASSUME Keep # 1, CriticWarmup <= 1
  PROVE  Spec => []NamedCheckpointLoads
<1>1. DurableInv => NamedCheckpointLoads
  BY DEF DurableInv
<1>. QED BY DurableInvariance, <1>1, PTL

----------------------------------------------------------------------------
(* Training implements DurableTraining                                      *)

Working == IF phase = "start" THEN NamedLineage ELSE model[LastRole]
Committing == tracker = Torn

LEMMA LineageKept ==
  ASSUME NamedShardsStay, tracker' = tracker
  PROVE  NamedLineage' = NamedLineage
<1>1. LastRole \in RoleSet /\ LastRole' = LastRole
  BY TwoRoles DEF LastRole
<1>. QED BY <1>1 DEF NamedLineage, Loaded, NamedShardsStay

LEMMA DurableInit == Init => Durable!Init
<1>1. Init => NamedLineage = <<>> /\ ~Committing
  BY StepsAreNumbers DEF Init, CheckpointInit, NamedLineage, Committing, Torn
<1>. QED BY <1>1 DEF Durable!Init, Working, Committing, Init

\* A save is one commit; every other step trains on a batch, loses what is not
\* durable or changes nothing.
LEMMA DurableStep ==
  ASSUME Keep # 1, CriticWarmup <= 1
  PROVE  Inv /\ DurableInv /\ [Next]_vars => [Durable!Next]_Durable!vars
<1>. SUFFICES ASSUME Inv, DurableInv, [Next]_vars
              PROVE  Durable!Next \/ UNCHANGED <<Working, NamedLineage, Committing>>
  BY DEF Durable!vars, Working, Committing
<1>r. LastRole \in RoleSet /\ LastRole' = LastRole
  BY TwoRoles DEF LastRole
<1>k. ASSUME UNCHANGED checkpointVars PROVE UNCHANGED <<NamedLineage, Committing>>
  BY <1>k, <1>r DEF checkpointVars, NamedLineage, Loaded, Committing
<1>1. CASE StartFromScratch
  <2>1. tracker = 0
    BY <1>1, NamedExists, StepsAreNumbers
       DEF StartFromScratch, DurableInv, Inv, Types, DiskTypes
  <2>2. NamedLineage = <<>>
    BY <2>1, StepsAreNumbers DEF NamedLineage
  <2>3. Working = <<>> /\ Working' = <<>> /\ UNCHANGED checkpointVars
    BY <1>1, <1>r, <2>2 DEF StartFromScratch, Working
  <2>. QED BY <1>k, <2>3
<1>2. CASE Resume
  <2>1. Latest = tracker /\ tracker \in Steps
    BY <1>2 DEF Resume, Latest
  <2>2. Working' = Loaded(LastRole, tracker) /\ UNCHANGED checkpointVars
    BY <1>2, <1>r, <2>1 DEF Resume, Working
  <2>3. Working = Loaded(LastRole, tracker)
    BY <1>2, <2>1 DEF Resume, Working, NamedLineage
  <2>. QED BY <1>k, <2>2, <2>3
<1>3. CASE \/ Begin \/ Fetch \/ EndOfPass \/ EndOfEpochs \/ Generate \/ Launch \/ Await
           \/ AwaitNone \/ Relaunch \/ Validate \/ SaveReturns \/ NextStep
  <2>1. UNCHANGED <<checkpointVars, model>> /\ phase # "start" /\ phase' # "start"
    BY <1>3 DEF Begin, Fetch, EndOfPass, EndOfEpochs, Generate, Launch, Await, AwaitNone, Relaunch,
       Validate, SaveReturns, NextStep, weightVars
  <2>. QED BY <1>k, <1>r, <2>1 DEF Working
<1>4. CASE DecideSave
  <2>1. UNCHANGED <<shard, tracker, model>> /\ phase = "decide" /\ phase' # "start"
    BY <1>4 DEF DecideSave, SaveStart, checkpointVars, diskVars
  <2>. QED BY <1>r, <2>1 DEF Working, NamedLineage, Loaded, Committing
<1>5. CASE Update
  <2>1. ActorTrained
    BY <1>5, CriticWarmup <= 1, TrainingAssumption, TotalIsPositive
       DEF Update, ActorTrained, Inv, Types, LoopTypes, StepInv, Running
  <2>2. model'[LastRole] = Append(model[LastRole], batch.index)
    BY <1>5, <1>r, <2>1 DEF Update
  <2>3. batch.index \in 1..EpochLength
    BY <1>5 DEF Update, DurableInv, BatchInv
  <2>4. UNCHANGED checkpointVars /\ phase = "update" /\ phase' # "start"
    BY <1>5 DEF Update
  <2>5. Durable!Train
    BY <1>k, <1>r, <2>2, <2>3, <2>4 DEF Durable!Train, Working, Committing
  <2>. QED BY <2>5 DEF Durable!Next
<1>6. CASE Save
  <2>1. phase = "save" /\ phase' = "save" /\ model' = model
    BY <1>6, SaveFrame DEF weightVars
  <2>2. UNCHANGED Working
    BY <1>r, <2>1 DEF Working
  <2>3. CASE EnsureCapacity \/ (saving.stage = "shards" /\ Register(model[Role]))
    <3>1. tracker' = tracker
      BY <2>3 DEF EnsureCapacity, Register
    <3>2. NamedShardsStay
      BY <1>6, <2>3, Keep # 1, CapacityStep, RegisterStep
    <3>. QED BY <2>2, <3>1, <3>2, LineageKept DEF Committing
  <2>4. CASE \E k \in Ranks : SaveShard(k, model[Role])
    <3>1. tracker' = tracker
      BY <2>4 DEF SaveShard
    <3>2. NamedShardsStay
      BY <1>6, <2>4, ShardStep
    <3>. QED BY <2>2, <3>1, <3>2, LineageKept DEF Committing
  <2>5. CASE SaveData(position)
    BY <1>r, <2>2, <2>5 DEF SaveData, NamedLineage, Loaded, Committing
  <2>6. CASE TruncateTracker
    <3>1. tracker # Torn
      BY <2>1, <2>6 DEF TruncateTracker, DurableInv, OrderInv
    <3>2. tracker' = Torn
      BY <2>6 DEF TruncateTracker
    <3>3. NamedLineage' = <<>>
      BY <3>2, StepsAreNumbers DEF NamedLineage, Torn
    <3>4. Durable!Begin
      BY <2>2, <3>1, <3>2, <3>3 DEF Durable!Begin, Working, Committing
    <3>. QED BY <3>4 DEF Durable!Next
  <2>7. CASE WriteTracker
    <3>1. tracker = Torn
      BY <2>7 DEF WriteTracker, DurableInv, OrderInv
    <3>2. tracker' \in Steps /\ Loaded(LastRole, tracker)' = model[LastRole]
      BY <1>6, <1>r, <2>7, TrackerStep
    <3>3. tracker' # Torn
      BY <3>2, StepsAreNumbers DEF Torn
    <3>4. NamedLineage' = Working
      BY <1>r, <2>1, <3>2 DEF NamedLineage, Working
    <3>5. Durable!Commit
      BY <2>2, <3>1, <3>3, <3>4 DEF Durable!Commit, Working, Committing
    <3>. QED BY <3>5 DEF Durable!Next
  <2>. QED BY <1>6, <2>3, <2>4, <2>5, <2>6, <2>7 DEF Save
<1>7. CASE Crash
  <2>1. UNCHANGED <<shard, tracker>> /\ phase' = "start"
    BY <1>7 DEF Crash, LoseMemory, diskVars
  <2>2. UNCHANGED <<NamedLineage, Committing>>
    BY <1>r, <2>1 DEF NamedLineage, Loaded, Committing
  <2>3. Durable!Crash
    BY <2>1, <2>2 DEF Durable!Crash, Working, Committing
  <2>. QED BY <2>3 DEF Durable!Next
<1>8. CASE ResumeRaises
  <2>1. phase = "start" /\ phase' = "failed" /\ UNCHANGED <<checkpointVars, model>>
    BY <1>8 DEF ResumeRaises, weightVars
  <2>2. tracker = Torn
    <3>. SUFFICES ASSUME tracker # Torn PROVE FALSE
      OBVIOUS
    <3>1. Latest # 0 /\ \E r \in RoleSet : ~Loadable(r, Latest)
      BY <1>8 DEF ResumeRaises
    <3>2. Latest = tracker /\ tracker \in Steps
      BY <3>1 DEF Latest
    <3>. QED BY <3>1, <3>2 DEF DurableInv, NamedCheckpointLoads
  <2>3. NamedLineage = <<>> /\ model[LastRole] = <<>>
    BY <1>r, <2>1, <2>2, StepsAreNumbers DEF NamedLineage, Torn, DurableInv, OrderInv
  <2>4. UNCHANGED Working
    BY <1>r, <2>1, <2>3 DEF Working
  <2>. QED BY <1>k, <2>1, <2>4
<1>9. CASE UNCHANGED vars
  BY <1>9, <1>k, <1>r DEF vars, weightVars, Working
<1>. QED BY <1>1, <1>2, <1>3, <1>4, <1>5, <1>6, <1>7, <1>8, <1>9 DEF Next, Driver

\* Whatever is lost in a crash, training goes on from its last commit: the checkpoints
\* of the trainers implement DurableTraining.
THEOREM TrainingIsDurable ==
  ASSUME Keep # 1, CriticWarmup <= 1
  PROVE  Spec => RefinesDurable
BY Invariance, DurableInvariance, DurableInit, DurableStep, PTL DEF Spec, RefinesDurable, Durable!Spec

-----------------------------------------------------------------------------
(* The order of the batches and the runs that stop short                    *)

\* The places of a history whose batch does not follow the one before
Skips(h) == {i \in 1..Len(h) : h[i] # Following(IF i = 1 THEN 0 ELSE h[i - 1])}
Newer(h) == IF Len(h) = 0 THEN 0 ELSE h[Len(h)]

InTurn(h, n) ==
    /\ Cardinality(Skips(h)) <= n
    /\ \A i \in Skips(h) \ {1} : h[i] = Following(Following(h[i - 1]))

\* x may follow h where n batches may be left out: it is next, or next but one.
MayFollow(h, x, n) ==
    \/ x = Following(Newer(h))
    \/ x = Following(Following(Newer(h))) /\ Cardinality(Skips(h)) < n

Allowance == IF loop = "ppo" THEN 0 ELSE crashes

Trained == {"validate", "decide", "save", "advance"}
TurnInv ==
    \A r \in RoleSet :
        /\ InTurn(model[r], Allowance)
        /\ phase \in {"loaded", "launch", "fetch"} => MayFollow(model[r], Following(position), Allowance)
        /\ phase = "await" /\ flight # NoBatch => MayFollow(model[r], flight.index, Allowance)
        /\ phase \in {"generate", "baseline", "relaunch", "update"} =>
             MayFollow(model[r], batch.index, Allowance)
        /\ phase \in Trained => Len(model[r]) > 0 /\ Newer(model[r]) = batch.index

ReadInv ==
    /\ position \in 0..EpochLength
    /\ loop = "ppo" => flight = NoBatch
    /\ phase = "await" /\ flight # NoBatch => position = flight.index /\ flight.index \in 1..EpochLength
    /\ phase \in {"generate", "baseline", "relaunch"} => position = batch.index
    /\ phase \in {"generate", "baseline", "relaunch", "update"} \cup Trained => batch.index \in 1..EpochLength
    /\ phase \in {"update"} \cup Trained =>
         IF flight = NoBatch THEN position = batch.index
         ELSE flight.index = Following(batch.index) /\ position = flight.index

WroteInv == saving.stage \in {"truncate", "write"} => data[saving.step] = position

DataInv == tracker \in Steps => data[tracker] \in 1..EpochLength

LoaderInv == ReadInv /\ WroteInv /\ DataInv

NamedInv ==
    tracker \in Steps =>
        \A r \in RoleSet :
            LET h == Loaded(r, tracker)
            IN  /\ InTurn(h, Allowance)
                /\ \/ data[tracker] = Newer(h)
                   \/ loop # "ppo" /\ data[tracker] = Following(Newer(h))
                /\ loop # "ppo" /\ phase = "start" => Cardinality(Skips(h)) < crashes

OrderedInv == TurnInv /\ LoaderInv /\ NamedInv

----------------------------------------------------------------------------
(* The batch that follows, and histories                                    *)

LEMMA FollowingIs ==
  ASSUME NEW x \in 0..EpochLength
  PROVE  /\ Following(x) = IF x = EpochLength THEN 1 ELSE x + 1
         /\ Following(x) \in 1..EpochLength
<1>1. EpochLength \in Nat \ {0}
  BY TrainingAssumption
<1>2. x # EpochLength => x % EpochLength = x
  <2>1. \A e \in Nat \ {0} : \A y \in 0..e - 1 : y % e = y
    OBVIOUS
  <2>. QED BY <1>1, <2>1
<1>3. EpochLength % EpochLength = 0
  <2>1. \A e \in Nat \ {0} : e % e = 0
    OBVIOUS
  <2>. QED BY <1>1, <2>1
<1>. QED BY <1>1, <1>2, <1>3 DEF Following

LEMMA SkipsFinite ==
  ASSUME NEW h \in Seq(Nat)
  PROVE  IsFiniteSet(Skips(h)) /\ Cardinality(Skips(h)) \in Nat /\ Skips(h) \subseteq 1..Len(h)
<1>1. Skips(h) \subseteq 1..Len(h)
  BY DEF Skips
<1>2. IsFiniteSet(1..Len(h))
  BY FS_Interval
<1>3. IsFiniteSet(Skips(h))
  BY <1>1, <1>2, FS_Subset
<1>. QED BY <1>1, <1>3, FS_CardinalityType

LEMMA EmptyInTurn ==
  ASSUME NEW n \in Nat
  PROVE  InTurn(<<>>, n) /\ Newer(<<>>) = 0 /\ Cardinality(Skips(<<>>)) = 0
<1>1. Skips(<<>>) = {}
  BY DEF Skips
<1>2. Cardinality(Skips(<<>>)) = 0
  BY <1>1, FS_EmptySet
<1>. QED BY <1>1, <1>2 DEF InTurn, Newer

\* A batch that may follow a history leaves it in turn.
LEMMA AppendInTurn ==
  ASSUME NEW h \in Seq(Nat), NEW x \in Nat, NEW n \in Nat, InTurn(h, n), MayFollow(h, x, n)
  PROVE  /\ InTurn(Append(h, x), n)
         /\ Len(Append(h, x)) > 0 /\ Newer(Append(h, x)) = x
<1>. DEFINE g == Append(h, x)
            l == Len(h)
<1>1. /\ l \in Nat /\ Len(g) = l + 1 /\ g[l + 1] = x
      /\ \A i \in 1..l : g[i] = h[i]
  OBVIOUS
<1>2. Len(g) > 0 /\ Newer(g) = x
  BY <1>1 DEF Newer
<1>3. l + 1 \in Skips(g) <=> x # Following(Newer(h))
  <2>1. l # 0 => l \in 1..l /\ g[l] = h[l]
    BY <1>1
  <2>2. Following(IF l + 1 = 1 THEN 0 ELSE g[l + 1 - 1]) = Following(Newer(h))
    BY <1>1, <2>1 DEF Newer
  <2>. QED BY <1>1, <2>2 DEF Skips
<1>4. \A i \in 1..l : i \in Skips(g) <=> i \in Skips(h)
  <2>. SUFFICES ASSUME NEW i \in 1..l PROVE i \in Skips(g) <=> i \in Skips(h)
    OBVIOUS
  <2>1. g[i] = h[i] /\ (i # 1 => g[i - 1] = h[i - 1]) /\ i \in 1..l + 1
    BY <1>1
  <2>. QED BY <1>1, <2>1 DEF Skips
<1>5. Skips(g) \subseteq 1..l + 1 /\ Skips(h) \subseteq 1..l
  BY <1>1 DEF Skips
<1>6. Skips(g) = IF x = Following(Newer(h)) THEN Skips(h) ELSE Skips(h) \cup {l + 1}
  <2>1. \A i \in 1..l + 1 : i \in 1..l \/ i = l + 1
    BY <1>1
  <2>2. l + 1 \notin 1..l
    BY <1>1
  <2>. DEFINE G == Skips(g)
              H == Skips(h)
              U == 1..l
              V == 1..l + 1
  <2>3. \A i \in V : i \in U \/ i = l + 1
    BY <2>1
  <2>4. \A i \in U : i \in G <=> i \in H
    BY <1>4
  <2>5. G \subseteq V /\ H \subseteq U /\ l + 1 \notin U
    BY <1>5, <2>2
  <2>. HIDE DEF G, H, U, V
  <2>6. l + 1 \in G => G = H \cup {l + 1}
    BY <1>1, <2>3, <2>4, <2>5 DEF U, V
  <2>7. l + 1 \notin G => G = H
    BY <1>1, <2>3, <2>4, <2>5 DEF U, V
  <2>. QED BY <1>3, <2>6, <2>7 DEF G, H
<1>7. IsFiniteSet(Skips(h)) /\ Cardinality(Skips(h)) \in Nat
  BY SkipsFinite
<1>8. Cardinality(Skips(g)) <= n
  <2>1. CASE x = Following(Newer(h))
    BY <1>6, <2>1 DEF InTurn
  <2>2. CASE x # Following(Newer(h))
    <3>1. Cardinality(Skips(h)) < n
      BY <2>2 DEF MayFollow
    <3>2. l + 1 \notin Skips(h)
      BY <1>1, <1>5
    <3>3. Cardinality(Skips(h) \cup {l + 1}) = Cardinality(Skips(h)) + 1
      BY <1>7, <3>2, FS_AddElement
    <3>. QED BY <1>6, <1>7, <2>2, <3>1, <3>3
  <2>. QED BY <2>1, <2>2
<1>9. ASSUME NEW i \in Skips(g) \ {1}
      PROVE  g[i] = Following(Following(g[i - 1]))
  <2>1. CASE i \in Skips(h)
    <3>1. i \in 1..l /\ i - 1 \in 1..l
      BY <1>1, <1>5, <1>9, <2>1
    <3>2. h[i] = Following(Following(h[i - 1]))
      BY <1>9, <2>1 DEF InTurn
    <3>. QED BY <1>1, <3>1, <3>2
  <2>2. CASE i = l + 1 /\ x # Following(Newer(h))
    <3>1. x = Following(Following(Newer(h)))
      BY <2>2 DEF MayFollow
    <3>2. l # 0 /\ i - 1 = l /\ l \in 1..l
      BY <1>1, <1>9, <2>2
    <3>3. Newer(h) = g[i - 1]
      BY <1>1, <3>2 DEF Newer
    <3>. QED BY <1>1, <2>2, <3>1, <3>3
  <2>. HIDE DEF g, l
  <2>. QED BY <1>6, <1>9, <2>1, <2>2
<1>. QED BY <1>2, <1>8, <1>9 DEF InTurn

----------------------------------------------------------------------------
(* A step keeps the histories in turn                                       *)

LEMMA FollowingEnds == Following(0) = 1 /\ Following(EpochLength) = 1
<1>1. EpochLength \in Nat \ {0} /\ 0 \in 0..EpochLength /\ EpochLength \in 0..EpochLength
  BY TrainingAssumption
<1>. QED BY <1>1, FollowingIs

\* Where the data loader may be put back to, the same batch comes next.
LEMMA RestoredFollows ==
  ASSUME DataInv, tracker \in Steps, NEW p \in Restored(tracker)
  PROVE  Following(p) = Following(data[tracker]) /\ p \in 0..EpochLength
<1>1. data[tracker] \in 1..EpochLength /\ EpochLength \in Nat \ {0}
  BY TrainingAssumption DEF DataInv
<1>2. p = data[tracker] \/ (p = 0 /\ data[tracker] = EpochLength)
  BY <1>1 DEF Restored, NoData
<1>. QED BY <1>1, <1>2, FollowingEnds

LEMMA LaunchedFollows ==
  ASSUME LoopTypes, position \in 0..EpochLength, Launched # NoBatch
  PROVE  Launched.index = Following(position) /\ Launched.index \in 1..EpochLength
<1>1. EpochLength \in Nat \ {0}
  BY TrainingAssumption
<1>2. Launched.index = IF position < EpochLength THEN position + 1 ELSE 1
  BY DEF Launched
<1>. QED BY <1>1, <1>2, FollowingIs

LEMMA TurnStep ==
  ASSUME CriticWarmup <= 1
  PROVE  Inv /\ OrderedInv /\ [Next]_vars => TurnInv'
<1>. SUFFICES ASSUME Inv, OrderedInv, [Next]_vars, NEW r \in RoleSet
              PROVE  /\ InTurn(model'[r], Allowance')
                     /\ phase' \in {"loaded", "launch", "fetch"} =>
                          MayFollow(model[r], Following(position), Allowance)'
                     /\ phase' = "await" /\ flight' # NoBatch => MayFollow(model[r], flight.index, Allowance)'
                     /\ phase' \in {"generate", "baseline", "relaunch", "update"} =>
                          MayFollow(model[r], batch.index, Allowance)'
                     /\ phase' \in Trained => Len(model'[r]) > 0 /\ Newer(model'[r]) = batch'.index
  BY DEF TurnInv
<1>t. /\ InTurn(model[r], Allowance)
      /\ phase \in {"loaded", "launch", "fetch"} => MayFollow(model[r], Following(position), Allowance)
      /\ phase = "await" /\ flight # NoBatch => MayFollow(model[r], flight.index, Allowance)
      /\ phase \in {"generate", "baseline", "relaunch", "update"} =>
           MayFollow(model[r], batch.index, Allowance)
      /\ phase \in Trained => Len(model[r]) > 0 /\ Newer(model[r]) = batch.index
  BY DEF OrderedInv, TurnInv
<1>m. model[r] \in Seq(Nat) /\ crashes \in Nat /\ Allowance \in Nat
  BY DEF Inv, Types, LoopTypes, Allowance
<1>f. ASSUME UNCHANGED <<loop, crashes>>
      PROVE  Allowance' = Allowance
  BY <1>f DEF Allowance
<1>k. ASSUME UNCHANGED <<loop, crashes, model>>
      PROVE  /\ InTurn(model'[r], Allowance')
             /\ \A x : MayFollow(model[r], x, Allowance) => MayFollow(model'[r], x, Allowance')
  BY <1>k, <1>t, <1>f
<1>. USE DEF Trained
<1>1. CASE StartFromScratch
  <2>1. /\ model'[r] = <<>> /\ position' = 0 /\ phase' = "loaded" /\ Allowance' = Allowance
    BY <1>1, <1>f DEF StartFromScratch
  <2>2. MayFollow(model[r], Following(position), Allowance)'
    BY <1>m, <2>1, EmptyInTurn DEF MayFollow
  <2>. QED BY <1>m, <2>1, <2>2, EmptyInTurn
<1>2. CASE Resume
  <2>1. Latest = tracker /\ tracker \in Steps
    BY <1>2 DEF Resume, Latest
  <2>2. /\ model'[r] = Loaded(r, tracker) /\ position' \in Restored(tracker) /\ phase = "start"
        /\ phase' = "loaded" /\ UNCHANGED <<loop, crashes>>
    BY <1>2, <2>1 DEF Resume
  <2>3. Following(position') = Following(data[tracker])
    BY <2>1, <2>2, RestoredFollows DEF OrderedInv, LoaderInv
  <2>. DEFINE h == Loaded(r, tracker)
  <2>4. /\ InTurn(h, Allowance)
        /\ data[tracker] = Newer(h) \/ (loop # "ppo" /\ data[tracker] = Following(Newer(h)))
        /\ loop # "ppo" => Cardinality(Skips(h)) < crashes
    BY <2>1, <2>2 DEF OrderedInv, NamedInv
  <2>. HIDE DEF h
  <2>5. MayFollow(h, Following(position'), Allowance)
    BY <2>3, <2>4 DEF MayFollow, Allowance
  <2>6. MayFollow(model[r], Following(position), Allowance)'
    BY <1>f, <2>2, <2>5 DEF h
  <2>. QED BY <1>f, <2>2, <2>4, <2>6 DEF h
<1>3. CASE ResumeRaises \/ EndOfEpochs \/ AwaitNone
  <2>1. phase' \in {"failed", "ended", "underrun"} /\ UNCHANGED <<loop, crashes, model>>
    BY <1>3 DEF ResumeRaises, EndOfEpochs, AwaitNone, weightVars
  <2>. QED BY <1>k, <2>1
<1>4. CASE Begin
  <2>1. phase = "loaded" /\ phase' \in {"fetch", "launch"} /\ UNCHANGED <<loop, crashes, model, position>>
    BY <1>4 DEF Begin
  <2>. QED BY <1>k, <1>t, <2>1
<1>5. CASE Fetch
  <2>1. /\ phase = "fetch" /\ phase' = "generate" /\ UNCHANGED <<loop, crashes, model>>
        /\ batch'.index = position + 1 /\ position < EpochLength
    BY <1>5 DEF Fetch, weightVars
  <2>2. batch'.index = Following(position)
    BY <2>1, FollowingIs, TrainingAssumption DEF OrderedInv, LoaderInv, ReadInv
  <2>. QED BY <1>k, <1>t, <2>1, <2>2
<1>6. CASE EndOfPass
  <2>1. /\ phase = "fetch" /\ phase' = "fetch" /\ UNCHANGED <<loop, crashes, model>>
        /\ position = EpochLength /\ position' = 0
    BY <1>6 DEF EndOfPass, weightVars
  <2>. QED BY <1>k, <1>t, <2>1, FollowingEnds
<1>7. CASE Generate
  <2>1. /\ phase \in {"generate", "baseline"} /\ phase' \in {"baseline", "update"}
        /\ UNCHANGED <<loop, crashes, model, batch>>
    BY <1>7 DEF Generate, loopVars
  <2>. QED BY <1>k, <1>t, <2>1
<1>8. CASE Launch
  <2>1. /\ phase = "launch" /\ phase' = "await" /\ UNCHANGED <<loop, crashes, model>>
        /\ flight' = Launched
    BY <1>8 DEF Launch, Advance, weightVars
  <2>2. Launched # NoBatch => Launched.index = Following(position)
    BY LaunchedFollows DEF OrderedInv, LoaderInv, ReadInv, Inv, Types
  <2>. QED BY <1>k, <1>t, <2>1, <2>2
<1>9. CASE Await
  <2>1. /\ phase = "await" /\ phase' \in {"update", "relaunch"} /\ UNCHANGED <<loop, crashes, model>>
        /\ batch' = flight /\ flight # NoBatch
    BY <1>9 DEF Await
  <2>. QED BY <1>k, <1>t, <2>1
<1>10. CASE Relaunch
  <2>1. /\ phase = "relaunch" /\ phase' = "update" /\ UNCHANGED <<loop, crashes, model, batch>>
    BY <1>10 DEF Relaunch, Advance, weightVars
  <2>. QED BY <1>k, <1>t, <2>1
<1>11. CASE Update
  <2>1. ActorTrained
    BY <1>11, CriticWarmup <= 1, TrainingAssumption, TotalIsPositive
       DEF Update, ActorTrained, Inv, Types, LoopTypes, StepInv, Running
  <2>2. /\ model'[r] = Append(model[r], batch.index) /\ UNCHANGED <<loop, crashes, batch>>
        /\ phase = "update" /\ phase' \in {"validate", "decide"}
    BY <1>11, <2>1 DEF Update, loopVars
  <2>3. batch.index \in Nat
    BY DEF Inv, Types, LoopTypes, Batch
  <2>4. /\ InTurn(Append(model[r], batch.index), Allowance)
        /\ Len(Append(model[r], batch.index)) > 0
        /\ Newer(Append(model[r], batch.index)) = batch.index
    BY <1>m, <1>t, <2>2, <2>3, AppendInTurn
  <2>. QED BY <1>f, <2>2, <2>4
<1>12. CASE Validate \/ DecideSave \/ Save \/ SaveReturns
  <2>1. /\ phase \in Trained /\ phase' \in Trained /\ UNCHANGED <<loop, crashes, model, batch>>
    BY <1>12, SaveFrame DEF Validate, DecideSave, SaveReturns, loopVars, weightVars
  <2>. QED BY <1>k, <1>t, <2>1
<1>13. CASE NextStep
  <2>1. /\ phase = "advance" /\ UNCHANGED <<loop, crashes, model, position, flight>>
        /\ phase' = IF IsLastStep THEN "done" ELSE IF loop = "ppo" THEN "fetch" ELSE "await"
    BY <1>13 DEF NextStep, weightVars
  <2>2. CASE phase' = "done"
    BY <1>k, <2>1, <2>2
  <2>3. CASE phase' = "fetch"
    <3>1. position = batch.index
      BY <2>1, <2>3 DEF OrderedInv, LoaderInv, ReadInv
    <3>2. MayFollow(model[r], Following(position), Allowance)
      BY <1>t, <2>1, <3>1 DEF MayFollow
    <3>. QED BY <1>k, <2>1, <2>3, <3>2
  <2>4. CASE phase' = "await"
    <3>1. flight # NoBatch => flight.index = Following(Newer(model[r]))
      BY <1>t, <2>1 DEF OrderedInv, LoaderInv, ReadInv
    <3>2. flight # NoBatch => MayFollow(model[r], flight.index, Allowance)
      BY <3>1 DEF MayFollow
    <3>. QED BY <1>k, <2>1, <2>4, <3>2
  <2>. QED BY <2>1, <2>2, <2>3, <2>4
<1>14. CASE Crash
  <2>1. model'[r] = <<>> /\ phase' = "start" /\ loop' = loop /\ crashes' = crashes + 1
    BY <1>14 DEF Crash
  <2>2. Allowance' \in Nat
    BY <1>m, <2>1 DEF Allowance
  <2>. QED BY <2>1, <2>2, EmptyInTurn
<1>15. CASE UNCHANGED vars
  <2>1. UNCHANGED <<loop, crashes, model, phase, batch, flight, position>>
    BY <1>15 DEF vars, weightVars, loopVars
  <2>. QED BY <1>k, <1>t, <2>1
<1>. QED BY <1>1, <1>2, <1>3, <1>4, <1>5, <1>6, <1>7, <1>8, <1>9, <1>10, <1>11, <1>12, <1>13, <1>14,
            <1>15 DEF Next, Driver

----------------------------------------------------------------------------
(* A step keeps the data loader and the checkpoints in line                 *)

LEMMA ReadStep == Inv /\ LoaderInv /\ [Next]_vars => ReadInv'
<1>. SUFFICES ASSUME Inv, ReadInv, DataInv, [Next]_vars PROVE ReadInv'
  BY DEF LoaderInv
<1>. USE DEF ReadInv, Trained
<1>e. EpochLength \in Nat \ {0} /\ 0 \in 0..EpochLength
  BY TrainingAssumption
<1>f. ASSUME UNCHANGED <<position, loop, flight>>, phase' \in Before \cup Over \cup {"launch", "fetch"}
      PROVE  ReadInv'
  BY <1>f DEF Before, Over
<1>1. CASE StartFromScratch
  BY <1>1, <1>e DEF StartFromScratch
<1>2. CASE Resume
  <2>1. Latest = tracker /\ tracker \in Steps
    BY <1>2 DEF Resume, Latest
  <2>2. position' \in 0..EpochLength
    BY <1>2, <2>1, RestoredFollows DEF Resume
  <2>. QED BY <1>2, <2>2 DEF Resume
<1>3. CASE ResumeRaises \/ EndOfEpochs \/ AwaitNone \/ Begin
  <2>1. UNCHANGED <<position, loop, flight>> /\ phase' \in Over \cup {"launch", "fetch"}
    BY <1>3 DEF ResumeRaises, EndOfEpochs, AwaitNone, Begin, loopVars, Over
  <2>. QED BY <1>f, <2>1
<1>4. CASE Fetch
  BY <1>4, <1>e DEF Fetch
<1>5. CASE EndOfPass
  BY <1>5, <1>e DEF EndOfPass
<1>6. CASE Generate
  BY <1>6 DEF Generate, loopVars, Inv, LoopInv, PpoPhases
<1>7. CASE Launch \/ Relaunch
  <2>1. /\ \/ phase = "launch" /\ phase' = "await"
           \/ phase = "relaunch" /\ phase' = "update" /\ batch' = batch
        /\ flight' = Launched /\ loop' = loop
        /\ position' = IF Launched = NoBatch THEN position ELSE Launched.index
    BY <1>7 DEF Launch, Relaunch, Advance
  <2>2. Launched # NoBatch => Launched.index = Following(position) /\ Launched.index \in 1..EpochLength
    BY LaunchedFollows DEF Inv, Types
  <2>3. loop # "ppo"
    BY <2>1 DEF Inv, LoopInv, OneStepPhases
  <2>4. position' \in 0..EpochLength
    BY <1>e, <2>1, <2>2
  <2>5. CASE phase = "launch"
    <3>1. /\ phase' = "await" /\ loop' # "ppo" /\ flight' = Launched
          /\ flight' # NoBatch => position' = flight'.index /\ flight'.index \in 1..EpochLength
      BY <2>1, <2>2, <2>3, <2>5
    <3>. QED BY <2>4, <3>1
  <2>6. CASE phase = "relaunch"
    <3>1. /\ phase' = "update" /\ loop' # "ppo" /\ batch' = batch
          /\ position = batch.index /\ batch.index \in 1..EpochLength
      BY <2>1, <2>3, <2>6
    <3>2. IF flight' = NoBatch THEN position' = batch'.index
          ELSE flight'.index = Following(batch'.index) /\ position' = flight'.index
      BY <2>1, <2>2, <3>1
    <3>. QED BY <2>4, <3>1, <3>2
  <2>. QED BY <2>1, <2>5, <2>6
<1>8. CASE Await
  <2>1. /\ phase = "await" /\ phase' \in {"update", "relaunch"} /\ flight # NoBatch
        /\ batch' = flight /\ flight' = NoBatch /\ UNCHANGED <<loop, position>>
    BY <1>8 DEF Await
  <2>. QED BY <2>1
<1>9. CASE Update \/ Validate \/ DecideSave \/ Save \/ SaveReturns
  <2>1. /\ phase \in {"update"} \cup Trained /\ phase' \in Trained
        /\ UNCHANGED <<loop, position, flight, batch>>
    BY <1>9, SaveFrame DEF Update, Validate, DecideSave, SaveReturns, loopVars
  <2>. QED BY <2>1
<1>10. CASE NextStep
  <2>1. /\ phase = "advance" /\ phase' \in {"done", "fetch", "await"}
        /\ UNCHANGED <<loop, position, flight, batch>>
    BY <1>10 DEF NextStep
  <2>2. phase' = "await" /\ flight # NoBatch => position = flight.index /\ flight.index \in 1..EpochLength
    BY <2>1, FollowingIs
  <2>. QED BY <2>1, <2>2
<1>11. CASE Crash
  BY <1>11, <1>e DEF Crash
<1>12. CASE UNCHANGED vars
  BY <1>12 DEF vars, loopVars
<1>. QED BY <1>1, <1>2, <1>3, <1>4, <1>5, <1>6, <1>7, <1>8, <1>9, <1>10, <1>11, <1>12 DEF Next, Driver

\* What the disk holds of the step being saved is the position of the data loader.
LEMMA WroteStep == Inv /\ WroteInv /\ [Next]_vars => WroteInv'
<1>. SUFFICES ASSUME Inv, WroteInv, [Next]_vars PROVE WroteInv'
  OBVIOUS
<1>. USE DEF WroteInv
<1>s. saving.stage # "none" => phase = "save"
  BY DEF Inv, SavingInv
<1>1. CASE Save
  <2>1. UNCHANGED <<position, phase, step>>
    BY <1>1, SaveFrame DEF loopVars
  <2>2. CASE EnsureCapacity
    BY <2>2 DEF EnsureCapacity, Inv, Types, DiskTypes
  <2>3. CASE \E k \in Ranks : SaveShard(k, model[Role])
    BY <2>3 DEF SaveShard
  <2>4. CASE saving.stage = "shards" /\ Register(model[Role])
    <3>1. saving'.stage \in {"capacity", "data"}
      BY <2>4 DEF Register, Inv, Types, DiskTypes
    <3>. QED BY <3>1
  <2>5. CASE SaveData(position)
    <3>1. phase = "save" /\ saving.step = step
      BY <1>1, <2>5, SaveFrame DEF SaveData, Inv, SavingInv
    <3>2. step \in Steps
      BY <3>1, TotalIsPositive, TrainingAssumption DEF Inv, Types, LoopTypes, StepInv, Running
    <3>3. /\ saving'.step = step /\ data' = [data EXCEPT ![step] = position]
      BY <2>5, <3>1 DEF SaveData, Inv, Types, DiskTypes
    <3>. QED BY <2>1, <3>2, <3>3 DEF Inv, Types, DiskTypes
  <2>6. CASE TruncateTracker
    <3>1. saving'.step = saving.step /\ data' = data /\ saving.stage = "truncate"
      BY <2>6 DEF TruncateTracker, Inv, Types, DiskTypes
    <3>. QED BY <2>1, <3>1
  <2>7. CASE WriteTracker
    BY <2>7 DEF WriteTracker, NotSaving
  <2>. QED BY <1>1, <2>2, <2>3, <2>4, <2>5, <2>6, <2>7 DEF Save
<1>2. CASE Crash
  BY <1>2 DEF Crash, LoseMemory, NotSaving
<1>3. CASE DecideSave
  BY <1>3 DEF DecideSave, SaveStart, checkpointVars, diskVars, loopVars
<1>4. CASE \/ StartFromScratch \/ Resume \/ ResumeRaises \/ Begin
           \/ Fetch \/ EndOfPass \/ EndOfEpochs \/ Generate
           \/ Launch \/ Await \/ AwaitNone \/ Relaunch
           \/ Update \/ Validate \/ NextStep
  <2>1. UNCHANGED checkpointVars /\ phase # "save"
    BY <1>4 DEF StartFromScratch, Resume, ResumeRaises, Begin, Fetch, EndOfPass, EndOfEpochs, Generate,
       Launch, Await, AwaitNone, Relaunch, Update, Validate, NextStep
  <2>. QED BY <1>s, <2>1 DEF checkpointVars
<1>5. CASE SaveReturns \/ UNCHANGED vars
  <2>1. UNCHANGED <<checkpointVars, position>>
    BY <1>5 DEF SaveReturns, vars, loopVars
  <2>. QED BY <2>1 DEF checkpointVars
<1>. QED BY <1>1, <1>2, <1>3, <1>4, <1>5 DEF Next, Driver

LEMMA DataStep == Inv /\ LoaderInv /\ [Next]_vars => DataInv'
<1>. SUFFICES ASSUME Inv, LoaderInv, [Next]_vars, tracker' \in Steps
              PROVE  data'[tracker'] \in 1..EpochLength
  BY DEF DataInv
<1>1. CASE Save /\ SaveData(position)
  <2>1. /\ phase = "save" /\ saving.step = step /\ tracker' = tracker
        /\ data' = [data EXCEPT ![step] = position]
    BY <1>1, SaveFrame DEF SaveData, Inv, SavingInv
  <2>2. position \in 1..EpochLength
    BY <2>1, FollowingIs DEF LoaderInv, ReadInv, Trained
  <2>. QED BY <2>1, <2>2 DEF LoaderInv, DataInv, Inv, Types, DiskTypes
<1>2. CASE Save /\ WriteTracker
  <2>1. phase = "save" /\ data' = data /\ data[tracker'] = position
    BY <1>2, SaveFrame DEF WriteTracker, LoaderInv, WroteInv
  <2>2. position \in 1..EpochLength
    BY <2>1, FollowingIs DEF LoaderInv, ReadInv, Trained
  <2>. QED BY <2>1, <2>2
<1>3. CASE Save /\ TruncateTracker
  BY <1>3, StepsAreNumbers DEF TruncateTracker, Torn
<1>4. CASE Save /\ ~SaveData(position) /\ ~WriteTracker /\ ~TruncateTracker
  BY <1>4 DEF Save, EnsureCapacity, SaveShard, Register, LoaderInv, DataInv
<1>5. CASE ~Save
  BY <1>5 DEF Next, Driver, StartFromScratch, Resume, ResumeRaises, Begin, Fetch, EndOfPass, EndOfEpochs,
     Generate, Launch, Await, AwaitNone, Relaunch, Update, Validate, DecideSave, SaveStart, SaveReturns,
     NextStep, Crash, LoseMemory, vars, checkpointVars, diskVars, LoaderInv, DataInv
<1>. QED BY <1>1, <1>2, <1>3, <1>4, <1>5

LEMMA LoaderInvariance == Spec => []LoaderInv
<1>1. Init => LoaderInv
  <2>. SUFFICES ASSUME Init PROVE LoaderInv
    OBVIOUS
  <2>1. ReadInv /\ WroteInv
    BY TrainingAssumption DEF Init, CheckpointInit, ReadInv, WroteInv, NotSaving, Trained
  <2>2. DataInv
    BY StepsAreNumbers DEF Init, CheckpointInit, DataInv
  <2>. QED BY <2>1, <2>2 DEF LoaderInv
<1>2. Inv /\ LoaderInv /\ [Next]_vars => LoaderInv'
  <2>1. LoaderInv => WroteInv
    BY DEF LoaderInv
  <2>. QED BY <2>1, ReadStep, WroteStep, DataStep DEF LoaderInv
<1>. QED BY Invariance, <1>1, <1>2, PTL DEF Spec

\* The checkpoint that was named stays as it was.
LEMMA NamedStays ==
  ASSUME NamedInv, UNCHANGED <<loop, crashes>>, phase' = "start" => phase = "start",
         tracker' \in Steps => tracker' = tracker,
         NamedShardsStay, tracker \in Steps => data'[tracker] = data[tracker]
  PROVE  NamedInv'
<1>. SUFFICES ASSUME tracker' \in Steps PROVE NamedInv'
  BY DEF NamedInv
<1>1. tracker' = tracker /\ tracker \in Steps /\ Allowance' = Allowance
  BY DEF Allowance
<1>2. \A r \in RoleSet : Loaded(r, tracker)' = Loaded(r, tracker)
  BY <1>1 DEF Loaded, NamedShardsStay
<1>3. ASSUME NEW r \in RoleSet
      PROVE  LET h == Loaded(r, tracker)'
             IN  /\ InTurn(h, Allowance')
                 /\ \/ data'[tracker'] = Newer(h)
                    \/ loop' # "ppo" /\ data'[tracker'] = Following(Newer(h))
                 /\ loop' # "ppo" /\ phase' = "start" => Cardinality(Skips(h)) < crashes'
  BY <1>1, <1>2 DEF NamedInv
<1>. QED BY <1>3 DEF NamedInv

LEMMA NamedStep ==
  ASSUME Keep # 1
  PROVE  Inv /\ DurableInv /\ OrderedInv /\ [Next]_vars => NamedInv'
<1>. SUFFICES ASSUME Inv, DurableInv, OrderedInv, [Next]_vars PROVE NamedInv'
  OBVIOUS
<1>n. NamedInv
  BY DEF OrderedInv
<1>1. CASE Save
  <2>1. UNCHANGED <<loop, phase, crashes, model, batch, flight, position>> /\ phase = "save"
    BY <1>1, SaveFrame DEF loopVars, weightVars
  <2>2. CASE EnsureCapacity \/ (saving.stage = "shards" /\ Register(model[Role]))
             \/ \E k \in Ranks : SaveShard(k, model[Role])
    <3>1. UNCHANGED <<tracker, data>>
      BY <2>2 DEF EnsureCapacity, Register, SaveShard
    <3>2. NamedShardsStay
      BY <1>1, <2>2, Keep # 1, CapacityStep, RegisterStep, ShardStep
    <3>. QED BY <1>n, <2>1, <3>1, <3>2, NamedStays
  <2>3. CASE SaveData(position)
    <3>1. UNCHANGED <<tracker, shard>> /\ data' = [data EXCEPT ![saving.step] = position]
          /\ saving.stage # "none"
      BY <2>3 DEF SaveData
    <3>2. tracker \in Steps => tracker # saving.step
      BY <3>1, StepsAreNumbers DEF DurableInv, OrderInv, Inv, SavingInv, Types, LoopTypes
    <3>3. tracker \in Steps => data'[tracker] = data[tracker]
      BY <3>1, <3>2 DEF Inv, Types, DiskTypes
    <3>. QED BY <1>n, <2>1, <3>1, <3>3, NamedStays DEF NamedShardsStay
  <2>4. CASE TruncateTracker
    <3>1. tracker' \notin Steps
      BY <2>4, StepsAreNumbers DEF TruncateTracker, Torn
    <3>. QED BY <3>1 DEF NamedInv
  <2>5. CASE WriteTracker
    <3>1. \A r \in RoleSet : Loaded(r, tracker)' = model[r]
      BY <1>1, <2>5, TrackerStep
    <3>2. data'[tracker'] = position
      BY <2>5 DEF WriteTracker, OrderedInv, LoaderInv, WroteInv
    <3>3. \A r \in RoleSet : InTurn(model[r], Allowance) /\ Newer(model[r]) = batch.index
      BY <2>1 DEF OrderedInv, TurnInv, Trained
    <3>4. position = batch.index \/ (loop # "ppo" /\ position = Following(batch.index))
      BY <2>1 DEF OrderedInv, LoaderInv, ReadInv, Trained
    <3>5. Allowance' = Allowance
      BY <2>1 DEF Allowance
    <3>6. ASSUME NEW r \in RoleSet
          PROVE  LET h == Loaded(r, tracker)'
                 IN  /\ InTurn(h, Allowance')
                     /\ \/ data'[tracker'] = Newer(h)
                        \/ loop' # "ppo" /\ data'[tracker'] = Following(Newer(h))
                     /\ loop' # "ppo" /\ phase' = "start" => Cardinality(Skips(h)) < crashes'
      BY <2>1, <3>1, <3>2, <3>3, <3>4, <3>5
    <3>. QED BY <3>6 DEF NamedInv
  <2>. QED BY <1>1, <2>2, <2>3, <2>4, <2>5 DEF Save
<1>2. CASE Crash
  <2>. SUFFICES ASSUME tracker' \in Steps PROVE NamedInv'
    BY DEF NamedInv
  <2>1. UNCHANGED <<shard, data, tracker, loop>> /\ crashes' = crashes + 1
    BY <1>2 DEF Crash, LoseMemory, diskVars
  <2>2. \A r \in RoleSet : Loaded(r, tracker)' = Loaded(r, tracker)
    BY <2>1 DEF Loaded
  <2>3. ASSUME NEW r \in RoleSet
        PROVE  LET h == Loaded(r, tracker)
               IN  /\ InTurn(h, Allowance')
                   /\ loop # "ppo" => Cardinality(Skips(h)) < crashes'
    <3>. DEFINE h == Loaded(r, tracker)
    <3>1. h \in Seq(Nat)
      <4>1. (CHOOSE k \in Ranks : TRUE) \in Ranks
        BY CheckpointAssumption
      <4>. QED BY <2>1, <4>1 DEF Loaded, Inv, Types, DiskTypes
    <3>2. InTurn(h, Allowance)
      BY <1>n, <2>1 DEF NamedInv
    <3>. HIDE DEF h
    <3>3. Cardinality(Skips(h)) \in Nat /\ crashes \in Nat
      BY <3>1, SkipsFinite DEF Inv, Types, LoopTypes
    <3>. QED BY <2>1, <3>2, <3>3 DEF InTurn, Allowance, h
  <2>4. ASSUME NEW r \in RoleSet
        PROVE  LET h == Loaded(r, tracker)'
               IN  /\ InTurn(h, Allowance')
                   /\ \/ data'[tracker'] = Newer(h)
                      \/ loop' # "ppo" /\ data'[tracker'] = Following(Newer(h))
                   /\ loop' # "ppo" /\ phase' = "start" => Cardinality(Skips(h)) < crashes'
    BY <1>n, <2>1, <2>2, <2>3 DEF NamedInv
  <2>. QED BY <2>4 DEF NamedInv
<1>3. CASE DecideSave
  <2>1. UNCHANGED <<diskVars, loop, crashes>> /\ phase' # "start"
    BY <1>3 DEF DecideSave, SaveStart, checkpointVars, diskVars
  <2>. QED BY <1>n, <2>1, NamedStays DEF diskVars, NamedShardsStay
<1>4. CASE \/ StartFromScratch \/ Resume \/ ResumeRaises \/ Begin
           \/ Fetch \/ EndOfPass \/ EndOfEpochs \/ Generate
           \/ Launch \/ Await \/ AwaitNone \/ Relaunch
           \/ Update \/ Validate \/ SaveReturns \/ NextStep
  <2>1. UNCHANGED <<checkpointVars, loop, crashes>> /\ phase' # "start"
    BY <1>4 DEF StartFromScratch, Resume, ResumeRaises, Begin, Fetch, EndOfPass, EndOfEpochs, Generate,
       Launch, Await, AwaitNone, Relaunch, Update, Validate, SaveReturns, NextStep
  <2>. QED BY <1>n, <2>1, NamedStays DEF checkpointVars, NamedShardsStay
<1>5. CASE UNCHANGED vars
  <2>1. UNCHANGED <<checkpointVars, loop, crashes, phase>>
    BY <1>5 DEF vars
  <2>. QED BY <1>n, <2>1, NamedStays DEF checkpointVars, NamedShardsStay
<1>. QED BY <1>1, <1>2, <1>3, <1>4, <1>5 DEF Next, Driver

LEMMA OrderedInvariance ==
  ASSUME Keep # 1, CriticWarmup <= 1
  PROVE  Spec => []OrderedInv
<1>1. Init => TurnInv /\ NamedInv
  <2>. SUFFICES ASSUME Init PROVE TurnInv /\ NamedInv
    OBVIOUS
  <2>1. Allowance \in Nat
    BY TrainingAssumption DEF Init, Allowance
  <2>2. TurnInv
    BY <2>1, EmptyInTurn DEF Init, TurnInv, Trained
  <2>3. NamedInv
    BY StepsAreNumbers DEF Init, CheckpointInit, NamedInv
  <2>. QED BY <2>2, <2>3
<1>2. /\ Inv /\ OrderedInv /\ [Next]_vars => TurnInv'
      /\ Inv /\ DurableInv /\ OrderedInv /\ [Next]_vars => NamedInv'
  BY TurnStep, NamedStep, Keep # 1, CriticWarmup <= 1
<1>3. OrderedInv <=> TurnInv /\ LoaderInv /\ NamedInv
  BY DEF OrderedInv
<1>. QED BY Invariance, DurableInvariance, LoaderInvariance, <1>1, <1>2, <1>3, PTL DEF Spec

\* No crash makes a role train on a batch twice or leave one out, but for the batch the
\* one-step-off trainer had in flight: at most one for each crash, however many crashes,
\* passes and checkpoints there are.
THEOREM NoBatchTwice ==
  ASSUME Keep # 1, CriticWarmup <= 1
  PROVE  Spec => []BatchesInTurn
<1>1. OrderedInv => BatchesInTurn
  <2>. SUFFICES ASSUME OrderedInv, NEW r \in RoleSet
                PROVE  /\ Cardinality(Skipped(r)) <= (IF loop = "ppo" THEN 0 ELSE crashes)
                       /\ \A i \in Skipped(r) \ {1} : model[r][i] = Following(Following(model[r][i - 1]))
    BY DEF BatchesInTurn
  <2>1. InTurn(model[r], Allowance)
    BY DEF OrderedInv, TurnInv
  <2>2. Skipped(r) = Skips(model[r])
    BY DEF Skipped, Skips
  <2>. QED BY <2>1, <2>2 DEF InTurn, Allowance
<1>. QED BY OrderedInvariance, <1>1, PTL

----------------------------------------------------------------------------
(* Batches read and steps made                                              *)

Read == epoch * EpochLength + position

\* Where the data loader may have been when the run began
Opened == {0} \cup (IF resumedAt > 0 THEN {data[resumedAt]} ELSE {})

\* Some passes and p batches
Aligned(s, p) == \E k \in Nat : s = k * EpochLength + p

AtEndOfPass == resumedAt > 0 /\ data[resumedAt] = EpochLength

ResumedInv ==
    /\ resumedAt \in Nat
    /\ phase = "start" => resumedAt = 0
    /\ phase = "loaded" => step = resumedAt
    /\ phase \in Running => resumedAt < step
    /\ resumedAt > 0 => resumedAt \in Steps /\ data[resumedAt] \in 1..EpochLength

PpoCount ==
    loop = "ppo" =>
      /\ tracker \in Steps => tracker <= DataSteps /\ Aligned(tracker, data[tracker])
      /\ phase = "loaded" =>
           /\ step <= DataSteps /\ Aligned(step, position)
           /\ IF step = 0 THEN position = 0 ELSE data[step] \in {position, EpochLength}
      /\ phase = "fetch" =>
           /\ Aligned(step - 1, position)
           /\ step - 1 <= Read /\ (step - 1 = Read \/ AtEndOfPass)
           /\ step <= total \/ step <= DataSteps \/ AtEndOfPass
      /\ phase \in {"generate", "baseline", "update"} \cup Trained =>
           /\ epoch < TotalEpochs /\ Aligned(step, position)
           /\ step <= Read /\ (step = Read \/ AtEndOfPass)
      /\ phase = "ended" => total > DataSteps \/ AtEndOfPass
      /\ phase # "underrun"

OneStepCount ==
    loop # "ppo" =>
      /\ epoch < TotalEpochs /\ phase # "ended"
      /\ phase = "loaded" => position \in Opened
      /\ phase = "launch" => epoch = 0 /\ position \in Opened /\ step = resumedAt + 1
      /\ phase \in Running => step <= total \/ step = resumedAt + 1
      /\ phase = "await" =>
           \E p \in Opened : IF flight = NoBatch
                             THEN Read = DataSteps /\ Read = p + step - 1 - resumedAt
                             ELSE Read = p + step - resumedAt
      /\ phase = "relaunch" => step < total /\ \E p \in Opened : Read = p + step - resumedAt
      /\ phase \in {"update"} \cup Trained =>
           \E p \in Opened : IF flight = NoBatch
                             THEN Read = p + step - resumedAt /\ (step < total => Read = DataSteps)
                             ELSE Read = p + step + 1 - resumedAt
      /\ phase = "underrun" =>
           DataSteps - Yielded < total - resumedAt \/ Yielded = DataSteps

CountInv == ResumedInv /\ PpoCount /\ OneStepCount

LEMMA Quotient ==
  ASSUME NEW k \in Nat, NEW d \in 0..EpochLength - 1
  PROVE  (k * EpochLength + d) \div EpochLength = k
<1>1. \A e \in Nat \ {0} : \A n \in Nat, m \in 0..e - 1 : (n * e + m) \div e = n
  OBVIOUS
<1>. QED BY <1>1, TrainingAssumption

\* The next generation reads one batch, or all have been read.
LEMMA AdvanceReads ==
  ASSUME LoopTypes, position \in 0..EpochLength, epoch < TotalEpochs, Advance(Launched)
  PROVE  /\ Read \in Nat /\ Read' \in Nat /\ epoch' \in Nat /\ epoch' < TotalEpochs
         /\ flight' = NoBatch => Read' = Read /\ Read = DataSteps
         /\ flight' # NoBatch => Read' = Read + 1
<1>1. EpochLength \in Nat \ {0} /\ TotalEpochs \in Nat \ {0} /\ epoch \in Nat /\ position \in Nat
  BY TrainingAssumption DEF LoopTypes
<1>2. CASE position < EpochLength
  <2>1. Launched # NoBatch /\ Launched.index = position + 1
    BY <1>1, <1>2 DEF Launched, NoBatch
  <2>2. flight' # NoBatch /\ position' = position + 1 /\ epoch' = epoch
    BY <1>2, <2>1 DEF Advance
  <2>. QED BY <1>1, <2>2 DEF Read
<1>3. CASE position = EpochLength /\ epoch + 1 < TotalEpochs
  <2>1. Launched # NoBatch /\ Launched.index = 1
    BY <1>1, <1>3 DEF Launched, NoBatch
  <2>2. flight' # NoBatch /\ position' = 1 /\ epoch' = epoch + 1
    BY <1>3, <2>1 DEF Advance
  <2>. QED BY <1>1, <1>3, <2>2 DEF Read
<1>4. CASE position = EpochLength /\ ~(epoch + 1 < TotalEpochs)
  <2>1. Launched = NoBatch
    BY <1>1, <1>4 DEF Launched
  <2>2. flight' = NoBatch /\ position' = position /\ epoch' = epoch
    BY <1>4, <2>1 DEF Advance
  <2>3. TotalEpochs = epoch + 1
    BY <1>1, <1>4
  <2>4. EpochLength * (epoch + 1) = epoch * EpochLength + EpochLength
    BY <1>1
  <2>. QED BY <1>1, <1>4, <2>2, <2>3, <2>4 DEF Read, DataSteps
<1>. QED BY <1>1, <1>2, <1>3, <1>4

\* A run writes no checkpoint of the step it was resumed from.
LEMMA OpenedStays ==
  ASSUME Inv, ResumedInv, [Next]_vars, resumedAt > 0
  PROVE  data'[resumedAt] = data[resumedAt]
<1>1. CASE Save /\ SaveData(position)
  <2>1. data' = [data EXCEPT ![saving.step] = position] /\ saving.step = step /\ phase = "save"
    BY <1>1, SaveFrame DEF SaveData, Inv, SavingInv
  <2>2. resumedAt \in Steps /\ resumedAt # step
    BY <2>1 DEF ResumedInv, Running, Inv, Types, LoopTypes
  <2>. QED BY <2>1, <2>2 DEF Inv, Types, DiskTypes
<1>2. CASE Save /\ ~SaveData(position)
  BY <1>2 DEF Save, EnsureCapacity, SaveShard, Register, TruncateTracker, WriteTracker
<1>3. CASE ~Save
  BY <1>3 DEF Next, Driver, StartFromScratch, Resume, ResumeRaises, Begin, Fetch, EndOfPass, EndOfEpochs,
     Generate, Launch, Await, AwaitNone, Relaunch, Update, Validate, DecideSave, SaveStart, SaveReturns,
     NextStep, Crash, LoseMemory, vars, checkpointVars, diskVars
<1>. QED BY <1>1, <1>2, <1>3

LEMMA ResumedStep == Inv /\ DataInv /\ ResumedInv /\ [Next]_vars => ResumedInv'
<1>. SUFFICES ASSUME Inv, DataInv, ResumedInv, [Next]_vars PROVE ResumedInv'
  OBVIOUS
<1>. USE DEF ResumedInv, Running, PpoPhases, OneStepPhases
<1>s. step \in Nat
  BY DEF Inv, Types, LoopTypes
<1>k. ASSUME resumedAt' = resumedAt
      PROVE  /\ resumedAt' \in Nat
             /\ resumedAt' > 0 => resumedAt' \in Steps /\ data'[resumedAt'] \in 1..EpochLength
  BY <1>k, OpenedStays
<1>1. CASE StartFromScratch
  BY <1>1 DEF StartFromScratch
<1>2. CASE Resume
  <2>1. Latest = tracker /\ tracker \in Steps
    BY <1>2 DEF Resume, Latest
  <2>2. resumedAt' = tracker /\ step' = tracker /\ phase' = "loaded" /\ data' = data
    BY <1>2, <2>1 DEF Resume, checkpointVars
  <2>. QED BY <2>1, <2>2, StepsAreNumbers DEF DataInv
<1>3. CASE ResumeRaises \/ EndOfEpochs \/ AwaitNone
  BY <1>3, <1>k DEF ResumeRaises, EndOfEpochs, AwaitNone
<1>4. CASE Begin
  BY <1>4, <1>k, <1>s DEF Begin
<1>5. CASE Fetch \/ EndOfPass \/ Generate \/ Launch \/ Await \/ Relaunch
  <2>1. phase \in Running /\ phase' \in Running /\ UNCHANGED <<step, resumedAt>>
    BY <1>5 DEF Fetch, EndOfPass, Generate, Launch, Await, Relaunch, loopVars
  <2>. QED BY <1>k, <2>1
<1>6. CASE Update \/ Validate \/ DecideSave \/ Save \/ SaveReturns
  <2>1. phase \in Running /\ phase' \in Running /\ UNCHANGED <<step, resumedAt>>
    BY <1>6, SaveFrame DEF Update, Validate, DecideSave, SaveReturns, loopVars
  <2>. QED BY <1>k, <2>1
<1>7. CASE NextStep
  BY <1>7, <1>k, <1>s DEF NextStep
<1>8. CASE Crash
  BY <1>8 DEF Crash
<1>9. CASE UNCHANGED vars
  BY <1>9 DEF vars, loopVars, checkpointVars
<1>. QED BY <1>1, <1>2, <1>3, <1>4, <1>5, <1>6, <1>7, <1>8, <1>9 DEF Next, Driver

LEMMA SameLoop == [Next]_vars => loop' = loop /\ total' = total
BY SaveFrame DEF Next, Driver, StartFromScratch, Resume, ResumeRaises, Begin, Fetch, EndOfPass,
   EndOfEpochs, Generate, Launch, Await, AwaitNone, Relaunch, Update, Validate, DecideSave, SaveReturns,
   NextStep, Crash, vars

\* RayPPOTrainer: the position of the data loader is that of the step.
LEMMA PpoStep == Inv /\ LoaderInv /\ ResumedInv /\ PpoCount /\ [Next]_vars => PpoCount'
<1>. SUFFICES ASSUME Inv, LoaderInv, ResumedInv, PpoCount, [Next]_vars, loop = "ppo"
              PROVE  PpoCount'
  BY SameLoop DEF PpoCount
<1>. USE DEF Trained
<1>e. EpochLength \in Nat \ {0} /\ TotalEpochs \in Nat \ {0} /\ DataSteps \in Nat \ {0}
      /\ DataSteps = TotalEpochs * EpochLength
  BY TrainingAssumption DEF DataSteps
<1>t. /\ step \in Nat /\ epoch \in Nat /\ position \in 0..EpochLength /\ resumedAt \in Nat
      /\ total \in Nat \ {0}
  BY TotalIsPositive DEF Inv, Types, LoopTypes, LoaderInv, ReadInv, ResumedInv
<1>s. total' = total
  BY SameLoop
<1>r. /\ Read \in Nat
      /\ epoch < TotalEpochs => Read <= DataSteps /\ (position < EpochLength => Read < DataSteps)
      /\ epoch >= TotalEpochs => Read >= DataSteps
  <2>1. /\ epoch * EpochLength \in Nat
        /\ epoch < TotalEpochs => epoch * EpochLength + EpochLength <= TotalEpochs * EpochLength
        /\ epoch >= TotalEpochs => epoch * EpochLength >= TotalEpochs * EpochLength
    BY ONLY <1>e, <1>t
  <2>. QED BY ONLY <1>e, <1>t, <2>1 DEF Read
<1>a. resumedAt' = resumedAt /\ AtEndOfPass => AtEndOfPass'
  BY OpenedStays DEF AtEndOfPass
<1>d. ASSUME UNCHANGED <<tracker, data>>
      PROVE  tracker' \in Steps => tracker' <= DataSteps /\ Aligned(tracker, data[tracker])'
  BY <1>d DEF PpoCount, Aligned
<1>p. /\ phase = "loaded" =>
           /\ step <= DataSteps /\ Aligned(step, position)
           /\ IF step = 0 THEN position = 0 ELSE data[step] \in {position, EpochLength}
      /\ phase = "fetch" =>
           /\ Aligned(step - 1, position)
           /\ step - 1 <= Read /\ (step - 1 = Read \/ AtEndOfPass)
           /\ step <= total \/ step <= DataSteps \/ AtEndOfPass
      /\ phase \in {"generate", "baseline", "update"} \cup Trained =>
           /\ epoch < TotalEpochs /\ Aligned(step, position)
           /\ step <= Read /\ (step = Read \/ AtEndOfPass)
      /\ phase = "ended" => total > DataSteps \/ AtEndOfPass
      /\ phase # "underrun"
  BY DEF PpoCount
<1>1. CASE StartFromScratch
  <2>1. /\ phase' = "loaded" /\ step' = 0 /\ position' = 0 /\ UNCHANGED <<tracker, data>>
    BY <1>1 DEF StartFromScratch, checkpointVars
  <2>2. Aligned(step', position')
    BY <1>e, <2>1 DEF Aligned
  <2>. QED BY <1>d, <1>e, <2>1, <2>2 DEF PpoCount
<1>2. CASE Resume
  <2>1. Latest = tracker /\ tracker \in Steps
    BY <1>2 DEF Resume, Latest
  <2>2. /\ step' = tracker /\ position' \in Restored(tracker) /\ phase' = "loaded"
        /\ UNCHANGED <<tracker, data>>
    BY <1>2, <2>1 DEF Resume, checkpointVars
  <2>3. tracker <= DataSteps /\ tracker > 0 /\ tracker \in Nat
    BY <2>1, StepsAreNumbers DEF PpoCount
  <2>4. data[tracker] \in 1..EpochLength
    BY <2>1 DEF LoaderInv, DataInv
  <2>5. position' = data[tracker] \/ (position' = 0 /\ data[tracker] = EpochLength)
    BY <2>2, <2>4 DEF Restored, NoData
  <2>6. PICK k \in Nat : tracker = k * EpochLength + data[tracker]
    BY <2>1 DEF PpoCount, Aligned
  <2>7. Aligned(step', position')
    <3>1. CASE position' = data[tracker]
      BY <2>2, <2>6, <3>1 DEF Aligned
    <3>2. CASE position' = 0 /\ data[tracker] = EpochLength
      <4>1. step' = (k + 1) * EpochLength + position'
        BY <1>e, <2>2, <2>6, <3>2
      <4>. QED BY <4>1 DEF Aligned
    <3>. QED BY <2>5, <3>1, <3>2
  <2>. QED BY <1>d, <2>2, <2>3, <2>5, <2>7 DEF PpoCount
<1>3. CASE ResumeRaises
  BY <1>3, <1>d DEF ResumeRaises, checkpointVars, PpoCount
<1>4. CASE EndOfEpochs
  <2>1. /\ phase = "fetch" /\ phase' = "ended" /\ epoch >= TotalEpochs
        /\ UNCHANGED <<tracker, data, resumedAt>>
    BY <1>4 DEF EndOfEpochs, checkpointVars
  <2>2. total > DataSteps \/ AtEndOfPass
    BY <1>e, <1>p, <1>r, <1>t, <2>1
  <2>. QED BY <1>a, <1>d, <1>s, <2>1, <2>2 DEF PpoCount
<1>5. CASE Begin
  <2>1. /\ phase = "loaded" /\ phase' = "fetch" /\ epoch' = step \div EpochLength /\ step' = step + 1
        /\ UNCHANGED <<tracker, data, resumedAt, position>>
    BY <1>5 DEF Begin, checkpointVars
  <2>2. PICK k \in Nat : step = k * EpochLength + position
    BY <1>p, <2>1 DEF Aligned
  <2>3. Aligned(step' - 1, position')
    BY <1>t, <2>1, <2>2 DEF Aligned
  <2>4. CASE position = EpochLength
    <3>1. step = resumedAt /\ AtEndOfPass
      BY <1>e, <1>p, <1>t, <2>1, <2>2, <2>4 DEF ResumedInv, AtEndOfPass
    <3>2. epoch' = k + 1
      <4>1. step = (k + 1) * EpochLength + 0
        BY <1>e, <2>2, <2>4
      <4>2. ((k + 1) * EpochLength + 0) \div EpochLength = k + 1
        BY <1>e, Quotient
      <4>. QED BY <2>1, <4>1, <4>2
    <3>3. step' - 1 <= Read'
      <4>1. (k + 1) * EpochLength = k * EpochLength + EpochLength /\ k * EpochLength \in Nat
        BY <1>e
      <4>. QED BY <1>e, <1>t, <2>1, <2>2, <2>4, <3>2, <4>1 DEF Read
    <3>. QED BY <1>a, <1>d, <1>s, <2>1, <2>3, <3>1, <3>3 DEF PpoCount
  <2>5. CASE position < EpochLength
    <3>1. epoch' = k
      BY <1>t, <2>1, <2>2, <2>5, <1>e, Quotient
    <3>2. step' - 1 = Read'
      BY <1>t, <2>1, <2>2, <3>1 DEF Read
    <3>3. step' <= DataSteps \/ AtEndOfPass
      <4>1. CASE step < DataSteps
        BY <1>e, <1>t, <2>1, <4>1
      <4>2. CASE step = DataSteps
        <5>1. k * EpochLength + position = TotalEpochs * EpochLength + 0
          BY <1>e, <2>2, <4>2
        <5>2. k = TotalEpochs
          <6>1. (TotalEpochs * EpochLength + 0) \div EpochLength = TotalEpochs
            BY <1>e, Quotient
          <6>2. (k * EpochLength + position) \div EpochLength = k
            BY <1>e, <1>t, <2>5, Quotient
          <6>. QED BY <5>1, <6>1, <6>2
        <5>3. position = 0
          BY <1>e, <1>t, <5>1, <5>2
        <5>4. resumedAt = step /\ data[resumedAt] \in {0, EpochLength} /\ resumedAt > 0
          BY <1>e, <1>p, <1>t, <2>1, <4>2, <5>3 DEF ResumedInv
        <5>5. data[resumedAt] \in 1..EpochLength
          BY <5>4 DEF ResumedInv
        <5>. QED BY <5>4, <5>5 DEF AtEndOfPass
      <4>. QED BY <1>e, <1>p, <1>t, <2>1, <4>1, <4>2
    <3>4. step' - 1 \in Int
      BY <1>t, <2>1
    <3>. QED BY <1>a, <1>d, <1>s, <2>1, <2>3, <3>2, <3>3, <3>4 DEF PpoCount
  <2>. QED BY <1>e, <1>t, <2>4, <2>5
<1>6. CASE Fetch
  <2>1. /\ phase = "fetch" /\ phase' = "generate" /\ position' = position + 1 /\ epoch < TotalEpochs
        /\ UNCHANGED <<tracker, data, resumedAt, step, epoch>>
    BY <1>6 DEF Fetch, checkpointVars
  <2>2. PICK k \in Nat : step - 1 = k * EpochLength + position
    BY <1>p, <2>1 DEF Aligned
  <2>3. Aligned(step', position')
    <3>1. step' = k * EpochLength + position'
      BY <1>e, <1>t, <2>1, <2>2
    <3>. QED BY <3>1 DEF Aligned
  <2>4. /\ step' <= Read' /\ (step - 1 = Read => step' = Read')
    <3>1. Read' = Read + 1
      BY <1>e, <1>t, <2>1 DEF Read
    <3>. QED BY <1>p, <1>r, <1>t, <2>1, <3>1
  <2>. QED BY <1>a, <1>d, <1>p, <1>s, <2>1, <2>3, <2>4 DEF PpoCount
<1>7. CASE EndOfPass
  <2>1. /\ phase = "fetch" /\ phase' = "fetch" /\ position = EpochLength /\ position' = 0
        /\ epoch' = epoch + 1 /\ UNCHANGED <<tracker, data, resumedAt, step>>
    BY <1>7 DEF EndOfPass, checkpointVars
  <2>2. PICK k \in Nat : step - 1 = k * EpochLength + position
    BY <1>p, <2>1 DEF Aligned
  <2>3. Aligned(step' - 1, position')
    <3>1. step' - 1 = (k + 1) * EpochLength + position'
      BY <1>e, <1>t, <2>1, <2>2
    <3>. QED BY <3>1 DEF Aligned
  <2>4. Read' = Read
    BY <1>e, <1>t, <2>1 DEF Read
  <2>. QED BY <1>a, <1>d, <1>p, <1>s, <2>1, <2>3, <2>4 DEF PpoCount
<1>8. CASE Launch \/ Await \/ AwaitNone \/ Relaunch
  BY <1>8 DEF Launch, Await, AwaitNone, Relaunch, Inv, LoopInv, OneStepPhases
<1>9. CASE Generate \/ Update \/ Validate \/ DecideSave \/ Save \/ SaveReturns
  <2>1. /\ phase \in {"generate", "baseline", "update"} \cup Trained
        /\ phase' \in {"generate", "baseline", "update"} \cup Trained
        /\ UNCHANGED <<loop, step, epoch, position, resumedAt>>
    BY <1>9, SaveFrame DEF Generate, Update, Validate, DecideSave, SaveReturns, loopVars
  <2>2. Aligned(step, position)' /\ Read' = Read
    BY <1>p, <2>1 DEF Aligned, Read
  <2>3. tracker' \in Steps => tracker' <= DataSteps /\ Aligned(tracker, data[tracker])'
    <3>1. CASE ~Save
      BY <1>9, <1>d, <3>1 DEF Generate, Update, Validate, DecideSave, SaveStart, SaveReturns,
         checkpointVars, diskVars
    <3>2. CASE Save /\ SaveData(position)
      <4>1. /\ tracker' = tracker /\ data' = [data EXCEPT ![saving.step] = position]
            /\ saving.step = step /\ phase = "save"
        BY <3>2, SaveFrame DEF SaveData, Inv, SavingInv
      <4>2. CASE tracker # step
        <5>1. tracker \in Steps => data'[tracker] = data[tracker]
          BY <4>1, <4>2 DEF Inv, Types, DiskTypes
        <5>. QED BY <4>1, <5>1 DEF PpoCount, Aligned
      <4>3. CASE tracker = step
        <5>1. tracker \in Steps => data'[tracker] = position
          BY <4>1, <4>3 DEF Inv, Types, DiskTypes
        <5>2. step <= DataSteps
          BY <1>e, <1>p, <1>r, <1>t, <2>1
        <5>. QED BY <1>p, <2>1, <4>1, <4>3, <5>1, <5>2 DEF Aligned
      <4>. QED BY <4>2, <4>3
    <3>3. CASE Save /\ TruncateTracker
      BY <3>3, StepsAreNumbers DEF TruncateTracker, Torn
    <3>4. CASE Save /\ WriteTracker
      <4>1. tracker' = step /\ data'[step] = position
        BY <3>4, SaveFrame DEF WriteTracker, Inv, SavingInv, LoaderInv, WroteInv
      <4>2. step <= DataSteps
        BY <1>e, <1>p, <1>r, <1>t, <2>1
      <4>. QED BY <1>p, <2>1, <4>1, <4>2 DEF Aligned
    <3>5. CASE Save /\ ~SaveData(position) /\ ~TruncateTracker /\ ~WriteTracker
      BY <1>d, <3>5 DEF Save, EnsureCapacity, SaveShard, Register
    <3>. QED BY <3>1, <3>2, <3>3, <3>4, <3>5
  <2>. QED BY <1>a, <1>p, <1>s, <2>1, <2>2, <2>3 DEF PpoCount
<1>10. CASE NextStep
  <2>1. /\ phase = "advance" /\ step' = step + 1 /\ phase' = IF step >= total THEN "done" ELSE "fetch"
        /\ UNCHANGED <<tracker, data, resumedAt, epoch, position>>
    BY <1>10 DEF NextStep, IsLastStep, checkpointVars
  <2>2. Aligned(step' - 1, position')
    BY <1>p, <1>t, <2>1 DEF Aligned
  <2>3. Read' = Read /\ step' - 1 = step
    BY <1>t, <2>1 DEF Read
  <2>4. phase' = "fetch" => step' <= total
    BY <1>t, <2>1
  <2>. QED BY <1>a, <1>d, <1>p, <1>s, <2>1, <2>2, <2>3, <2>4 DEF PpoCount
<1>11. CASE Crash
  <2>1. phase' = "start" /\ UNCHANGED <<tracker, data>>
    BY <1>11 DEF Crash, LoseMemory, diskVars
  <2>. QED BY <1>d, <2>1 DEF PpoCount
<1>12. CASE UNCHANGED vars
  <2>1. UNCHANGED <<tracker, data, phase, step, epoch, position, resumedAt>>
    BY <1>12 DEF vars, checkpointVars, loopVars
  <2>. QED BY <1>d, <1>p, <1>s, <2>1 DEF PpoCount, Aligned, Read, AtEndOfPass
<1>. QED BY <1>1, <1>2, <1>3, <1>4, <1>5, <1>6, <1>7, <1>8, <1>9, <1>10, <1>11, <1>12 DEF Next, Driver

\* OneStepOffRayTrainer: what has been read is what the run began with and one batch for
\* each step, and for the generation in flight.
LEMMA OneStepStep == Inv /\ LoaderInv /\ ResumedInv /\ OneStepCount /\ [Next]_vars => OneStepCount'
<1>. SUFFICES ASSUME Inv, LoaderInv, ResumedInv, OneStepCount, [Next]_vars, loop # "ppo"
              PROVE  OneStepCount'
  BY SameLoop DEF OneStepCount
<1>. USE DEF Trained, Running, PpoPhases, OneStepPhases
<1>e. EpochLength \in Nat \ {0} /\ TotalEpochs \in Nat \ {0} /\ DataSteps \in Nat \ {0}
  BY TrainingAssumption DEF DataSteps
<1>s. total' = total
  BY SameLoop
<1>t. /\ step \in Nat /\ epoch \in Nat /\ position \in 0..EpochLength /\ resumedAt \in Nat
      /\ Opened \subseteq Nat /\ Read \in Nat /\ total \in Nat \ {0}
  <2>1. /\ step \in Nat /\ epoch \in Nat /\ position \in 0..EpochLength /\ resumedAt \in Nat
        /\ position \in Nat
    BY DEF Inv, Types, LoopTypes, LoaderInv, ReadInv, ResumedInv
  <2>2. total \in Nat \ {0}
    BY TotalIsPositive DEF Inv, Types, LoopTypes
  <2>. QED BY <1>e, <2>1, <2>2 DEF Opened, Read, ResumedInv
<1>o. resumedAt' = resumedAt => Opened' = Opened
  BY OpenedStays, <1>t DEF Opened
<1>p. /\ epoch < TotalEpochs /\ phase # "ended"
      /\ phase = "loaded" => position \in Opened
      /\ phase = "launch" => epoch = 0 /\ position \in Opened /\ step = resumedAt + 1
      /\ phase \in Running => step <= total \/ step = resumedAt + 1
      /\ phase = "await" =>
           \E p \in Opened : IF flight = NoBatch
                             THEN Read = DataSteps /\ Read = p + step - 1 - resumedAt
                             ELSE Read = p + step - resumedAt
      /\ phase = "relaunch" => step < total /\ \E p \in Opened : Read = p + step - resumedAt
      /\ phase \in {"update"} \cup Trained =>
           \E p \in Opened : IF flight = NoBatch
                             THEN Read = p + step - resumedAt /\ (step < total => Read = DataSteps)
                             ELSE Read = p + step + 1 - resumedAt
      /\ phase = "underrun" =>
           DataSteps - Yielded < total - resumedAt \/ Yielded = DataSteps
  BY DEF OneStepCount
<1>1. CASE StartFromScratch
  BY <1>1, <1>p DEF StartFromScratch, OneStepCount, Opened
<1>2. CASE Resume
  <2>1. Latest = tracker /\ tracker \in Steps /\ tracker > 0
    BY <1>2, StepsAreNumbers DEF Resume, Latest
  <2>2. /\ resumedAt' = tracker /\ position' \in Restored(tracker) /\ phase' = "loaded"
        /\ data' = data /\ epoch' = epoch
    BY <1>2, <2>1 DEF Resume, checkpointVars
  <2>3. data[tracker] \in 1..EpochLength
    BY <2>1 DEF LoaderInv, DataInv
  <2>4. position' \in {0, data[tracker]}
    BY <2>2, <2>3 DEF Restored, NoData
  <2>5. position' \in Opened'
    BY <2>1, <2>2, <2>4 DEF Opened
  <2>. QED BY <1>s, <1>p, <2>2, <2>5 DEF OneStepCount
<1>3. CASE ResumeRaises
  BY <1>s, <1>3, <1>p DEF ResumeRaises, loopVars, OneStepCount
<1>4. CASE AwaitNone
  <2>1. phase = "await" /\ flight = NoBatch /\ phase' = "underrun" /\ UNCHANGED <<epoch, resumedAt, data>>
    BY <1>4 DEF AwaitNone, checkpointVars, loopVars
  <2>2. PICK p \in Opened : Read = DataSteps /\ Read = p + step - 1 - resumedAt
    BY <1>p, <2>1
  <2>3. step <= total \/ step = resumedAt + 1
    BY <1>p, <2>1
  <2>4. p \in Nat /\ (DataSteps - p < total - resumedAt \/ p = DataSteps)
    BY <1>e, <1>t, <2>2, <2>3
  <2>5. Yielded \in Nat /\ Yielded >= p /\ (p > 0 => Yielded = p)
    BY <1>t, <2>2 DEF Opened, Yielded, ResumedInv
  <2>6. Yielded' = Yielded
    BY <2>1 DEF Yielded
  <2>7. DataSteps - Yielded < total - resumedAt \/ Yielded = DataSteps
    BY ONLY <1>e, <1>t, <2>4, <2>5
  <2>. QED BY <1>p, <1>s, <2>1, <2>6, <2>7 DEF OneStepCount
<1>5. CASE Begin
  <2>1. /\ phase = "loaded" /\ phase' = "launch" /\ epoch' = 0 /\ step' = step + 1
        /\ UNCHANGED <<position, resumedAt>> /\ step = resumedAt
    BY <1>5 DEF Begin, ResumedInv
  <2>. QED BY <1>s, <1>e, <1>o, <1>p, <1>t, <2>1 DEF OneStepCount
<1>6. CASE Fetch \/ EndOfPass \/ EndOfEpochs \/ Generate
  BY <1>6 DEF Fetch, EndOfPass, EndOfEpochs, Generate, Inv, LoopInv
<1>7. CASE Launch
  <2>1. /\ phase = "launch" /\ phase' = "await" /\ UNCHANGED <<step, resumedAt>> /\ Advance(Launched)
    BY <1>7 DEF Launch
  <2>2. /\ epoch' < TotalEpochs
        /\ flight' = NoBatch => Read' = Read /\ Read = DataSteps
        /\ flight' # NoBatch => Read' = Read + 1
    BY <1>p, <1>t, <2>1, AdvanceReads DEF Inv, Types
  <2>3. Read = position /\ position \in Opened /\ step = resumedAt + 1
    BY <1>e, <1>p, <1>t, <2>1 DEF Read
  <2>4. IF flight' = NoBatch THEN Read' = DataSteps /\ Read' = position + step' - 1 - resumedAt'
                             ELSE Read' = position + step' - resumedAt'
    BY <1>t, <2>1, <2>2, <2>3
  <2>5. \E p \in Opened' : IF flight' = NoBatch THEN Read' = DataSteps /\ Read' = p + step' - 1 - resumedAt'
                                                ELSE Read' = p + step' - resumedAt'
    BY <1>o, <2>1, <2>3, <2>4
  <2>. QED BY <1>s, <2>1, <2>2, <2>3, <2>5 DEF OneStepCount
<1>8. CASE Await
  <2>1. /\ phase = "await" /\ phase' = IF step >= total THEN "update" ELSE "relaunch"
        /\ flight # NoBatch /\ flight' = NoBatch /\ UNCHANGED <<step, resumedAt, epoch, position>>
    BY <1>8 DEF Await, IsLastStep
  <2>2. PICK p \in Opened : Read = p + step - resumedAt
    BY <1>p, <2>1
  <2>3. Read' = p + step' - resumedAt' /\ p \in Opened'
    BY <1>o, <2>1, <2>2 DEF Read
  <2>4. step' <= total \/ step' = resumedAt' + 1
    BY <1>p, <2>1
  <2>5. CASE step >= total
    BY <1>s, <1>e, <1>p, <1>t, <2>1, <2>3, <2>4, <2>5 DEF OneStepCount
  <2>6. CASE step < total
    BY <1>s, <1>e, <1>p, <1>t, <2>1, <2>3, <2>4, <2>6 DEF OneStepCount
  <2>. QED BY <1>e, <1>t, <2>5, <2>6
<1>9. CASE Relaunch
  <2>1. /\ phase = "relaunch" /\ phase' = "update" /\ UNCHANGED <<step, resumedAt>> /\ Advance(Launched)
    BY <1>9 DEF Relaunch
  <2>2. /\ epoch' < TotalEpochs
        /\ flight' = NoBatch => Read' = Read /\ Read = DataSteps
        /\ flight' # NoBatch => Read' = Read + 1
    BY <1>p, <1>t, <2>1, AdvanceReads DEF Inv, Types
  <2>3. PICK p \in Opened : Read = p + step - resumedAt
    BY <1>p, <2>1
  <2>4. IF flight' = NoBatch THEN Read' = p + step' - resumedAt' /\ (step' < total => Read' = DataSteps)
                             ELSE Read' = p + step' + 1 - resumedAt'
    BY <1>t, <2>1, <2>2, <2>3
  <2>5. \E q \in Opened' : IF flight' = NoBatch
                           THEN Read' = q + step' - resumedAt' /\ (step' < total => Read' = DataSteps)
                           ELSE Read' = q + step' + 1 - resumedAt'
    BY <1>o, <2>1, <2>4
  <2>6. step' <= total
    BY <1>e, <1>p, <1>t, <2>1
  <2>. QED BY <1>s, <2>1, <2>2, <2>5, <2>6 DEF OneStepCount
<1>10. CASE Update \/ Validate \/ DecideSave \/ Save \/ SaveReturns
  <2>1. /\ phase \in {"update"} \cup Trained /\ phase' \in Trained
        /\ UNCHANGED <<step, resumedAt, epoch, position, flight>>
    BY <1>10, SaveFrame DEF Update, Validate, DecideSave, SaveReturns, loopVars
  <2>2. Read' = Read /\ Opened' = Opened
    BY <1>o, <2>1 DEF Read
  <2>3. \E p \in Opened' : IF flight' = NoBatch
                           THEN Read' = p + step' - resumedAt' /\ (step' < total => Read' = DataSteps)
                           ELSE Read' = p + step' + 1 - resumedAt'
    BY <1>p, <2>1, <2>2
  <2>4. epoch' < TotalEpochs /\ (step' <= total \/ step' = resumedAt' + 1)
    BY <1>p, <2>1
  <2>. QED BY <1>s, <2>1, <2>3, <2>4 DEF OneStepCount
<1>11. CASE NextStep
  <2>1. /\ phase = "advance" /\ step' = step + 1 /\ phase' = IF step >= total THEN "done" ELSE "await"
        /\ UNCHANGED <<resumedAt, epoch, position, flight>>
    BY <1>11 DEF NextStep, IsLastStep
  <2>2. Read' = Read /\ Opened' = Opened
    BY <1>o, <2>1 DEF Read
  <2>3. CASE step >= total
    BY <1>s, <1>p, <2>1, <2>3 DEF OneStepCount
  <2>4. CASE step < total
    <3>1. PICK p \in Opened : IF flight = NoBatch
                              THEN Read = p + step - resumedAt /\ (step < total => Read = DataSteps)
                              ELSE Read = p + step + 1 - resumedAt
      BY <1>p, <2>1
    <3>2. p \in Nat /\ Read' \in Nat
      BY <1>t, <2>2, <3>1
    <3>3. IF flight' = NoBatch THEN Read' = DataSteps /\ Read' = p + step' - 1 - resumedAt'
                               ELSE Read' = p + step' - resumedAt'
      BY <1>e, <1>t, <2>1, <2>2, <2>4, <3>1, <3>2
    <3>4. \E q \in Opened' : IF flight' = NoBatch THEN Read' = DataSteps /\ Read' = q + step' - 1 - resumedAt'
                                                  ELSE Read' = q + step' - resumedAt'
      BY <2>2, <3>1, <3>3
    <3>5. phase' = "await" /\ epoch' < TotalEpochs /\ step' <= total
      BY <1>e, <1>p, <1>t, <2>1, <2>4
    <3>. QED BY <1>s, <3>4, <3>5 DEF OneStepCount
  <2>. QED BY <1>e, <1>t, <2>3, <2>4
<1>12. CASE Crash
  BY <1>s, <1>12, <1>e DEF Crash, OneStepCount
<1>13. CASE UNCHANGED vars
  <2>1. UNCHANGED <<data, phase, step, epoch, position, resumedAt, flight>>
    BY <1>13 DEF vars, checkpointVars, loopVars
  <2>2. Read' = Read /\ Opened' = Opened /\ Yielded' = Yielded
    BY <1>o, <2>1 DEF Read, Yielded
  <2>. QED BY <1>s, <1>p, <2>1, <2>2 DEF OneStepCount
<1>. QED BY <1>1, <1>2, <1>3, <1>4, <1>5, <1>6, <1>7, <1>8, <1>9, <1>10, <1>11, <1>12, <1>13
         DEF Next, Driver

LEMMA CountInit == Init => CountInv
<1>. SUFFICES ASSUME Init PROVE CountInv
  OBVIOUS
<1>1. ResumedInv
  BY DEF Init, ResumedInv, Running, PpoPhases, OneStepPhases
<1>2. PpoCount
  BY StepsAreNumbers DEF Init, CheckpointInit, PpoCount, Trained
<1>3. OneStepCount
  BY TrainingAssumption DEF Init, OneStepCount, Trained, Running, PpoPhases, OneStepPhases
<1>. QED BY <1>1, <1>2, <1>3 DEF CountInv

\* Whatever trainer.total_training_steps is, a run stops before its last step only
\* where the batches do not suffice: RayPPOTrainer only when it asks for more steps than
\* there are batches or was resumed at the end of a pass, the one-step-off trainer only
\* when it began with fewer batches left than steps, or with none.
THEOREM ShortOfBatches == Spec => []StopsShort
<1>1. Inv /\ LoaderInv /\ CountInv /\ [Next]_vars => CountInv'
  BY ResumedStep, PpoStep, OneStepStep DEF CountInv, LoaderInv
<1>2. Spec => []CountInv
  BY Invariance, LoaderInvariance, CountInit, <1>1, PTL DEF Spec
<1>3. Inv /\ CountInv => StopsShort
  BY DEF CountInv, PpoCount, OneStepCount, AtEndOfPass, Yielded, StopsShort
<1>. QED BY Invariance, <1>2, <1>3, PTL
=============================================================================
