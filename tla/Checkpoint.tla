----------------------------- MODULE Checkpoint -----------------------------
(***************************************************************************)
(* Checkpoints of the trainers: the ranks of each role save their shards   *)
(* together (FSDPCheckpointManager), old checkpoints are rotated away, then*)
(* the position of the data loader and the tracker file are written        *)
(* (RayPPOTrainer._save_checkpoint).  The disk survives a crash; the list  *)
(* of saved paths, which rank 0 of each role keeps, does not.              *)
(*                                                                         *)
(* A model is its history: the sequence of the batches it was trained on.  *)
(* Model, optimizer and extra state of a rank are one shard.               *)
(***************************************************************************)
EXTENDS Integers, Sequences, FiniteSets, SequencesExt

CONSTANTS Roles,     \* a sequence: the roles in the order they are saved
          Ranks,     \* ranks of every role
          Keep,      \* max_ckpt_to_keep; 0 stands for None
          Steps      \* steps that may be saved

ASSUME CheckpointAssumption ==
    /\ Len(Roles) > 0 /\ Ranks # {} /\ Keep \in Nat /\ Steps \subseteq Nat \ {0}

VARIABLES
    shard,     \* shard[r][s][k]: what rank k of role r wrote in global_step_s
    data,      \* data[s]: data.pt of global_step_s
    tracker,   \* the tracker file: 0 missing, Torn truncated, else a step
    saved,     \* saved[r]: previous_saved_paths of role r
    saving     \* the save in progress

diskVars == <<shard, data, tracker>>
checkpointVars == <<shard, data, tracker, saved, saving>>

NoShard == <<0>>
NoData == -1
Torn == -1
NotSaving == [stage |-> "none", role |-> 0, step |-> 0]

RoleSet == {Roles[i] : i \in 1..Len(Roles)}
Role == Roles[saving.role]

CheckpointInit ==
    /\ shard = [r \in RoleSet |-> [s \in Steps |-> [k \in Ranks |-> NoShard]]]
    /\ data = [s \in Steps |-> NoData]
    /\ tracker = 0
    /\ saved = [r \in RoleSet |-> <<>>]
    /\ saving = NotSaving

----------------------------------------------------------------------------
\* remove_previous_save_local_path
Removed(r, paths) ==
    [shard EXCEPT ![r] = [s \in Steps |-> IF \E i \in 1..Len(paths) : paths[i] = s
                                          THEN [k \in Ranks |-> NoShard] ELSE @[s]]]

\* The paths beyond the newest n, and the newest n
Beyond(paths, n) == SubSeq(paths, 1, Len(paths) - n)
Newest(paths, n) == SubSeq(paths, Len(paths) - n + 1, Len(paths))

SaveStart(step) ==
    /\ saving.stage = "none"
    /\ saving' = [stage |-> "capacity", role |-> 1, step |-> step]
    /\ UNCHANGED <<diskVars, saved>>

\* ensure_checkpoint_capacity by rank 0, before the first barrier
EnsureCapacity ==
    /\ saving.stage = "capacity"
    /\ IF Keep > 1 /\ Len(saved[Role]) >= Keep
       THEN /\ shard' = Removed(Role, Beyond(saved[Role], Keep - 1))
            /\ saved' = [saved EXCEPT ![Role] = Newest(@, Keep - 1)]
       ELSE UNCHANGED <<shard, saved>>
    /\ saving' = [saving EXCEPT !.stage = "shards"]
    /\ UNCHANGED <<data, tracker>>

\* A rank writes its shard; "model" is what it holds in memory.
SaveShard(k, model) ==
    /\ saving.stage = "shards"
    /\ shard[Role][saving.step][k] # model
    /\ shard' = [shard EXCEPT ![Role][saving.step][k] = model]
    /\ UNCHANGED <<data, tracker, saved, saving>>

\* Mutant of AllSaved: rank 0 does not wait for the other ranks.
AllSavedAny(model) == \E k \in Ranks : shard[Role][saving.step][k] = model

\* The second barrier
AllSaved(model) == \A k \in Ranks : shard[Role][saving.step][k] = model

\* register_checkpoint by rank 0, after the second barrier; then the next role.
Register(model) ==
    /\ saving.stage = "shards" /\ AllSaved(model)
    /\ LET paths == Append(saved[Role], saving.step)
           over == Keep > 0 /\ Len(paths) > Keep
       IN  /\ shard' = IF over THEN Removed(Role, Beyond(paths, Keep)) ELSE shard
           /\ saved' = [saved EXCEPT ![Role] = IF over THEN Newest(paths, Keep) ELSE paths]
    /\ saving' = IF saving.role < Len(Roles)
                 THEN [stage |-> "capacity", role |-> saving.role + 1, step |-> saving.step]
                 ELSE [saving EXCEPT !.stage = "data"]
    /\ UNCHANGED <<data, tracker>>

SaveData(position) ==
    /\ saving.stage = "data"
    /\ data' = [data EXCEPT ![saving.step] = position]
    /\ saving' = [saving EXCEPT !.stage = "truncate"]
    /\ UNCHANGED <<shard, tracker, saved>>

\* open(tracker, "w") truncates the file before the step is written.
TruncateTracker ==
    /\ saving.stage = "truncate"
    /\ tracker' = Torn
    /\ saving' = [saving EXCEPT !.stage = "write"]
    /\ UNCHANGED <<shard, data, saved>>

WriteTracker ==
    /\ saving.stage = "write"
    /\ tracker' = saving.step
    /\ saving' = NotSaving
    /\ UNCHANGED <<shard, data, saved>>

\* A crash of the job: memory is lost, the disk stays.
LoseMemory ==
    /\ saved' = [r \in RoleSet |-> <<>>]
    /\ saving' = NotSaving
    /\ UNCHANGED diskVars

----------------------------------------------------------------------------
\* find_latest_ckpt_path: the step the tracker names, if its folder exists.
FolderExists(s) == data[s] # NoData \/ \E r \in RoleSet, k \in Ranks : shard[r][s][k] # NoShard

\* Mutant of Latest: the newest folder, whatever the tracker says.
LatestFolder ==
    IF \E s \in Steps : FolderExists(s) THEN Max({s \in Steps : FolderExists(s)}) ELSE 0

Latest == IF tracker \in Steps /\ FolderExists(tracker) THEN tracker ELSE 0

\* Every rank finds its own shard.
Loadable(r, s) == \A k \in Ranks : shard[r][s][k] # NoShard

\* What role r is after a load, if its shards fit together
Loaded(r, s) == shard[r][s][CHOOSE k \in Ranks : TRUE]
Uniform(r, s) == \A j, k \in Ranks : shard[r][s][j] = shard[r][s][k]

=============================================================================
