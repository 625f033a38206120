--------------------------- MODULE DurableTraining ---------------------------
(***************************************************************************)
(* What checkpoints promise: training extends "working"; a commit makes it *)
(* durable; after a crash training continues from what is durable.  While  *)
(* a commit is under way nothing is durable (the tracker is truncated).    *)
(***************************************************************************)
EXTENDS Sequences

CONSTANT Batches

VARIABLES working, durable, committing

vars == <<working, durable, committing>>

Init == working = <<>> /\ durable = <<>> /\ committing = FALSE

Train ==
    /\ \E batch \in Batches : working' = Append(working, batch)
    /\ UNCHANGED <<durable, committing>>

Begin ==
    /\ ~committing /\ committing' = TRUE
    /\ durable' = <<>> /\ UNCHANGED working

Commit ==
    /\ committing /\ committing' = FALSE
    /\ durable' = working /\ UNCHANGED working

Crash ==
    /\ working' = durable
    /\ UNCHANGED <<durable, committing>>

Next == Train \/ Begin \/ Commit \/ Crash

Spec == Init /\ [][Next]_vars
=============================================================================
