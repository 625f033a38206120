--------------------------- MODULE SamplePipeline ---------------------------
(***************************************************************************)
(* What the fully asynchronous trainer promises of every sample, whatever  *)
(* its coroutines, locks and queues do: it is rolled out once, becomes     *)
(* ready once and is trained on at most once; a training step takes        *)
(* exactly BatchSize ready samples; a new version of the parameters comes  *)
(* after StepsPerVersion training steps, or once at the end; and never     *)
(* more than Capacity samples are in flight.                               *)
(***************************************************************************)
EXTENDS Naturals, FiniteSets

CONSTANTS Samples, BatchSize, StepsPerVersion, Capacity

VARIABLES
    stage,        \* how far each sample has come
    current,      \* the version of the parameters being trained
    steps,        \* training steps since that version
    closing       \* no further training step will be taken

pipeline == <<stage, current, steps, closing>>

At(st) == {s \in Samples : stage[s] = st}

Init ==
    /\ stage = [s \in Samples |-> "waiting"]
    /\ current = 0 /\ steps = 0 /\ closing = FALSE

Move(S, st) == stage' = [s \in Samples |-> IF s \in S THEN st ELSE stage[s]]

\* A sample is taken up for generation.
StartRollout ==
    /\ Cardinality(At("rolling") \cup At("ready")) < Capacity
    /\ \E s \in At("waiting") : Move({s}, "rolling")
    /\ UNCHANGED <<current, steps, closing>>

\* Its generation is complete; an older sample may have to give way.
Deliver ==
    \E s \in At("rolling"), lost \in {{}} \cup {{r} : r \in At("ready")} :
        /\ stage' = [x \in Samples |-> IF x = s THEN "ready"
                                       ELSE IF x \in lost THEN "lost" ELSE stage[x]]
        /\ UNCHANGED <<current, steps, closing>>

\* A generation fails, or a full queue or the end of training discards samples.
Lose ==
    \E S \in SUBSET (At("rolling") \cup At("ready")) :
        /\ S # {}
        /\ Move(S, "lost")
        /\ UNCHANGED <<current, steps, closing>>

TrainStep ==
    /\ ~closing
    /\ \E B \in SUBSET At("ready") :
          Cardinality(B) = BatchSize /\ Move(B, "trained")
    /\ IF steps + 1 < StepsPerVersion
         THEN steps' = steps + 1 /\ UNCHANGED current
         ELSE steps' = 0 /\ current' = current + 1
    /\ UNCHANGED closing

\* The extra version after the last training step.
Close ==
    /\ ~closing
    /\ closing' = TRUE
    /\ current' = current + 1
    /\ steps' = 0
    /\ UNCHANGED stage

Next == StartRollout \/ Deliver \/ Lose \/ TrainStep \/ Close

Spec == Init /\ [][Next]_pipeline
=============================================================================
