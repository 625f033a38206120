----------------------------- MODULE TrainingMC -----------------------------
\* Instances of Training for TLC.
EXTENDS Training

ActorCritic == <<"actor", "critic">>
ActorOnly == <<"actor">>
AllSteps == UNION {1..(n + MaxCrashes) : n \in Totals}
=============================================================================
