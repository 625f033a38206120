SPECIFICATION Spec
CONSTANTS
    Roles <- ActorCritic
    Ranks = {1, 2}
    Keep = 2
    Steps <- AllSteps
    Loops = {"ppo", "one_step_off"}
    EpochLength = 3
    TotalEpochs = 2
    TotalTrainingSteps = {0, 4, 7}
    CriticWarmup = 1
    SaveFreq = 2
    TestFreq = 2
    Remax = FALSE
    MaxCrashes = 2
INVARIANTS
    NamedCheckpointLoads
    LagBound
    BatchesInTurn
    GeneratesAwake
    StopsShort
PROPERTIES
    RefinesDurable
    TrainingEnds
\* A run that has ended stays so.
CHECK_DEADLOCK FALSE
