SPECIFICATION Spec
CONSTANTS
    Roles <- ActorOnly
    Ranks = {1}
    Keep = 2
    Steps <- AllSteps
    Loops = {"one_step_off"}
    EpochLength = 3
    TotalEpochs = 1
    TotalTrainingSteps = {0}
    CriticWarmup = 0
    SaveFreq = 1
    TestFreq = 2
    Remax = FALSE
    MaxCrashes = 1
INVARIANT NextBatchFound
CHECK_DEADLOCK FALSE
