SPECIFICATION Spec
CONSTANTS
    Total = 4
    Required = 1
    Trigger = 1
    ThetaNum = 1
    ThetaDen = 1
    Slots = 2
    MaxPending = 2
    Partial = TRUE
    ParallelValidate = TRUE
    TestFreq = 1
    MaxFailures = 0
INVARIANTS
    NoDuplicates
    PauseQuiesces
PROPERTIES
    RefinesPipeline
