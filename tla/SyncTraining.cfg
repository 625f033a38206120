SPECIFICATION FairSpec
CONSTANTS
    Total = 5
    Required = 1
    Trigger = 2
    ThetaNum = 0
    ThetaDen = 1
    Slots = 2
    MaxPending = 2
    Partial = TRUE
    ParallelValidate = FALSE
    TestFreq = 1
    MaxFailures = 1
INVARIANTS
    TypeOK
    OnPolicy
    NothingLost
PROPERTIES
    Termination
