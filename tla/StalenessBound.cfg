SPECIFICATION Spec
CONSTANTS
    Total = 5
    Required = 1
    Trigger = 1
    ThetaNum = 1
    ThetaDen = 1
    Slots = 2
    MaxPending = 2
    Partial = FALSE
    ParallelValidate = FALSE
    TestFreq = 1
    MaxFailures = 0
INVARIANTS
    VersionLagBound
    StalenessCovers
