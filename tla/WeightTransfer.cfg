SPECIFICATION FairSpec
CONSTANTS
    Engines = {"nccl", "nixl"}
    Rollouts = 3
    BucketSize = 2
    Models <- SomeModels
INVARIANTS
    LoadsInOrder
    UpdateIsComplete
PROPERTIES
    ReadsAreStable
    UpdateReturnsInTheEnd
\* The update is over.
CHECK_DEADLOCK FALSE
