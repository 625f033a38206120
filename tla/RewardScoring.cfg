SPECIFICATION LimiterFairSpec
CONSTANTS
    Samples = {"s1", "s2", "s3"}
    WorkerOf <- OneWorker
    Limits = {"rpm", "tpm"}
    Buckets <- WorkerBuckets
    Requests <- SampleRequests
    BucketOf <- SampleBucket
    MaxTokens <- BucketSizes
    Cost <- SampleCost
    MaxConcurrent = 1
    Timeout = 5
    Threads = 1
    LastArrival = 1
    MaxTime = 22
    Lateness = 0
INVARIANTS
    AsyncConcurrencyLimit
    BurstBound
    AverageRate
PROPERTIES
    Answered
CHECK_DEADLOCK FALSE
