--------------------------- MODULE RewardLimiterMC ---------------------------
(* The reward limiter for TLC: the workers, their buckets and the costs. *)
EXTENDS RewardLimiter

OneWorker == [s \in Samples |-> "w1"]

WorkerBuckets == Workers \X Limits
SampleRequests == Samples \X Limits
SampleBucket == [r \in Requests |-> <<WorkerOf[r[1]], r[2]>>]

\* One request and two tokens a tick at the most; a sample is estimated at fewer
\* tokens than the bucket holds, at as many, or at more.
BucketSizes == [b \in Buckets |-> IF b[2] = "rpm" THEN 1 ELSE 2]
SampleCost ==
    [r \in Requests |-> CASE r[2] = "rpm" -> 1
                          [] r[2] = "tpm" -> CASE r[1] = "s1" -> 4 [] r[1] = "s2" -> 3 [] r[1] = "s3" -> 2]
=============================================================================
