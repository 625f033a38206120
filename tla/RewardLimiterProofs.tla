------------------------- MODULE RewardLimiterProofs -------------------------
(***************************************************************************)
(* Proofs about the rate-limited reward manager, for any number of         *)
(* buckets, calls, samples, workers and threads, any size and any cost.    *)
(*                                                                         *)
(* TokenBucket: what a bucket has been charged, what it holds and what has *)
(* flowed in balance, a debt is always covered by a sleeping call, and so  *)
(* the average rate holds.  A bucket that no call is larger than is never  *)
(* overdrawn, so that what it grants between two moments is bounded too.   *)
(*                                                                         *)
(* RewardLimiter: an asynchronous scorer is never called more than         *)
(* max_concurrent times at once by a worker, and the buckets keep their    *)
(* rate behind the pipeline of run_single.  A coroutine is called when its *)
(* sample takes the semaphore and ends, or is cancelled, when the sample   *)
(* gives it back, so that the calls at the API are among the samples that  *)
(* hold the semaphore.  Nothing else may move such a sample on: its        *)
(* decoding, which runs in the executor, is over, because every sample is  *)
(* decoded once.                                                           *)
(***************************************************************************)
EXTENDS RewardLimiter, DataTheorems, SequenceTheorems

-----------------------------------------------------------------------------
(* TokenBucket.                                                            *)

BucketInv == BucketTypeOK /\ Accounts /\ DebtCovered

Assumptions == MaxTokensAssumption /\ CostAssumption

LEMMA RefilledFacts ==
    ASSUME Assumptions, BucketTypeOK, Accounts, NEW b \in Buckets
    PROVE  /\ Refilled(b) \in Int
           /\ Refilled(b) <= MaxTokens[b]
           /\ Refilled(b) <= tokens[b] + (now - lastUpdate[b])
           /\ Refilled(b) < 0 => Refilled(b) = tokens[b] + (now - lastUpdate[b])
  BY DEF Assumptions, MaxTokensAssumption, BucketTypeOK, Accounts, Refilled

\* Charging a bucket keeps its accounts, and charging it nothing keeps its
\* debt covered.
LEMMA ChargeKeeps ==
    ASSUME Assumptions, BucketInv, NEW c \in Buckets, NEW n \in Nat,
           Charge(c, n), now' = now
    PROVE  /\ tokens' \in [Buckets -> Int]
           /\ \A b \in Buckets : tokens'[b] <= MaxTokens[b]
           /\ lastUpdate' \in [Buckets -> Nat]
           /\ charged' \in [Buckets -> Nat]
           /\ Accounts'
           /\ tokens'[c] = Refilled(c) - n /\ lastUpdate'[c] = now
           /\ \A b \in Buckets \ {c} :
                 tokens'[b] = tokens[b] /\ lastUpdate'[b] = lastUpdate[b]
  <1> DEFINE full == Refilled(c)
  <1>1. /\ full \in Int /\ full <= MaxTokens[c]
        /\ full <= tokens[c] + (now - lastUpdate[c])
    BY RefilledFacts DEF BucketInv
  <1>2. /\ tokens' = [tokens EXCEPT ![c] = full - n]
        /\ lastUpdate' = [lastUpdate EXCEPT ![c] = now]
        /\ charged' = [charged EXCEPT ![c] = @ + n]
    BY DEF Charge
  <1> HIDE DEF full
  <1>3. /\ tokens' \in [Buckets -> Int] /\ lastUpdate' \in [Buckets -> Nat]
        /\ charged' \in [Buckets -> Nat]
        /\ \A b \in Buckets : tokens'[b] <= MaxTokens[b]
    BY <1>1, <1>2 DEF BucketInv, BucketTypeOK, Assumptions, MaxTokensAssumption
  <1>4. Accounts'
    <2> SUFFICES ASSUME NEW b \in Buckets
                 PROVE  /\ lastUpdate'[b] <= now'
                        /\ charged'[b] + tokens'[b] <= MaxTokens[b] + lastUpdate'[b]
      BY DEF Accounts
    <2>1. CASE b = c
      BY <1>1, <1>2, <2>1
      DEF BucketInv, BucketTypeOK, Accounts, Assumptions, MaxTokensAssumption
    <2>2. CASE b # c
      BY <1>2, <2>2 DEF BucketInv, BucketTypeOK, Accounts
    <2> QED BY <2>1, <2>2
  <1> QED BY <1>2, <1>3, <1>4 DEF full, BucketInv, BucketTypeOK

LEMMA InitBucketInv == Assumptions /\ BucketInit => BucketInv
  <1> SUFFICES ASSUME Assumptions, BucketInit PROVE BucketInv
    OBVIOUS
  <1>1. BucketTypeOK
    BY DEF BucketInit, BucketTypeOK, Assumptions, MaxTokensAssumption
  <1>2. Accounts /\ DebtCovered
    BY DEF BucketInit, Accounts, DebtCovered, Assumptions, MaxTokensAssumption
  <1> QED BY <1>1, <1>2 DEF BucketInv

LEMMA AcquireKeeps ==
    ASSUME Assumptions, BucketInv, NEW r \in Requests, Acquire(r)
    PROVE  BucketInv'
  <1> DEFINE c == BucketOf[r]
  <1>1. c \in Buckets /\ Cost[r] \in Nat
    BY DEF Assumptions, CostAssumption
  <1>2. /\ Charge(c, Cost[r]) /\ now' = now /\ due' = due
        /\ Refilled(c) >= Cost[r] /\ Return(r) /\ wait[r] # "repaying"
    BY DEF Acquire, AtBucket
  <1> HIDE DEF c
  <1>3. Refilled(c) \in Int
    BY <1>1, RefilledFacts DEF BucketInv
  <1>4. BucketTypeOK'
    BY <1>1, <1>2, ChargeKeeps DEF BucketInv, BucketTypeOK, Return
  <1>5. DebtCovered'
    <2> SUFFICES ASSUME NEW b \in Buckets, tokens'[b] < 0
                 PROVE  \/ lastUpdate'[b] - tokens'[b] <= now'
                        \/ \E q \in Repaying(b)' : due'[q] >= lastUpdate'[b] - tokens'[b]
      BY DEF DebtCovered
    <2>1. b # c
      BY <1>1, <1>2, <1>3, ChargeKeeps
    <2>2. tokens'[b] = tokens[b] /\ lastUpdate'[b] = lastUpdate[b]
      BY <1>1, <1>2, <2>1, ChargeKeeps
    <2>3. Repaying(b)' = Repaying(b)
      BY <1>2 DEF Repaying, Return, BucketInv, BucketTypeOK
    <2> QED BY <1>2, <2>2, <2>3 DEF BucketInv, DebtCovered
  <1> QED BY <1>1, <1>2, <1>4, <1>5, ChargeKeeps DEF BucketInv

LEMMA SleepKeeps ==
    ASSUME Assumptions, BucketInv, NEW r \in Requests, Sleep(r)
    PROVE  BucketInv'
  <1> DEFINE c == BucketOf[r]
             until == now + (Cost[r] - Refilled(c))
  <1>1. c \in Buckets /\ Cost[r] \in Nat
    BY DEF Assumptions, CostAssumption
  <1>2. /\ Charge(c, 0) /\ now' = now /\ grants' = grants
        /\ SleepUntil(r, "sleeping", until) /\ wait[r] # "repaying"
    BY DEF Sleep, AtBucket
  <1> HIDE DEF c
  <1>3. /\ Refilled(c) \in Int
        /\ Refilled(c) < 0 => Refilled(c) = tokens[c] + (now - lastUpdate[c])
    BY <1>1, RefilledFacts DEF BucketInv
  <1>4. until \in Int
    BY <1>1, <1>3 DEF BucketInv, BucketTypeOK
  <1> HIDE DEF until
  <1>5. BucketTypeOK'
    BY <1>1, <1>2, <1>4, ChargeKeeps DEF BucketInv, BucketTypeOK, SleepUntil
  <1>6. DebtCovered'
    <2> SUFFICES ASSUME NEW b \in Buckets, tokens'[b] < 0
                 PROVE  \/ lastUpdate'[b] - tokens'[b] <= now'
                        \/ \E q \in Repaying(b)' : due'[q] >= lastUpdate'[b] - tokens'[b]
      BY DEF DebtCovered
    <2>1. tokens[b] < 0 /\ lastUpdate'[b] - tokens'[b] = lastUpdate[b] - tokens[b]
      <3>1. CASE b = c
        <4>1. tokens'[b] = Refilled(c) - 0 /\ lastUpdate'[b] = now
          BY <1>1, <1>2, <3>1, ChargeKeeps
        <4>2. now \in Nat /\ tokens[c] \in Int /\ lastUpdate[c] \in Nat /\ lastUpdate[c] <= now
          BY <1>1 DEF BucketInv, BucketTypeOK, Accounts
        <4> QED BY <1>3, <3>1, <4>1, <4>2
      <3>2. CASE b # c
        BY <1>1, <1>2, <3>2, ChargeKeeps
      <3> QED BY <3>1, <3>2
    <2>2. \A q \in Repaying(b) : q \in Repaying(b)' /\ due'[q] = due[q]
      BY <1>2 DEF Repaying, SleepUntil, BucketInv, BucketTypeOK
    <2> QED BY <1>2, <2>1, <2>2 DEF BucketInv, DebtCovered
  <1> QED BY <1>1, <1>2, <1>5, <1>6, ChargeKeeps DEF BucketInv

\* The call that overdraws the bucket covers the whole debt, not only its own
\* part of it.
LEMMA BorrowKeeps ==
    ASSUME Assumptions, BucketInv, NEW r \in Requests, Borrow(r)
    PROVE  BucketInv'
  <1> DEFINE c == BucketOf[r]
             until == now + (Cost[r] - Refilled(c))
  <1>1. c \in Buckets /\ Cost[r] \in Nat
    BY DEF Assumptions, CostAssumption
  <1>2. /\ Charge(c, Cost[r]) /\ now' = now /\ grants' = grants
        /\ SleepUntil(r, "repaying", until) /\ wait[r] = "idle"
    BY DEF Borrow
  <1>3. Refilled(c) \in Int
    BY <1>1, RefilledFacts DEF BucketInv
  <1>4. until \in Int /\ now \in Nat
    BY <1>1, <1>3 DEF BucketInv, BucketTypeOK
  <1>5. tokens'[c] = Refilled(c) - Cost[r] /\ lastUpdate'[c] = now
    BY <1>1, <1>2, ChargeKeeps
  <1>6. until = lastUpdate'[c] - tokens'[c]
    BY <1>1, <1>3, <1>4, <1>5
  <1> HIDE DEF c, until
  <1>7. BucketTypeOK'
    BY <1>1, <1>2, <1>4, ChargeKeeps DEF BucketInv, BucketTypeOK, SleepUntil
  <1>8. DebtCovered'
    <2> SUFFICES ASSUME NEW b \in Buckets, tokens'[b] < 0
                 PROVE  \/ lastUpdate'[b] - tokens'[b] <= now'
                        \/ \E q \in Repaying(b)' : due'[q] >= lastUpdate'[b] - tokens'[b]
      BY DEF DebtCovered
    <2>1. CASE b = c
      <3>1. r \in Repaying(b)' /\ due'[r] = until
        BY <1>2, <2>1 DEF Repaying, SleepUntil, BucketInv, BucketTypeOK, c
      <3> QED BY <1>4, <1>6, <2>1, <3>1
    <2>2. CASE b # c
      <3>1. tokens'[b] = tokens[b] /\ lastUpdate'[b] = lastUpdate[b]
        BY <1>1, <1>2, <2>2, ChargeKeeps
      <3>2. \A q \in Repaying(b) : q \in Repaying(b)' /\ due'[q] = due[q]
        BY <1>2 DEF Repaying, SleepUntil, BucketInv, BucketTypeOK
      <3> QED BY <1>2, <3>1, <3>2 DEF BucketInv, DebtCovered
    <2> QED BY <2>1, <2>2
  <1> QED BY <1>1, <1>2, <1>7, <1>8, ChargeKeeps DEF BucketInv

LEMMA RepaidKeeps ==
    ASSUME Assumptions, BucketInv, NEW r \in Requests, Repaid(r)
    PROVE  BucketInv'
  <1>1. /\ wait[r] = "repaying" /\ due[r] <= now /\ Return(r)
        /\ UNCHANGED <<now, tokens, lastUpdate, due, charged>>
    BY DEF Repaid
  <1>2. BucketTypeOK'
    BY <1>1 DEF BucketInv, BucketTypeOK, Return
  <1>3. Accounts'
    BY <1>1 DEF BucketInv, Accounts
  <1>4. DebtCovered'
    <2> SUFFICES ASSUME NEW b \in Buckets, tokens[b] < 0
                 PROVE  \/ lastUpdate[b] - tokens[b] <= now
                        \/ \E q \in Repaying(b)' : due[q] >= lastUpdate[b] - tokens[b]
      BY <1>1 DEF DebtCovered
    <2>1. /\ lastUpdate[b] - tokens[b] \in Int /\ now \in Int
          /\ \A q \in Repaying(b) : due[q] \in Int
      BY DEF BucketInv, BucketTypeOK, Repaying
    <2>2. CASE lastUpdate[b] - tokens[b] <= now
      BY <2>2
    <2>3. CASE ~(lastUpdate[b] - tokens[b] <= now)
      <3>1. PICK q \in Repaying(b) : due[q] >= lastUpdate[b] - tokens[b]
        BY <2>3 DEF BucketInv, DebtCovered
      <3>2. q # r
        BY <1>1, <2>1, <2>3, <3>1
      <3>3. q \in Repaying(b)'
        BY <1>1, <3>2 DEF Repaying, Return, BucketInv, BucketTypeOK
      <3> QED BY <3>1, <3>3
    <2> QED BY <2>2, <2>3
  <1> QED BY <1>2, <1>3, <1>4 DEF BucketInv

LEMMA TickKeeps ==
    ASSUME Assumptions, BucketInv, Tick
    PROVE  BucketInv'
  <1>1. /\ now' = now + 1
        /\ UNCHANGED <<tokens, lastUpdate, wait, due, charged, grants>>
    BY DEF Tick
  <1>2. BucketTypeOK'
    BY <1>1 DEF BucketInv, BucketTypeOK
  <1>3. Accounts'
    BY <1>1 DEF BucketInv, BucketTypeOK, Accounts
  <1>4. DebtCovered'
    <2> SUFFICES ASSUME NEW b \in Buckets, tokens[b] < 0
                 PROVE  \/ lastUpdate[b] - tokens[b] <= now + 1
                        \/ \E q \in Repaying(b) : due[q] >= lastUpdate[b] - tokens[b]
      BY <1>1 DEF DebtCovered, Repaying
    <2>1. now \in Nat /\ lastUpdate[b] - tokens[b] \in Int
      BY DEF BucketInv, BucketTypeOK
    <2> QED BY <2>1 DEF BucketInv, DebtCovered
  <1> QED BY <1>2, <1>3, <1>4 DEF BucketInv

LEMMA NextBucketInv == Assumptions /\ BucketInv /\ [BucketNext]_bucketVars => BucketInv'
  <1> SUFFICES ASSUME Assumptions, BucketInv, [BucketNext]_bucketVars
               PROVE  BucketInv'
    OBVIOUS
  <1>1. ASSUME NEW r \in Requests, Pass(r) PROVE BucketInv'
    BY <1>1, AcquireKeeps, SleepKeeps, BorrowKeeps, RepaidKeeps DEF Pass
  <1>2. CASE Tick
    BY <1>2, TickKeeps
  <1>3. CASE UNCHANGED bucketVars
    BY <1>3 DEF bucketVars, BucketInv, BucketTypeOK, Accounts, DebtCovered, Repaying
  <1> QED BY <1>1, <1>2, <1>3 DEF BucketNext

LEMMA BucketInvHolds == BucketSpec => []BucketInv
  <1>1. Assumptions
    BY MaxTokensAssumption, CostAssumption DEF Assumptions
  <1> QED BY <1>1, InitBucketInv, NextBucketInv, PTL DEF BucketSpec

\* A bucket never holds more than max_tokens, and its state has its types.
THEOREM BucketTypes == BucketSpec => []BucketTypeOK
  BY BucketInvHolds, PTL DEF BucketInv

\* What a bucket was charged and what it holds never exceed what has come in.
THEOREM BooksBalance == BucketSpec => []Accounts
  BY BucketInvHolds, PTL DEF BucketInv

\* An overdrawn bucket has a call asleep until the debt is repaid.
THEOREM DebtIsCovered == BucketSpec => []DebtCovered
  BY BucketInvHolds, PTL DEF BucketInv

LEMMA InvRate == Assumptions /\ BucketInv => AverageRate
  <1> SUFFICES ASSUME Assumptions, BucketInv, NEW b \in Buckets, Repaying(b) = {}
               PROVE  charged[b] <= MaxTokens[b] + now
    BY DEF AverageRate
  <1>1. /\ now \in Nat /\ tokens[b] \in Int /\ lastUpdate[b] \in Nat
        /\ charged[b] \in Nat /\ MaxTokens[b] \in Nat
    BY DEF BucketInv, BucketTypeOK, Assumptions, MaxTokensAssumption
  <1>2. /\ lastUpdate[b] <= now
        /\ charged[b] + tokens[b] <= MaxTokens[b] + lastUpdate[b]
    BY DEF BucketInv, Accounts
  <1>3. tokens[b] < 0 => lastUpdate[b] - tokens[b] <= now
    BY DEF BucketInv, DebtCovered
  <1> QED BY <1>1, <1>2, <1>3

\* The average rate of AsyncTokenBucket.acquire, for requests of every size.
THEOREM RateIsKept == BucketSpec => []AverageRate
  <1>1. Assumptions
    BY MaxTokensAssumption, CostAssumption DEF Assumptions
  <1> QED BY <1>1, InvRate, BucketInvHolds, PTL

-----------------------------------------------------------------------------
(* RewardLimiter.                                                          *)

Job == [sample : Samples, kind : {"decode", "score"}]
Stages == {"new", "decoding", "limited", "calling", "answered"}

\* The samples that hold the semaphore of a worker
Holding(w) == {s \in Samples : WorkerOf[s] = w /\ stage[s] = "calling"}

\* The semaphore counts, and a coroutine that runs holds it.
SemaphoreInv ==
    /\ \A w \in Workers : IsFiniteSet(Holding(w)) /\ Cardinality(Holding(w)) <= MaxConcurrent
    /\ \A s \in Samples : call[s] = "active" => stage[s] = "calling"

\* Every sample that is being decoded has one job, in its worker's queue or in
\* a thread, and there are no other jobs.
JobsInv ==
    /\ \A j \in threads : j.kind = "decode" /\ stage[j.sample] = "decoding"
    /\ \A w \in Workers : \A i \in 1..Len(jobs[w]) :
          LET j == jobs[w][i]
          IN  /\ j.kind = "decode" /\ stage[j.sample] = "decoding"
              /\ WorkerOf[j.sample] = w /\ j \notin threads
              /\ \A k \in 1..Len(jobs[w]) : jobs[w][k] = j => k = i

LimiterTypes ==
    /\ isAsync \in BOOLEAN
    /\ stage \in [Samples -> Stages]
    /\ call \in [Samples -> {"none", "queued", "active", "ended"}]
    /\ jobs \in [Workers -> Seq(Job)]
    /\ threads \subseteq Job

AsyncInv == isAsync => LimiterTypes /\ SemaphoreInv /\ JobsInv

-----------------------------------------------------------------------------
(* The semaphore of a worker                                               *)

LEMMA OfWorkers ==
    ASSUME NEW s \in Samples
    PROVE  WorkerOf[s] \in Workers
  BY DEF Workers

\* A sample that moves on without taking the semaphore leaves it as free or freer.
LEMMA SemaphoreKept ==
    ASSUME LimiterTypes, SemaphoreInv, NEW s \in Samples, NEW to \in Stages \ {"calling"},
           stage' = [stage EXCEPT ![s] = to]
    PROVE  \A w \in Workers : IsFiniteSet(Holding(w)') /\ Cardinality(Holding(w)') <= MaxConcurrent
  <1> SUFFICES ASSUME NEW w \in Workers
               PROVE  IsFiniteSet(Holding(w)') /\ Cardinality(Holding(w)') <= MaxConcurrent
    OBVIOUS
  <1>1. Holding(w)' \subseteq Holding(w)
    BY DEF Holding, LimiterTypes
  <1>2. IsFiniteSet(Holding(w)) /\ Cardinality(Holding(w)) <= MaxConcurrent
    BY DEF SemaphoreInv
  <1>3. /\ IsFiniteSet(Holding(w)') /\ Cardinality(Holding(w)') <= Cardinality(Holding(w))
        /\ Cardinality(Holding(w)') \in Nat /\ Cardinality(Holding(w)) \in Nat
    BY <1>1, <1>2, FS_Subset, FS_CardinalityType
  <1> QED BY <1>2, <1>3, PoolAssumption DEF PoolAssumption

LEMMA SemaphoreTaken ==
    ASSUME LimiterTypes, SemaphoreInv, NEW s \in Samples, SemaphoreFree(WorkerOf[s]),
           stage' = [stage EXCEPT ![s] = "calling"]
    PROVE  \A w \in Workers : IsFiniteSet(Holding(w)') /\ Cardinality(Holding(w)') <= MaxConcurrent
  <1> SUFFICES ASSUME NEW w \in Workers
               PROVE  IsFiniteSet(Holding(w)') /\ Cardinality(Holding(w)') <= MaxConcurrent
    OBVIOUS
  <1>1. IsFiniteSet(Holding(w)) /\ Cardinality(Holding(w)) <= MaxConcurrent
    BY DEF SemaphoreInv
  <1>2. CASE w = WorkerOf[s]
    <2>1. Holding(w)' = Holding(w) \cup {s}
      BY <1>2 DEF Holding, LimiterTypes
    <2>2. /\ IsFiniteSet(Holding(w)') /\ Cardinality(Holding(w)) \in Nat
          /\ \/ Cardinality(Holding(w)') = Cardinality(Holding(w))
             \/ Cardinality(Holding(w)') = Cardinality(Holding(w)) + 1
      BY <1>1, <2>1, FS_AddElement, FS_CardinalityType
    <2>3. Cardinality(Holding(w)) < MaxConcurrent
      BY <1>2 DEF SemaphoreFree, Holding
    <2> QED BY <2>2, <2>3, PoolAssumption DEF PoolAssumption
  <1>3. CASE w # WorkerOf[s]
    <2>1. Holding(w)' = Holding(w)
      BY <1>3 DEF Holding, LimiterTypes
    <2> QED BY <1>1, <2>1
  <1> QED BY <1>2, <1>3

-----------------------------------------------------------------------------
(* The steps of a sample                                                   *)

LEMMA RunSingleKeeps ==
    ASSUME LimiterTypes, SemaphoreInv, JobsInv, NEW s \in Samples, RunSingle(s)
    PROVE  LimiterTypes' /\ SemaphoreInv' /\ JobsInv'
  <1> DEFINE w == WorkerOf[s]
             j == [sample |-> s, kind |-> "decode"]
             old == jobs[w]
  <1>1. /\ stage[s] = "new" /\ stage' = [stage EXCEPT ![s] = "decoding"]
        /\ jobs' = [jobs EXCEPT ![w] = Append(old, j)]
        /\ UNCHANGED <<isAsync, call, threads>>
    BY DEF RunSingle, Enqueue
  <1>2. w \in Workers /\ j \in Job /\ old \in Seq(Job)
    BY OfWorkers DEF Job, LimiterTypes
  <1>3. j.sample = s /\ j.kind = "decode"
    OBVIOUS
  <1> HIDE DEF w, j, old
  <1>4. /\ Append(old, j) \in Seq(Job) /\ Len(Append(old, j)) = Len(old) + 1 /\ Len(old) \in Nat
        /\ \A i \in 1..Len(old) : Append(old, j)[i] = old[i]
        /\ Append(old, j)[Len(old) + 1] = j
    BY <1>2
  <1>5. /\ jobs' \in [Workers -> Seq(Job)] /\ jobs'[w] = Append(old, j)
        /\ \A x \in Workers \ {w} : jobs'[x] = jobs[x]
    BY <1>1, <1>2, <1>4 DEF LimiterTypes
  <1>6. /\ stage' \in [Samples -> Stages] /\ stage'[s] = "decoding"
        /\ \A x \in Samples \ {s} : stage'[x] = stage[x]
    BY <1>1 DEF LimiterTypes, Stages
  <1>7. LimiterTypes'
    BY <1>1, <1>5, <1>6 DEF LimiterTypes
  <1>8. SemaphoreInv'
    BY <1>1, <1>6, SemaphoreKept DEF SemaphoreInv, Stages
  <1>9. \A x \in Samples : stage[x] = "decoding" => x # s /\ stage'[x] = "decoding"
    BY <1>1, <1>6
  <1>10. \A x \in threads : x.kind = "decode" /\ stage'[x.sample] = "decoding" /\ x # j
    BY <1>3, <1>9 DEF JobsInv, LimiterTypes, Job
  <1>11. ASSUME NEW x \in Workers, NEW i \in 1..Len(jobs[x])
         PROVE  /\ jobs[x][i] \in Job /\ jobs[x][i].kind = "decode"
                /\ stage'[jobs[x][i].sample] = "decoding" /\ WorkerOf[jobs[x][i].sample] = x
                /\ jobs[x][i] \notin threads /\ jobs[x][i] # j
                /\ \A k \in 1..Len(jobs[x]) : jobs[x][k] = jobs[x][i] => k = i
    <2>1. jobs[x][i] \in Job /\ jobs[x][i].sample \in Samples
      <3>1. jobs[x] \in Seq(Job)
        BY DEF LimiterTypes
      <3>2. jobs[x][i] \in Job
        BY <3>1, ElementOfSeq
      <3> QED BY <3>2 DEF Job
    <2>2. stage[jobs[x][i].sample] = "decoding"
      BY DEF JobsInv
    <2> QED BY <1>3, <1>9, <2>1, <2>2 DEF JobsInv
  <1>12. ASSUME NEW x \in Workers, NEW i \in 1..Len(jobs'[x])
         PROVE  /\ jobs'[x][i].kind = "decode" /\ stage'[jobs'[x][i].sample] = "decoding"
                /\ WorkerOf[jobs'[x][i].sample] = x /\ jobs'[x][i] \notin threads'
                /\ \A k \in 1..Len(jobs'[x]) : jobs'[x][k] = jobs'[x][i] => k = i
    <2>1. CASE x # w
      BY <1>1, <1>5, <1>11, <2>1
    <2>2. CASE x = w /\ i \in 1..Len(old)
      <3>1. jobs'[x][i] = jobs[x][i] /\ i \in 1..Len(jobs[x])
        BY <1>4, <1>5, <2>2 DEF old
      <3>2. ASSUME NEW k \in 1..Len(jobs'[x]), jobs'[x][k] = jobs'[x][i]
            PROVE  k = i
        <4>1. k \in 1..Len(old) \/ k = Len(old) + 1
          BY <1>4, <1>5, <2>2
        <4>2. k # Len(old) + 1
          BY <1>4, <1>5, <1>11, <2>2, <3>1, <3>2
        <4>3. jobs'[x][k] = jobs[x][k] /\ k \in 1..Len(jobs[x])
          BY <1>4, <1>5, <2>2, <4>1, <4>2 DEF old
        <4>4. jobs[x][k] = jobs[x][i]
          BY <3>1, <3>2, <4>3
        <4> QED BY <1>11, <3>1, <4>3, <4>4
      <3>3. \A k \in 1..Len(jobs'[x]) : jobs'[x][k] = jobs'[x][i] => k = i
        BY <3>2
      <3> QED BY <1>1, <1>11, <3>1, <3>3
    <2>3. CASE x = w /\ i = Len(old) + 1
      <3>1. jobs'[x][i] = j
        BY <1>4, <1>5, <2>3
      <3>2. ASSUME NEW k \in 1..Len(jobs'[x]), jobs'[x][k] = jobs'[x][i]
            PROVE  k = i
        <4>1. k \in 1..Len(old) => jobs'[x][k] = jobs[x][k] /\ k \in 1..Len(jobs[x])
          BY <1>4, <1>5, <2>3 DEF old
        <4>2. k \notin 1..Len(old)
          BY <1>11, <3>1, <3>2, <4>1
        <4> QED BY <1>4, <1>5, <2>3, <4>2
      <3>3. \A k \in 1..Len(jobs'[x]) : jobs'[x][k] = jobs'[x][i] => k = i
        BY <3>2
      <3>4. WorkerOf[j.sample] = x /\ j \notin threads'
        BY <1>1, <1>3, <1>10, <2>3 DEF w
      <3> QED BY <1>3, <1>6, <3>1, <3>3, <3>4
    <2> QED BY <1>4, <1>5, <2>1, <2>2, <2>3
  <1>13. JobsInv'
    BY <1>1, <1>10, <1>12 DEF JobsInv
  <1> QED BY <1>7, <1>8, <1>13

\* A sample that is not being decoded moves on: no job is about it.
LEMMA JobsKept ==
    ASSUME LimiterTypes, JobsInv, NEW s \in Samples, stage[s] # "decoding", NEW to,
           stage' = [stage EXCEPT ![s] = to], jobs' = jobs, threads' \subseteq threads
    PROVE  JobsInv'
  <1>1. \A x \in Samples : stage[x] = "decoding" => stage'[x] = "decoding"
    BY DEF LimiterTypes
  <1>2. \A j \in threads' : j.kind = "decode" /\ stage'[j.sample] = "decoding"
    BY <1>1 DEF JobsInv, LimiterTypes, Job
  <1>3. ASSUME NEW w \in Workers, NEW i \in 1..Len(jobs[w])
        PROVE  stage'[jobs[w][i].sample] = "decoding"
    <2>1. jobs[w][i] \in Job /\ stage[jobs[w][i].sample] = "decoding"
      BY DEF LimiterTypes, JobsInv
    <2> QED BY <1>1, <2>1 DEF Job
  <1> QED BY <1>2, <1>3 DEF JobsInv

LEMMA EnterKeeps ==
    ASSUME isAsync, LimiterTypes, SemaphoreInv, JobsInv, NEW s \in Samples, EnterSemaphore(s)
    PROVE  LimiterTypes' /\ SemaphoreInv' /\ JobsInv'
  <1>1. /\ stage[s] = "limited" /\ SemaphoreFree(WorkerOf[s])
        /\ stage' = [stage EXCEPT ![s] = "calling"]
        /\ call' = [call EXCEPT ![s] = "active"]
        /\ UNCHANGED <<isAsync, jobs, threads>>
    BY DEF EnterSemaphore, AllGranted, Called
  <1>2. LimiterTypes'
    BY <1>1 DEF LimiterTypes, Stages
  <1>3. SemaphoreInv'
    BY <1>1, SemaphoreTaken DEF SemaphoreInv, LimiterTypes
  <1>4. JobsInv'
    BY <1>1, JobsKept
  <1> QED BY <1>2, <1>3, <1>4

LEMMA AnswerKeeps ==
    ASSUME isAsync, LimiterTypes, SemaphoreInv, JobsInv, NEW s \in Samples,
           CallEnds(s) \/ TimesOut(s)
    PROVE  LimiterTypes' /\ SemaphoreInv' /\ JobsInv'
  <1>1. /\ stage[s] = "calling"
        /\ stage' = [stage EXCEPT ![s] = "answered"]
        /\ call' = [call EXCEPT ![s] = "ended"]
        /\ UNCHANGED <<isAsync, jobs>> /\ threads' \subseteq threads
    BY DEF CallEnds, TimesOut, SemaphoreInv
  <1>2. LimiterTypes'
    BY <1>1 DEF LimiterTypes, Stages
  <1>3. SemaphoreInv'
    BY <1>1, SemaphoreKept DEF SemaphoreInv, LimiterTypes, Stages
  <1>4. JobsInv'
    BY <1>1, JobsKept
  <1> QED BY <1>2, <1>3, <1>4

LEMMA DecodeEndsKeeps ==
    ASSUME LimiterTypes, SemaphoreInv, JobsInv, NEW s \in Samples, DecodeEnds(s)
    PROVE  LimiterTypes' /\ SemaphoreInv' /\ JobsInv'
  <1> DEFINE d == [sample |-> s, kind |-> "decode"]
  <1>1. /\ d \in threads /\ threads' = threads \ {d}
        /\ stage' = [stage EXCEPT ![s] = "limited"]
        /\ UNCHANGED <<isAsync, call, jobs>>
    BY DEF DecodeEnds
  <1>2. \A j \in Job : j.kind = "decode" /\ j.sample = s => j = d
    BY DEF Job
  <1>3. d.sample = s
    OBVIOUS
  <1> HIDE DEF d
  <1>4. stage[s] = "decoding"
    BY <1>1, <1>3 DEF JobsInv
  <1>5. LimiterTypes'
    BY <1>1 DEF LimiterTypes, Stages
  <1>6. SemaphoreInv'
    BY <1>1, <1>4, SemaphoreKept DEF SemaphoreInv, LimiterTypes, Stages
  <1>7. \A j \in Job : /\ j.kind = "decode" /\ j # d /\ stage[j.sample] = "decoding"
                       => stage'[j.sample] = "decoding"
    <2> SUFFICES ASSUME NEW j \in Job, j.kind = "decode", j # d, stage[j.sample] = "decoding"
                 PROVE  stage'[j.sample] = "decoding"
      OBVIOUS
    <2>1. j.sample \in Samples /\ j.sample # s
      BY <1>2 DEF Job
    <2> QED BY <1>1, <2>1 DEF LimiterTypes
  <1>8. \A j \in threads' : j.kind = "decode" /\ stage'[j.sample] = "decoding"
    BY <1>1, <1>7 DEF JobsInv, LimiterTypes
  <1>9. ASSUME NEW w \in Workers, NEW i \in 1..Len(jobs[w])
        PROVE  stage'[jobs[w][i].sample] = "decoding" /\ jobs[w][i] \notin threads'
    <2>1. /\ jobs[w][i] \in Job /\ jobs[w][i].kind = "decode"
          /\ stage[jobs[w][i].sample] = "decoding" /\ jobs[w][i] \notin threads
      BY DEF LimiterTypes, JobsInv
    <2> QED BY <1>1, <1>7, <2>1
  <1>10. JobsInv'
    BY <1>1, <1>8, <1>9 DEF JobsInv
  <1> QED BY <1>5, <1>6, <1>10

LEMMA StartJobKeeps ==
    ASSUME LimiterTypes, SemaphoreInv, JobsInv, NEW w \in Workers, StartJob(w)
    PROVE  LimiterTypes' /\ SemaphoreInv' /\ JobsInv'
  <1> DEFINE old == jobs[w]
             h == Head(old)
  <1>1. old # <<>> /\ old \in Seq(Job)
    BY DEF StartJob, LimiterTypes
  <1>2. /\ Tail(old) \in Seq(Job) /\ Len(Tail(old)) = Len(old) - 1 /\ Len(old) \in Nat \ {0}
        /\ \A i \in 1..Len(Tail(old)) : Tail(old)[i] = old[i + 1]
        /\ h = old[1] /\ h \in Job
    BY <1>1
  <1>3. /\ 1 \in 1..Len(old)
        /\ h.kind = "decode" /\ stage[h.sample] = "decoding" /\ WorkerOf[h.sample] = w
    BY <1>2 DEF JobsInv
  <1>4. /\ jobs' = [jobs EXCEPT ![w] = Tail(old)]
        /\ threads' = threads \cup {h}
        /\ UNCHANGED <<isAsync, stage, call>>
    BY <1>3 DEF StartJob
  <1>5. /\ jobs' \in [Workers -> Seq(Job)] /\ jobs'[w] = Tail(old)
        /\ \A x \in Workers \ {w} : jobs'[x] = jobs[x]
    BY <1>2, <1>4 DEF LimiterTypes
  <1> HIDE DEF h
  <1>6. LimiterTypes'
    BY <1>2, <1>4, <1>5 DEF LimiterTypes
  <1>7. SemaphoreInv'
    BY <1>4 DEF SemaphoreInv, Holding
  <1>8. \A j \in threads' : j.kind = "decode" /\ stage'[j.sample] = "decoding"
    BY <1>3, <1>4 DEF JobsInv
  <1>9. ASSUME NEW x \in Workers, NEW i \in 1..Len(jobs'[x])
        PROVE  /\ jobs'[x][i].kind = "decode" /\ stage'[jobs'[x][i].sample] = "decoding"
               /\ WorkerOf[jobs'[x][i].sample] = x /\ jobs'[x][i] \notin threads'
               /\ \A k \in 1..Len(jobs'[x]) : jobs'[x][k] = jobs'[x][i] => k = i
    <2>1. CASE x # w
      <3>1. jobs'[x] = jobs[x] /\ WorkerOf[jobs[x][i].sample] = x /\ jobs[x][i] # h
        BY <1>3, <1>5, <2>1 DEF JobsInv
      <3>2. /\ jobs[x][i].kind = "decode" /\ stage[jobs[x][i].sample] = "decoding"
            /\ jobs[x][i] \notin threads
            /\ \A k \in 1..Len(jobs[x]) : jobs[x][k] = jobs[x][i] => k = i
        BY <3>1 DEF JobsInv
      <3>3. jobs'[x][i] = jobs[x][i] /\ Len(jobs'[x]) = Len(jobs[x])
        BY <3>1
      <3>4. jobs'[x][i] \notin threads'
        BY <1>4, <3>1, <3>2, <3>3
      <3>5. \A k \in 1..Len(jobs'[x]) : jobs'[x][k] = jobs'[x][i] => k = i
        BY <3>1, <3>2
      <3> QED BY <1>4, <3>1, <3>2, <3>3, <3>4, <3>5
    <2>2. CASE x = w
      <3>1. /\ i + 1 \in 1..Len(old) /\ i \in Nat \ {0} /\ jobs'[x][i] = old[i + 1]
            /\ \A k \in 1..Len(jobs'[x]) : /\ k + 1 \in 1..Len(old) /\ k \in Nat
                                           /\ jobs'[x][k] = old[k + 1]
        BY <1>2, <1>5, <2>2
      <3>2. /\ old[i + 1].kind = "decode" /\ stage[old[i + 1].sample] = "decoding"
            /\ WorkerOf[old[i + 1].sample] = w /\ old[i + 1] \notin threads
            /\ \A k \in 1..Len(old) : old[k] = old[i + 1] => k = i + 1
        BY <3>1 DEF JobsInv
      <3>3. old[i + 1] # h
        BY <1>2, <1>3, <3>1, <3>2
      <3>4. ASSUME NEW k \in 1..Len(jobs'[x]), jobs'[x][k] = jobs'[x][i]
            PROVE  k = i
        <4>1. k + 1 = i + 1 /\ k \in Nat
          BY <3>1, <3>2, <3>4
        <4> QED BY <3>1, <4>1
      <3>5. \A k \in 1..Len(jobs'[x]) : jobs'[x][k] = jobs'[x][i] => k = i
        BY <3>4
      <3>6. jobs'[x][i] \notin threads'
        BY <1>4, <3>1, <3>2, <3>3
      <3>7. /\ jobs'[x][i].kind = "decode" /\ stage'[jobs'[x][i].sample] = "decoding"
            /\ WorkerOf[jobs'[x][i].sample] = x
        BY <1>4, <2>2, <3>1, <3>2
      <3> QED BY <3>5, <3>6, <3>7
    <2> QED BY <2>1, <2>2
  <1>10. JobsInv'
    BY <1>8, <1>9 DEF JobsInv
  <1> QED BY <1>6, <1>7, <1>10

-----------------------------------------------------------------------------
(* The invariant of the specification                                      *)

LEMMA RestKeeps ==
    ASSUME LimiterTypes, SemaphoreInv, JobsInv, UNCHANGED limiterVars
    PROVE  LimiterTypes' /\ SemaphoreInv' /\ JobsInv'
  BY DEF limiterVars, LimiterTypes, SemaphoreInv, Holding, JobsInv

LEMMA InitAsync == LimiterInit => AsyncInv
  <1> SUFFICES ASSUME LimiterInit PROVE LimiterTypes /\ SemaphoreInv /\ JobsInv
    BY DEF AsyncInv
  <1> USE DEF LimiterInit
  <1>1. LimiterTypes
    BY EmptySeq DEF LimiterTypes, Stages
  <1>2. SemaphoreInv
    <2>1. \A w \in Workers : Holding(w) = {}
      BY DEF Holding
    <2>2. IsFiniteSet({}) /\ Cardinality({}) = 0
      BY FS_EmptySet
    <2>3. 0 <= MaxConcurrent
      BY PoolAssumption DEF PoolAssumption
    <2>4. \A w \in Workers : IsFiniteSet(Holding(w)) /\ Cardinality(Holding(w)) <= MaxConcurrent
      BY <2>1, <2>2, <2>3
    <2>5. \A s \in Samples : call[s] # "active"
      OBVIOUS
    <2> QED BY <2>4, <2>5 DEF SemaphoreInv
  <1>3. JobsInv
    <2>1. \A w \in Workers : Len(jobs[w]) = 0
      BY EmptySeq
    <2> QED BY <2>1 DEF JobsInv
  <1> QED BY <1>1, <1>2, <1>3

LEMMA NextAsync == AsyncInv /\ [LimiterNext]_vars => AsyncInv'
  <1>1. ASSUME [LimiterNext]_vars PROVE isAsync' = isAsync
    BY <1>1 DEF LimiterNext, RunSingle, Step, DecodeEnds, TakeTokens, EnterSemaphore, TimesOut,
                CallEnds, StartJob, LimiterTick, vars, limiterVars
  <1> SUFFICES ASSUME isAsync, LimiterTypes, SemaphoreInv, JobsInv, [LimiterNext]_vars
               PROVE  LimiterTypes' /\ SemaphoreInv' /\ JobsInv'
    BY <1>1 DEF AsyncInv
  <1>2. ASSUME NEW s \in Samples, RunSingle(s) \/ Step(s) \/ CallEnds(s)
        PROVE  LimiterTypes' /\ SemaphoreInv' /\ JobsInv'
    <2>1. CASE \E k \in Limits : TakeTokens(s, k)
      BY <2>1, RestKeeps DEF TakeTokens
    <2> QED BY <1>2, <2>1, RunSingleKeeps, DecodeEndsKeeps, EnterKeeps, AnswerKeeps DEF Step
  <1>3. ASSUME NEW w \in Workers, StartJob(w)
        PROVE  LimiterTypes' /\ SemaphoreInv' /\ JobsInv'
    BY <1>3, StartJobKeeps
  <1>4. CASE LimiterTick \/ UNCHANGED vars
    BY <1>4, RestKeeps DEF LimiterTick, vars
  <1> QED BY <1>2, <1>3, <1>4 DEF LimiterNext

LEMMA AsyncInvHolds == LimiterSpec => []AsyncInv
  BY InitAsync, NextAsync, PTL DEF LimiterSpec

LEMMA AsyncLimit == AsyncInv => AsyncConcurrencyLimit
  <1> SUFFICES ASSUME AsyncInv, isAsync, NEW w \in Workers
               PROVE  Cardinality(ActiveCalls(w)) <= MaxConcurrent
    BY DEF AsyncConcurrencyLimit
  <1>1. SemaphoreInv
    BY DEF AsyncInv
  <1>2. ActiveCalls(w) \subseteq Holding(w)
    BY <1>1 DEF ActiveCalls, Holding, SemaphoreInv
  <1>3. IsFiniteSet(Holding(w)) /\ Cardinality(Holding(w)) <= MaxConcurrent
    BY <1>1 DEF SemaphoreInv
  <1>4. /\ IsFiniteSet(ActiveCalls(w)) /\ Cardinality(ActiveCalls(w)) <= Cardinality(Holding(w))
        /\ Cardinality(ActiveCalls(w)) \in Nat /\ Cardinality(Holding(w)) \in Nat
    BY <1>2, <1>3, FS_Subset, FS_CardinalityType
  <1> QED BY <1>3, <1>4, PoolAssumption DEF PoolAssumption

\* A step of run_single passes through the lock of a bucket, or leaves all
\* buckets alone.
LEMMA NextLimiterBuckets == Assumptions /\ BucketInv /\ [LimiterNext]_vars => BucketInv'
  <1> SUFFICES ASSUME Assumptions, BucketInv, [LimiterNext]_vars PROVE BucketInv'
    OBVIOUS
  <1>1. ASSUME NEW s \in Samples, NEW k \in Limits, TakeTokens(s, k)
        PROVE  BucketInv'
    <2>1. Pass(<<s, k>>) /\ <<s, k>> \in Requests
      BY <1>1, LimitsAssumption DEF TakeTokens, LimitsAssumption
    <2> QED BY <2>1, AcquireKeeps, SleepKeeps, BorrowKeeps, RepaidKeeps DEF Pass
  <1>2. CASE LimiterTick
    BY <1>2, TickKeeps DEF LimiterTick
  <1>3. CASE UNCHANGED bucketVars
    BY <1>3 DEF bucketVars, BucketInv, BucketTypeOK, Accounts, DebtCovered, Repaying
  <1>4. \/ \E s \in Samples, k \in Limits : TakeTokens(s, k)
        \/ LimiterTick \/ UNCHANGED bucketVars
    BY DEF LimiterNext, RunSingle, Step, DecodeEnds, EnterSemaphore, TimesOut, CallEnds, StartJob,
           vars
  <1> QED BY <1>1, <1>2, <1>3, <1>4

-----------------------------------------------------------------------------
(* The theorems                                                            *)

\* The semaphore of RateLimitedRewardManager limits the calls of an asynchronous
\* scorer, whichever of them are cancelled by their timeout.
THEOREM AsyncCallsLimited == LimiterSpec => []AsyncConcurrencyLimit
  BY AsyncInvHolds, AsyncLimit, PTL

\* The average rate of every bucket holds in the pipeline of run_single too,
\* where decoding, the semaphore and timeouts come between the acquires.
THEOREM LimiterKeepsRate == LimiterSpec => []AverageRate
  <1>1. Assumptions
    BY MaxTokensAssumption, CostAssumption DEF Assumptions
  <1>2. Assumptions /\ LimiterInit => BucketInv
    BY InitBucketInv DEF LimiterInit
  <1>3. LimiterSpec => []BucketInv
    BY <1>1, <1>2, NextLimiterBuckets, PTL DEF LimiterSpec
  <1> QED BY <1>1, <1>3, InvRate, PTL

-----------------------------------------------------------------------------
(* TokenBucket: the bursts.                                                *)

\* A bucket that no request is larger than
AllFit(b) == \A r \in Requests : BucketOf[r] = b => ~Large(r)

BucketAt(i) == BucketOf[grants[i].request]

\* Such a bucket is never overdrawn, and what it has granted since a call and
\* what it holds are no more than a full bucket and what has flowed in since.
BurstInv ==
    /\ \A r \in Requests : wait[r] = "repaying" => Large(r)
    /\ \A b \in Buckets : AllFit(b) => tokens[b] >= 0
    /\ \A i \in 1..Len(grants) :
          AllFit(BucketAt(i)) =>
             Spent(GrantsOf(BucketAt(i), i, Len(grants))) + tokens[BucketAt(i)]
                <= MaxTokens[BucketAt(i)] + (lastUpdate[BucketAt(i)] - grants[i].time)

LEMMA GrantsFacts ==
    ASSUME Assumptions, BucketTypeOK
    PROVE  /\ Len(grants) \in Nat
           /\ \A i \in 1..Len(grants) : /\ grants[i].request \in Requests
                                        /\ grants[i].time \in Nat
                                        /\ BucketAt(i) \in Buckets
                                        /\ Cost[grants[i].request] \in Nat
           /\ \A b : \A i, j \in 1..Len(grants) : /\ GrantsOf(b, i, j) \subseteq 1..Len(grants)
                                           /\ IsFiniteSet(GrantsOf(b, i, j))
  <1>1. Len(grants) \in Nat
    BY DEF BucketTypeOK
  <1>2. \A i \in 1..Len(grants) : grants[i] \in [request : Requests, time : Nat]
    <2> DEFINE Grant == [request : Requests, time : Nat]
    <2>1. grants \in Seq(Grant)
      BY DEF BucketTypeOK
    <2> HIDE DEF Grant
    <2>2. \A i \in 1..Len(grants) : grants[i] \in Grant
      BY <2>1
    <2> QED BY <2>2 DEF Grant
  <1>3. \A i \in 1..Len(grants) : /\ grants[i].request \in Requests
                                  /\ grants[i].time \in Nat
                                  /\ BucketAt(i) \in Buckets
                                  /\ Cost[grants[i].request] \in Nat
    BY <1>2 DEF Assumptions, CostAssumption, BucketAt
  <1>4. ASSUME NEW b, NEW i \in 1..Len(grants), NEW j \in 1..Len(grants)
        PROVE  GrantsOf(b, i, j) \subseteq 1..Len(grants) /\ IsFiniteSet(GrantsOf(b, i, j))
    <2>1. GrantsOf(b, i, j) \subseteq 1..Len(grants)
      BY <1>1 DEF GrantsOf
    <2>2. IsFiniteSet(1..Len(grants))
      BY <1>1, FS_Interval
    <2> QED BY <2>1, <2>2, FS_Subset
  <1> QED BY <1>1, <1>3, <1>4

LEMMA SpentIsInt ==
    ASSUME Assumptions, BucketTypeOK, NEW I, I \subseteq 1..Len(grants), IsFiniteSet(I)
    PROVE  Spent(I) \in Int
  <1>1. [i \in I |-> Cost[grants[i].request]] \in [I -> Int]
    BY GrantsFacts
  <1> QED BY <1>1, SumIsInt DEF Spent

\* A call that returns is the last of the grants.
LEMMA Granted ==
    ASSUME Assumptions, BucketTypeOK, NEW r \in Requests, Return(r)
    PROVE  /\ Len(grants') = Len(grants) + 1
           /\ \A i \in 1..Len(grants) : grants'[i] = grants[i] /\ BucketAt(i)' = BucketAt(i)
           /\ grants'[Len(grants) + 1].request = r /\ grants'[Len(grants) + 1].time = now
           /\ BucketOf[grants'[Len(grants) + 1].request] = BucketOf[r]
           /\ Len(grants) + 1 \in 1..Len(grants')
  <1>1. grants' = Append(grants, [request |-> r, time |-> now])
    BY DEF Return
  <1>2. grants \in Seq([request : Requests, time : Nat])
    BY DEF BucketTypeOK
  <1>3. /\ Len(grants') = Len(grants) + 1 /\ Len(grants) \in Nat
        /\ \A i \in 1..Len(grants) : grants'[i] = grants[i]
        /\ grants'[Len(grants) + 1] = [request |-> r, time |-> now]
    BY <1>1, <1>2
  <1>4. \A i \in 1..Len(grants) : BucketAt(i)' = BucketAt(i)
    BY <1>3 DEF BucketAt
  <1>5. BucketOf[grants'[Len(grants) + 1].request] = BucketOf[r]
    BY <1>3
  <1> QED BY <1>3, <1>4, <1>5 DEF BucketAt

\* What was spent before does not change.
LEMMA SpentBefore ==
    ASSUME Assumptions, BucketTypeOK, NEW r \in Requests, Return(r), NEW b,
           NEW i \in 1..Len(grants), NEW j \in 1..Len(grants)
    PROVE  /\ GrantsOf(b, i, j)' = GrantsOf(b, i, j)
           /\ Spent(GrantsOf(b, i, j))' = Spent(GrantsOf(b, i, j))
  <1>1. GrantsOf(b, i, j)' = GrantsOf(b, i, j)
    BY GrantsFacts, Granted DEF GrantsOf, BucketAt
  <1>2. \A k \in GrantsOf(b, i, j) : Cost[grants'[k].request] = Cost[grants[k].request]
    BY GrantsFacts, Granted
  <1>3. [k \in GrantsOf(b, i, j)' |-> Cost[grants'[k].request]]
          = [k \in GrantsOf(b, i, j) |-> Cost[grants[k].request]]
    BY <1>1, <1>2
  <1> QED BY <1>1, <1>3 DEF Spent

\* A grant adds its cost to what its bucket has granted.
LEMMA SpentAfter ==
    ASSUME Assumptions, BucketTypeOK, NEW r \in Requests, Return(r),
           NEW n \in Nat, n = Len(grants), NEW i \in 1..n, NEW b, b = BucketAt(i)
    PROVE  /\ b = BucketOf[r] =>
                  Spent(GrantsOf(b, i, n + 1))' = Spent(GrantsOf(b, i, n)) + Cost[r]
           /\ b # BucketOf[r] =>
                  Spent(GrantsOf(b, i, n + 1))' = Spent(GrantsOf(b, i, n))
  <1>1. i \in Nat /\ i <= n /\ n \in 1..Len(grants)
    OBVIOUS
  <1>2. \A k \in 1..n : BucketOf[grants'[k].request] = BucketOf[grants[k].request] /\ grants'[k] = grants[k]
    BY Granted
  <1>3. grants'[n + 1].request = r
    BY Granted
  <1> DEFINE I == GrantsOf(b, i, n)
             J == {k \in i..(n + 1) : BucketOf[grants'[k].request] = b}
             F == [k \in J |-> Cost[grants'[k].request]]
             G == [k \in I |-> Cost[grants[k].request]]
  <1>4. GrantsOf(b, i, n + 1)' = J
    BY DEF GrantsOf
  <1>5. Spent(GrantsOf(b, i, n + 1))' = SumFunction(F)
    BY <1>4 DEF Spent
  <1>6. Spent(GrantsOf(b, i, n)) = SumFunction(G)
    BY DEF Spent
  <1>7. I \subseteq 1..n /\ IsFiniteSet(I)
    BY <1>1, GrantsFacts
  <1>8. n + 1 \notin I /\ \A k \in I : k \in J /\ F[k] = G[k]
    BY <1>1, <1>2, <1>7 DEF GrantsOf
  <1>9. \A k \in J : k # n + 1 => k \in I
    BY <1>1, <1>2 DEF GrantsOf
  <1>10. CASE b = BucketOf[r]
    <2>1. J = I \cup {n + 1}
      <3>1. n + 1 \in J
        BY <1>1, <1>3, <1>10
      <3> QED BY <1>8, <1>9, <3>1
    <2>2. IsFiniteSet(J) /\ J \ {n + 1} = I
      BY <1>7, <1>8, <2>1, FS_AddElement
    <2>3. F \in [J -> Int] /\ F[n + 1] = Cost[r] /\ n + 1 \in J
      <3>1. \A k \in I : F[k] \in Int
        <4>1. \A k \in I : k \in 1..Len(grants)
          BY <1>7
        <4>2. \A k \in 1..Len(grants) : Cost[grants[k].request] \in Int
          BY GrantsFacts
        <4>3. \A k \in I : G[k] = Cost[grants[k].request]
          OBVIOUS
        <4> HIDE DEF I, F, G
        <4> QED BY <1>8, <4>1, <4>2, <4>3
      <3>2. F[n + 1] = Cost[r] /\ Cost[r] \in Int
        BY <1>3, <2>1 DEF Assumptions, CostAssumption
      <3> QED BY <2>1, <3>1, <3>2
    <2>4. DOMAIN G = I
      OBVIOUS
    <2> HIDE DEF F, G, J, I
    <2>5. SumFunction(F) = F[n + 1] + SumFunction(G)
      <3>1. DOMAIN G = J \ {n + 1} /\ \A x \in J \ {n + 1} : G[x] = F[x]
        BY <1>8, <2>2, <2>4
      <3>2. PICK k : k = n + 1
        OBVIOUS
      <3>3. k \in J /\ DOMAIN G = J \ {k} /\ \A x \in J \ {k} : G[x] = F[x]
        BY <2>3, <3>1, <3>2
      <3>4. F \in [J -> Int]
        BY <2>3
      <3>5. SumFunction(F) = F[k] + SumFunction(G)
        BY ONLY <2>2, <3>3, <3>4, SumAdds
      <3> QED BY <3>2, <3>5
    <2>6. SumFunction(G) \in Int
      BY <1>6, <1>7, SpentIsInt DEF I
    <2> QED BY <1>5, <1>6, <1>10, <2>3, <2>5, <2>6
  <1>11. CASE b # BucketOf[r]
    <2>1. J = I
      BY <1>3, <1>8, <1>9, <1>11
    <2>2. F = G
      BY <1>8, <2>1
    <2> HIDE DEF F, G
    <2> QED BY <1>5, <1>6, <1>11, <2>2
  <1> QED BY <1>10, <1>11

LEMMA SpentFirst ==
    ASSUME Assumptions, BucketTypeOK, NEW r \in Requests, Return(r),
           NEW n \in Nat, n = Len(grants)
    PROVE  Spent(GrantsOf(BucketOf[r], n + 1, n + 1))' = Cost[r]
  <1>1. grants'[n + 1].request = r
    BY Granted
  <1> PICK k : k = n + 1
    OBVIOUS
  <1> DEFINE F == [x \in {k} |-> Cost[grants'[x].request]]
             G == [x \in {} |-> 0]
  <1>2. GrantsOf(BucketOf[r], n + 1, n + 1)' = {k}
    BY <1>1 DEF GrantsOf
  <1>3. Spent(GrantsOf(BucketOf[r], n + 1, n + 1))' = SumFunction(F)
    BY <1>2 DEF Spent
  <1>4. /\ F \in [{k} -> Int] /\ F[k] = Cost[r] /\ Cost[r] \in Int /\ k \in {k}
        /\ DOMAIN G = {} /\ \A x \in {k} \ {k} : G[x] = F[x]
    BY <1>1 DEF Assumptions, CostAssumption
  <1>5. IsFiniteSet({k}) /\ {k} \ {k} = {}
    BY FS_Singleton
  <1> HIDE DEF F, G
  <1>6. SumFunction(F) = F[k] + SumFunction(G)
    <2>1. DOMAIN G = {k} \ {k}
      BY <1>4, <1>5
    <2> DEFINE D == {k}
    <2>2. /\ IsFiniteSet(D) /\ F \in [D -> Int] /\ k \in D
          /\ DOMAIN G = D \ {k} /\ \A x \in D \ {k} : G[x] = F[x]
      BY <1>4, <1>5, <2>1
    <2> HIDE DEF D
    <2> QED BY ONLY <2>2, SumAdds
  <1>7. SumFunction(G) = 0
    BY <1>4, SumOfNone
  <1> QED BY <1>3, <1>4, <1>6, <1>7

\* Buckets that no request is larger than, while nothing returns
LEMMA BurstWaits ==
    ASSUME Assumptions, BucketInv, BurstInv, BurstBound, grants' = grants,
           \A r \in Requests : wait'[r] = "repaying" => Large(r),
           \A b \in Buckets : AllFit(b) =>
               /\ tokens'[b] \in Int /\ lastUpdate'[b] \in Int
               /\ tokens'[b] >= 0 /\ tokens'[b] - lastUpdate'[b] <= tokens[b] - lastUpdate[b]
    PROVE  BurstInv' /\ BurstBound'
  <1>1. BurstBound'
    BY DEF BurstBound, GrantsOf, Spent
  <1>2. ASSUME NEW i \in 1..Len(grants'), AllFit(BucketAt(i)')
        PROVE  Spent(GrantsOf(BucketAt(i), i, Len(grants)))' + tokens'[BucketAt(i)']
                  <= MaxTokens[BucketAt(i)'] + (lastUpdate'[BucketAt(i)'] - grants'[i].time)
    <2>1. PICK b : b = BucketAt(i)
      OBVIOUS
    <2>2. i \in 1..Len(grants) /\ BucketAt(i)' = b /\ AllFit(b)
      BY <1>2, <2>1 DEF BucketAt
    <2>3. Spent(GrantsOf(BucketAt(i), i, Len(grants)))' = Spent(GrantsOf(b, i, Len(grants)))
      BY <2>1 DEF Spent, GrantsOf, BucketAt
    <2>4. Spent(GrantsOf(b, i, Len(grants))) + tokens[b]
             <= MaxTokens[b] + (lastUpdate[b] - grants[i].time)
      BY <2>1, <2>2 DEF BurstInv
    <2>5. b \in Buckets /\ grants[i].time \in Nat /\ BucketTypeOK
      BY <2>1, <2>2, GrantsFacts DEF BucketInv
    <2>6. Len(grants) \in 1..Len(grants)
      BY <2>2, <2>5, GrantsFacts
    <2>7. Spent(GrantsOf(b, i, Len(grants))) \in Int
      BY <2>2, <2>5, <2>6, GrantsFacts, SpentIsInt
    <2>8. tokens[b] \in Int /\ lastUpdate[b] \in Int /\ MaxTokens[b] \in Int
      BY <2>5 DEF BucketTypeOK, Assumptions, MaxTokensAssumption
    <2>9. tokens'[b] \in Int /\ lastUpdate'[b] \in Int
          /\ tokens'[b] - lastUpdate'[b] <= tokens[b] - lastUpdate[b]
      BY <2>2, <2>5
    <2> PICK s \in Int : s = Spent(GrantsOf(b, i, Len(grants)))
      BY <2>7
    <2> PICK m \in Int : m = MaxTokens[b]
      BY <2>8
    <2> PICK w \in Int : w = grants[i].time
      BY <2>5
    <2> PICK y \in Int : y = lastUpdate'[b]
      BY <2>9
    <2> PICK u \in Int : u = lastUpdate[b]
      BY <2>8
    <2>11. s + tokens[b] <= m + (u - w) /\ tokens'[b] - y <= tokens[b] - u
      BY <2>4, <2>9
    <2>12. s + tokens'[b] <= m + (y - w)
      <3>1. tokens[b] \in Int /\ tokens'[b] \in Int
        BY <2>8, <2>9
      <3> QED BY ONLY s \in Int, m \in Int, w \in Int, y \in Int, u \in Int, <3>1, <2>11
    <2>13. Spent(GrantsOf(b, i, Len(grants))) + tokens'[b]
             <= MaxTokens[b] + (lastUpdate'[b] - grants[i].time)
      BY <2>12
    <2> QED BY <2>2, <2>3, <2>13
  <1>3. \A b \in Buckets : AllFit(b) => tokens'[b] >= 0
    OBVIOUS
  <1> QED BY <1>1, <1>2, <1>3 DEF BurstInv, AllFit, Large

\* When a call returns.  Its bucket, if no request is larger, was charged its
\* cost at this moment.
LEMMA BurstReturns ==
    ASSUME Assumptions, BucketInv, BurstInv, BurstBound, NEW r \in Requests, Return(r),
           \A q \in Requests : wait'[q] = "repaying" => Large(q),
           \A b \in Buckets : AllFit(b) =>
               /\ tokens'[b] \in Int /\ lastUpdate'[b] \in Int /\ tokens'[b] >= 0
               /\ b # BucketOf[r] => tokens'[b] - lastUpdate'[b] <= tokens[b] - lastUpdate[b]
               /\ b = BucketOf[r] =>
                     /\ tokens'[b] + Cost[r] - lastUpdate'[b] <= tokens[b] - lastUpdate[b]
                     /\ tokens'[b] + Cost[r] <= MaxTokens[b]
                     /\ lastUpdate'[b] = now
    PROVE  BurstInv' /\ BurstBound'
  <1> DEFINE c == BucketOf[r]
  <1>0. PICK n : n = Len(grants) /\ n \in Nat
    BY GrantsFacts DEF BucketInv
  <1>1. BucketTypeOK /\ c \in Buckets /\ Cost[r] \in Nat
    BY DEF BucketInv, Assumptions, CostAssumption
  <1>2. /\ Len(grants') = n + 1 /\ n + 1 \in 1..Len(grants')
        /\ grants'[n + 1].request = r /\ grants'[n + 1].time = now
        /\ \A i \in 1..n : grants'[i] = grants[i]
        /\ now \in Nat
    BY <1>0, <1>1, Granted DEF BucketTypeOK
  <1>3. \A i \in 1..Len(grants') : i \in 1..n \/ i = n + 1
    BY <1>0, <1>2
  <1> HIDE DEF c
  <1>4. ASSUME NEW i \in 1..n, NEW b, b = BucketOf[grants[i].request], AllFit(b)
        PROVE  /\ Spent(GrantsOf(b, i, n + 1))' \in Int
               /\ Spent(GrantsOf(b, i, n + 1))' + tokens'[b]
                    <= MaxTokens[b] + (lastUpdate'[b] - grants'[i].time)
    <2>1. b \in Buckets /\ grants[i].time \in Nat /\ b = BucketAt(i) /\ i \in 1..Len(grants)
      BY <1>0, <1>1, <1>4, GrantsFacts DEF BucketAt
    <2>2. Spent(GrantsOf(b, i, n)) + tokens[b]
             <= MaxTokens[b] + (lastUpdate[b] - grants[i].time)
      BY <1>0, <1>4, <2>1 DEF BurstInv
    <2>3. n \in 1..Len(grants)
      BY <1>0, <1>4
    <2>4. Spent(GrantsOf(b, i, n)) \in Int
      BY <1>1, <2>1, <2>3, GrantsFacts, SpentIsInt
    <2>5. tokens[b] \in Int /\ lastUpdate[b] \in Int /\ MaxTokens[b] \in Int
      BY <1>1, <2>1 DEF BucketTypeOK, Assumptions, MaxTokensAssumption
    <2>6. tokens'[b] \in Int /\ lastUpdate'[b] \in Int /\ grants'[i].time = grants[i].time
      BY <1>2, <1>4, <2>1
    <2> PICK s \in Int : s = Spent(GrantsOf(b, i, n))
      BY <2>4
    <2> PICK m \in Int : m = MaxTokens[b]
      BY <2>5
    <2> PICK w \in Int : w = grants[i].time
      BY <2>1
    <2> PICK y \in Int : y = lastUpdate'[b]
      BY <2>6
    <2> PICK u \in Int : u = lastUpdate[b]
      BY <2>5
    <2>8. s + tokens[b] <= m + (u - w)
      BY <2>2
    <2>9. CASE b = c
      <3>1. Spent(GrantsOf(b, i, n + 1))' = s + Cost[r]
        BY <1>0, <1>1, <2>1, <2>9, SpentAfter DEF c
      <3>2. tokens'[b] + Cost[r] - y <= tokens[b] - u
        BY <1>4, <2>1, <2>9 DEF c
      <3>3. s + Cost[r] + tokens'[b] <= m + (y - w)
        BY <1>1, <2>5, <2>6, <2>8, <3>2
      <3> QED BY <1>1, <2>6, <3>1, <3>3
    <2>10. CASE b # c
      <3>1. Spent(GrantsOf(b, i, n + 1))' = s
        BY <1>0, <1>1, <2>1, <2>10, SpentAfter DEF c
      <3>2. tokens'[b] - y <= tokens[b] - u
        BY <1>4, <2>1, <2>10 DEF c
      <3>3. s + tokens'[b] <= m + (y - w)
        BY <2>5, <2>6, <2>8, <3>2
      <3> QED BY <1>1, <2>6, <3>1, <3>3
    <2> QED BY <2>9, <2>10
  <1>5. ASSUME AllFit(c)
        PROVE  /\ Spent(GrantsOf(c, n + 1, n + 1))' \in Int
               /\ Spent(GrantsOf(c, n + 1, n + 1))' + tokens'[c]
                    <= MaxTokens[c] + (lastUpdate'[c] - grants'[n + 1].time)
    <2>1. Spent(GrantsOf(c, n + 1, n + 1))' = Cost[r]
      BY <1>0, <1>1, SpentFirst DEF c
    <2>2. tokens'[c] \in Int /\ tokens'[c] + Cost[r] <= MaxTokens[c] /\ lastUpdate'[c] = now
      BY <1>1, <1>5 DEF c
    <2>3. MaxTokens[c] \in Int
      BY <1>1 DEF Assumptions, MaxTokensAssumption
    <2> QED BY <1>1, <1>2, <2>1, <2>2, <2>3
  <1>6. ASSUME NEW i \in 1..Len(grants'), NEW b, b = BucketOf[grants'[i].request], AllFit(b)
        PROVE  /\ b \in Buckets /\ grants'[i].time \in Nat
               /\ Spent(GrantsOf(b, i, n + 1))' \in Int
               /\ Spent(GrantsOf(b, i, n + 1))' + tokens'[b]
                    <= MaxTokens[b] + (lastUpdate'[b] - grants'[i].time)
    <2>1. CASE i \in 1..n
      <3>1. b = BucketOf[grants[i].request] /\ grants'[i] = grants[i]
        BY <1>2, <1>6, <2>1
      <3> QED BY <1>0, <1>1, <1>4, <1>6, <2>1, <3>1, GrantsFacts DEF BucketAt
    <2>2. CASE i = n + 1
      <3>1. b = c /\ grants'[i].time = now
        BY <1>2, <1>6, <2>2 DEF c
      <3> QED BY <1>1, <1>2, <1>5, <1>6, <2>2, <3>1
    <2> QED BY <1>3, <2>1, <2>2
  <1>7. BurstInv'
    <2>1. \A i \in 1..Len(grants') : AllFit(BucketAt(i)') =>
              Spent(GrantsOf(BucketAt(i), i, Len(grants)))' + tokens'[BucketAt(i)']
                 <= MaxTokens[BucketAt(i)'] + (lastUpdate'[BucketAt(i)'] - grants'[i].time)
      <3> SUFFICES ASSUME NEW i \in 1..Len(grants'), AllFit(BucketAt(i)')
                   PROVE  Spent(GrantsOf(BucketAt(i), i, Len(grants)))' + tokens'[BucketAt(i)']
                            <= MaxTokens[BucketAt(i)'] + (lastUpdate'[BucketAt(i)'] - grants'[i].time)
        OBVIOUS
      <3>1. PICK b : b = BucketAt(i)'
        OBVIOUS
      <3>2. b = BucketOf[grants'[i].request] /\ AllFit(b)
        BY <3>1 DEF BucketAt
      <3>3. Spent(GrantsOf(BucketAt(i), i, Len(grants)))' = Spent(GrantsOf(b, i, n + 1))'
        BY <1>2, <3>1 DEF Spent, GrantsOf
      <3> QED BY <1>6, <3>1, <3>2, <3>3
    <2> QED BY <2>1 DEF BurstInv, AllFit, Large
  <1>8. BurstBound'
    <2> SUFFICES ASSUME NEW i \in 1..Len(grants'), NEW j \in 1..Len(grants'),
                        NEW b, b = BucketOf[grants'[i].request],
                        i <= j, BucketOf[grants'[j].request] = b, AllFit(b)
                 PROVE  Spent(GrantsOf(b, i, j))' <= MaxTokens[b] + (grants'[j].time - grants'[i].time)
      BY DEF BurstBound, AllFit
    <2>1. CASE j \in 1..n
      <3>1. i \in 1..n
        BY <1>0, <1>3, <2>1
      <3>2. grants'[i] = grants[i] /\ grants'[j] = grants[j] /\ i \in 1..Len(grants) /\ j \in 1..Len(grants)
        BY <1>0, <1>2, <2>1, <3>1
      <3>3. Spent(GrantsOf(b, i, j)) <= MaxTokens[b] + (grants[j].time - grants[i].time)
        BY <3>2 DEF BurstBound, AllFit
      <3>4. Spent(GrantsOf(b, i, j))' = Spent(GrantsOf(b, i, j))
        BY <1>1, <3>2, SpentBefore
      <3> QED BY <3>2, <3>3, <3>4
    <2>2. CASE j = n + 1
      <3>1. b = c /\ grants'[j].time = now
        BY <1>2, <2>2 DEF c
      <3>2. /\ tokens'[b] \in Int /\ tokens'[b] >= 0 /\ lastUpdate'[b] = now
        BY <1>1, <3>1 DEF c
      <3>3. /\ Spent(GrantsOf(b, i, n + 1))' + tokens'[b] <= MaxTokens[b] + (now - grants'[i].time)
            /\ grants'[i].time \in Nat /\ Spent(GrantsOf(b, i, n + 1))' \in Int
        BY <1>6, <3>2
      <3>4. MaxTokens[b] \in Int
        BY <1>1, <3>1 DEF Assumptions, MaxTokensAssumption
      <3> QED BY <1>2, <2>2, <3>1, <3>2, <3>3, <3>4
    <2> QED BY <1>3, <2>1, <2>2
  <1> QED BY <1>7, <1>8

LEMMA AcquireBursts ==
    ASSUME Assumptions, BucketInv, BurstInv, BurstBound, NEW r \in Requests, Acquire(r)
    PROVE  BurstInv' /\ BurstBound'
  <1> DEFINE c == BucketOf[r]
  <1>1. c \in Buckets /\ Cost[r] \in Nat /\ BucketTypeOK /\ Accounts
    BY DEF BucketInv, Assumptions, CostAssumption
  <1>2. Charge(c, Cost[r]) /\ Return(r) /\ now' = now /\ Refilled(c) >= Cost[r]
    BY DEF Acquire
  <1>3. /\ Refilled(c) \in Int /\ Refilled(c) <= MaxTokens[c]
        /\ Refilled(c) <= tokens[c] + (now - lastUpdate[c])
    BY <1>1, RefilledFacts
  <1>4. /\ tokens' \in [Buckets -> Int] /\ lastUpdate' \in [Buckets -> Nat]
        /\ tokens'[c] = Refilled(c) - Cost[r] /\ lastUpdate'[c] = now
        /\ \A b \in Buckets \ {c} : tokens'[b] = tokens[b] /\ lastUpdate'[b] = lastUpdate[b]
    BY <1>1, <1>2, ChargeKeeps
  <1>5. \A q \in Requests : wait'[q] = "repaying" => Large(q)
    BY <1>1, <1>2 DEF BurstInv, Return, BucketTypeOK
  <1> HIDE DEF c
  <1>6. /\ tokens'[c] >= 0 /\ tokens'[c] + Cost[r] <= MaxTokens[c]
        /\ tokens'[c] + Cost[r] - lastUpdate'[c] <= tokens[c] - lastUpdate[c]
    <2>1. tokens[c] \in Int /\ lastUpdate[c] \in Int /\ now \in Int /\ MaxTokens[c] \in Int
      BY <1>1 DEF BucketTypeOK, Assumptions, MaxTokensAssumption
    <2> QED BY <1>1, <1>2, <1>3, <1>4, <2>1
  <1>7. ASSUME NEW b \in Buckets, AllFit(b)
        PROVE  /\ tokens'[b] \in Int /\ lastUpdate'[b] \in Int /\ tokens'[b] >= 0
               /\ b # c => tokens'[b] - lastUpdate'[b] <= tokens[b] - lastUpdate[b]
    <2>1. tokens[b] \in Int /\ lastUpdate[b] \in Int /\ tokens[b] >= 0
      BY <1>1, <1>7 DEF BucketTypeOK, BurstInv
    <2> QED BY <1>4, <1>6, <2>1
  <1> QED BY <1>1, <1>2, <1>4, <1>5, <1>6, <1>7, BurstReturns DEF c

\* A sleeping or repaying call takes what has flowed in into the books, and
\* only a call larger than its bucket takes more than there is.
LEMMA WaitBursts ==
    ASSUME Assumptions, BucketInv, BurstInv, BurstBound, NEW r \in Requests, Sleep(r) \/ Borrow(r)
    PROVE  BurstInv' /\ BurstBound'
  <1> DEFINE c == BucketOf[r]
  <1>1. c \in Buckets /\ Cost[r] \in Nat /\ BucketTypeOK /\ Accounts
    BY DEF BucketInv, Assumptions, CostAssumption
  <1>2. grants' = grants /\ now' = now
    BY DEF Sleep, Borrow
  <1>3. \A q \in Requests : wait'[q] = "repaying" => Large(q)
    BY <1>1 DEF BurstInv, Sleep, Borrow, SleepUntil, BucketTypeOK
  <1>4. PICK n \in Nat : Charge(c, n) /\ (AllFit(c) => n = 0)
    BY <1>1 DEF Sleep, Borrow, AllFit
  <1>5. /\ Refilled(c) \in Int
        /\ Refilled(c) <= tokens[c] + (now - lastUpdate[c])
        /\ Refilled(c) < 0 => Refilled(c) = tokens[c] + (now - lastUpdate[c])
    BY <1>1, RefilledFacts
  <1>6. /\ tokens' \in [Buckets -> Int] /\ lastUpdate' \in [Buckets -> Nat]
        /\ tokens'[c] = Refilled(c) - n /\ lastUpdate'[c] = now
        /\ \A b \in Buckets \ {c} : tokens'[b] = tokens[b] /\ lastUpdate'[b] = lastUpdate[b]
    BY <1>1, <1>2, <1>4, ChargeKeeps
  <1> HIDE DEF c
  <1>7. ASSUME NEW b \in Buckets, AllFit(b)
        PROVE  /\ tokens'[b] \in Int /\ lastUpdate'[b] \in Int /\ tokens'[b] >= 0
               /\ tokens'[b] - lastUpdate'[b] <= tokens[b] - lastUpdate[b]
    <2>1. tokens[b] \in Int /\ lastUpdate[b] \in Int /\ tokens[b] >= 0
      BY <1>1, <1>7 DEF BucketTypeOK, BurstInv
    <2>2. CASE b = c
      <3>1. tokens'[b] = Refilled(c) - 0 /\ lastUpdate'[b] = now
        BY <1>4, <1>6, <1>7, <2>2
      <3>2. now \in Int /\ lastUpdate[b] <= now
        BY <1>1 DEF BucketTypeOK, Accounts
      <3> QED BY <1>5, <2>1, <2>2, <3>1, <3>2
    <2> QED BY <1>6, <2>1, <2>2
  <1> QED BY <1>2, <1>3, <1>7, BurstWaits

LEMMA RepaidBursts ==
    ASSUME Assumptions, BucketInv, BurstInv, BurstBound, NEW r \in Requests, Repaid(r)
    PROVE  BurstInv' /\ BurstBound'
  <1>1. /\ Return(r) /\ wait[r] = "repaying" /\ tokens' = tokens /\ lastUpdate' = lastUpdate
    BY DEF Repaid
  <1>2. ~AllFit(BucketOf[r])
    BY <1>1 DEF BurstInv, AllFit
  <1>3. \A q \in Requests : wait'[q] = "repaying" => Large(q)
    BY <1>1 DEF BurstInv, Return, BucketInv, BucketTypeOK
  <1>4. \A b \in Buckets : AllFit(b) =>
            /\ tokens[b] \in Int /\ lastUpdate[b] \in Int /\ tokens[b] >= 0 /\ b # BucketOf[r]
    BY <1>2 DEF BurstInv, BucketInv, BucketTypeOK
  <1> QED BY <1>1, <1>3, <1>4, BurstReturns

LEMMA RestBursts ==
    ASSUME Assumptions, BucketInv, BurstInv, BurstBound,
           Tick \/ UNCHANGED bucketVars
    PROVE  BurstInv' /\ BurstBound'
  <1>1. UNCHANGED <<tokens, lastUpdate, wait, grants>>
    BY DEF Tick, bucketVars
  <1>2. \A b \in Buckets : AllFit(b) =>
            tokens[b] \in Int /\ lastUpdate[b] \in Int /\ tokens[b] >= 0
    BY DEF BurstInv, BucketInv, BucketTypeOK
  <1> QED BY <1>1, <1>2, BurstWaits DEF BurstInv

LEMMA InitBursts == Assumptions /\ BucketInit => BurstInv /\ BurstBound
  <1> SUFFICES ASSUME Assumptions, BucketInit PROVE BurstInv /\ BurstBound
    OBVIOUS
  <1>1. Len(grants) = 0
    BY DEF BucketInit
  <1>2. \A b \in Buckets : tokens[b] >= 0
    BY DEF BucketInit, Assumptions, MaxTokensAssumption
  <1>3. \A r \in Requests : wait[r] # "repaying"
    BY DEF BucketInit
  <1> QED BY <1>1, <1>2, <1>3 DEF BurstInv, BurstBound

LEMMA PassBursts ==
    ASSUME Assumptions, BucketInv, BurstInv, BurstBound, NEW r \in Requests, Pass(r)
    PROVE  BurstInv' /\ BurstBound'
  BY AcquireBursts, WaitBursts, RepaidBursts DEF Pass

LEMMA NextBursts ==
    Assumptions /\ BucketInv /\ BurstInv /\ BurstBound /\ [BucketNext]_bucketVars
        => BurstInv' /\ BurstBound'
  BY PassBursts, RestBursts DEF BucketNext

\* No bucket lets a burst through that is larger than a full bucket and what
\* flows in meanwhile, whatever calls sleep and whenever they wake up.
THEOREM BurstsAreBounded == BucketSpec => []BurstBound
  <1>1. Assumptions
    BY MaxTokensAssumption, CostAssumption DEF Assumptions
  <1> QED BY <1>1, InitBucketInv, InitBursts, BucketInvHolds, NextBursts, PTL DEF BucketSpec

LEMMA NextLimiterBursts ==
    Assumptions /\ BucketInv /\ BurstInv /\ BurstBound /\ [LimiterNext]_vars
        => BurstInv' /\ BurstBound'
  <1> SUFFICES ASSUME Assumptions, BucketInv, BurstInv, BurstBound, [LimiterNext]_vars
               PROVE  BurstInv' /\ BurstBound'
    OBVIOUS
  <1>1. ASSUME NEW s \in Samples, NEW k \in Limits, TakeTokens(s, k)
        PROVE  BurstInv' /\ BurstBound'
    <2>1. Pass(<<s, k>>) /\ <<s, k>> \in Requests
      BY <1>1, LimitsAssumption DEF TakeTokens, LimitsAssumption
    <2> QED BY <2>1, PassBursts
  <1>2. \/ \E s \in Samples, k \in Limits : TakeTokens(s, k)
        \/ Tick \/ UNCHANGED bucketVars
    BY DEF LimiterNext, RunSingle, Step, DecodeEnds, EnterSemaphore, TimesOut, CallEnds, StartJob,
           LimiterTick, vars
  <1> QED BY <1>1, <1>2, RestBursts

\* The same behind the pipeline of run_single.
THEOREM LimiterBoundsBursts == LimiterSpec => []BurstBound
  <1>1. Assumptions
    BY MaxTokensAssumption, CostAssumption DEF Assumptions
  <1>2. Assumptions /\ LimiterInit => BucketInv /\ BurstInv /\ BurstBound
    BY InitBucketInv, InitBursts DEF LimiterInit
  <1>3. LimiterSpec => []BucketInv
    BY <1>1, <1>2, NextLimiterBuckets, PTL DEF LimiterSpec
  <1> QED BY <1>1, <1>2, <1>3, NextLimiterBursts, PTL DEF LimiterSpec
=============================================================================
