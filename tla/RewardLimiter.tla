---------------------------- MODULE RewardLimiter ----------------------------
(***************************************************************************)
(* RateLimitedRewardManager.run_single (experimental/reward_loop/          *)
(* reward_manager/limited.py) in the reward loop workers: a sample is      *)
(* decoded in the executor, takes its RPM and TPM tokens, takes the        *)
(* semaphore and calls the scorer under a timeout.                         *)
(*                                                                         *)
(* The limiters are class attributes and every worker is a process of its  *)
(* own (reward_loop.py), so that each worker has its buckets, semaphore    *)
(* and executor.  A scorer is a coroutine, or a function that runs in the  *)
(* executor too.  A coroutine that is ready runs within the tick, and so   *)
(* does decoding; a scorer takes any time or hangs.  The clock stands      *)
(* still while nobody waits for it.                                        *)
(***************************************************************************)
EXTENDS TokenBucket

CONSTANTS
    Samples,        \* the samples to score
    WorkerOf,       \* the reward loop worker of each
    Limits,         \* the limiters configured: "rpm", "tpm", both or none
    MaxConcurrent,  \* max_concurrent
    Timeout,        \* timeout
    Threads         \* max_workers of the default executor

ASSUME LimitsAssumption ==
    /\ Limits \subseteq {"rpm", "tpm"}
    /\ Requests = Samples \X Limits
    /\ \A s \in Samples, k \in Limits : BucketOf[<<s, k>>] = <<WorkerOf[s], k>>
ASSUME PoolAssumption == {MaxConcurrent, Timeout, Threads} \subseteq Nat \ {0}

VARIABLES
    isAsync,   \* is_async_reward_score
    stage,     \* where run_single is
    deadline,  \* when wait_for gives up
    call,      \* the scorer's call: "none", "queued", "active", "ended"
    jobs,      \* the queue of each worker's executor
    threads,   \* the jobs its threads run
    starts     \* the calls made, in order

limiterVars == <<isAsync, stage, deadline, call, jobs, threads, starts>>
vars == <<bucketVars, limiterVars>>

Workers == {WorkerOf[s] : s \in Samples}

LimiterInit ==
    /\ BucketInit
    /\ isAsync \in BOOLEAN
    /\ stage = [s \in Samples |-> "new"]
    /\ deadline = [s \in Samples |-> 0]
    /\ call = [s \in Samples |-> "none"]
    /\ jobs = [w \in Workers |-> <<>>]
    /\ threads = {}
    /\ starts = <<>>

-----------------------------------------------------------------------------
Enqueue(s, kind) ==
    jobs' = [jobs EXCEPT ![WorkerOf[s]] = Append(@, [sample |-> s, kind |-> kind])]

Called(s) ==
    /\ call' = [call EXCEPT ![s] = "active"]
    /\ starts' = Append(starts, [sample |-> s, time |-> now])

ThreadFree(w) == Cardinality({j \in threads : WorkerOf[j.sample] = w}) < Threads

RunSingle(s) ==
    /\ stage[s] = "new" /\ now <= LastArrival
    /\ stage' = [stage EXCEPT ![s] = "decoding"]
    /\ Enqueue(s, "decode")
    /\ UNCHANGED <<bucketVars, isAsync, deadline, call, threads, starts>>

\* A free thread takes the oldest job.
StartJob(w) ==
    /\ jobs[w] # <<>> /\ ThreadFree(w)
    /\ jobs' = [jobs EXCEPT ![w] = Tail(@)]
    /\ threads' = threads \cup {Head(jobs[w])}
    /\ IF Head(jobs[w]).kind = "score" THEN Called(Head(jobs[w]).sample)
                                       ELSE UNCHANGED <<call, starts>>
    /\ UNCHANGED <<bucketVars, isAsync, stage, deadline>>

DecodeEnds(s) ==
    /\ [sample |-> s, kind |-> "decode"] \in threads
    /\ threads' = threads \ {[sample |-> s, kind |-> "decode"]}
    /\ stage' = [stage EXCEPT ![s] = "limited"]
    /\ UNCHANGED <<bucketVars, isAsync, deadline, call, jobs, starts>>

\* The request token first, then the estimated tokens.
NextLimit(s, k) ==
    /\ stage[s] = "limited" /\ k \in Limits
    /\ k = "tpm" /\ "rpm" \in Limits => wait[<<s, "rpm">>] = "granted"

TakeTokens(s, k) ==
    /\ NextLimit(s, k)
    /\ Pass(<<s, k>>)
    /\ UNCHANGED limiterVars

AllGranted(s) == stage[s] = "limited" /\ \A k \in Limits : wait[<<s, k>>] = "granted"

\* Mutant of SemaphoreFree: one semaphore more than there should be.
SemaphoreOneMore(w) ==
    Cardinality({s \in Samples : WorkerOf[s] = w /\ stage[s] = "calling"}) <= MaxConcurrent

SemaphoreFree(w) ==
    Cardinality({s \in Samples : WorkerOf[s] = w /\ stage[s] = "calling"}) < MaxConcurrent

\* The semaphore is taken and the scorer called, or handed to the executor.
EnterSemaphore(s) ==
    /\ AllGranted(s) /\ SemaphoreFree(WorkerOf[s])
    /\ stage' = [stage EXCEPT ![s] = "calling"]
    /\ deadline' = [deadline EXCEPT ![s] = now + Timeout]
    /\ IF isAsync
       THEN Called(s) /\ UNCHANGED jobs
       ELSE /\ Enqueue(s, "score")
            /\ call' = [call EXCEPT ![s] = "queued"]
            /\ UNCHANGED starts
    /\ UNCHANGED <<bucketVars, isAsync, threads>>

\* The scorer returns or raises; nobody may be waiting for it any more.
CallEnds(s) ==
    /\ call[s] = "active"
    /\ call' = [call EXCEPT ![s] = "ended"]
    /\ stage' = [stage EXCEPT ![s] = "answered"]
    /\ threads' = threads \ {[sample |-> s, kind |-> "score"]}
    /\ UNCHANGED <<bucketVars, isAsync, deadline, jobs, starts>>

\* Mutant of TimesOut: the scorer is awaited without wait_for.
TimesOutNever(s) == FALSE /\ UNCHANGED vars

\* wait_for cancels a coroutine, and a job no thread has taken; a job that
\* runs in a thread goes on.
TimesOut(s) ==
    /\ stage[s] = "calling" /\ now >= deadline[s]
    /\ stage' = [stage EXCEPT ![s] = "answered"]
    /\ call' = [call EXCEPT ![s] = IF isAsync \/ @ = "queued" THEN "ended" ELSE @]
    /\ IF isAsync THEN UNCHANGED jobs
                  ELSE jobs' = [jobs EXCEPT ![WorkerOf[s]] = SelectSeq(@, LAMBDA j : j.sample # s)]
    /\ UNCHANGED <<bucketVars, isAsync, deadline, threads, starts>>

\* What is ready runs before the clock moves on.
Ready ==
    \/ \E w \in Workers : jobs[w] # <<>> /\ ThreadFree(w)
    \/ \E j \in threads : j.kind = "decode"
    \/ \E s \in Samples, k \in Limits : NextLimit(s, k) /\ wait[<<s, k>>] = "idle"
    \/ \E s \in Samples : AllGranted(s) /\ SemaphoreFree(WorkerOf[s])

\* Somebody waits for a time to come, or may still arrive.
TimerPending ==
    \/ now < LastArrival
    \/ \E r \in Requests : Asleep(r)
    \/ \E s \in Samples : stage[s] = "calling"

LimiterTick ==
    /\ ~Ready /\ TimerPending
    /\ \A s \in Samples : stage[s] = "calling" => now < deadline[s] + Lateness
    /\ Tick
    /\ UNCHANGED limiterVars

Step(s) ==
    \/ DecodeEnds(s) \/ (\E k \in Limits : TakeTokens(s, k))
    \/ EnterSemaphore(s) \/ TimesOut(s)

LimiterNext ==
    \/ \E s \in Samples : RunSingle(s) \/ Step(s) \/ CallEnds(s)
    \/ \E w \in Workers : StartJob(w)
    \/ LimiterTick

LimiterSpec == LimiterInit /\ [][LimiterNext]_vars

\* The event loop and the threads run what is ready, and time goes by.  Of the
\* scorers nothing is assumed: any of them may hang, in a thread too.
LimiterFairSpec ==
    /\ LimiterSpec
    /\ WF_vars(LimiterTick)
    /\ \A s \in Samples : WF_vars(Step(s))
    /\ \A w \in Workers : WF_vars(StartJob(w))

-----------------------------------------------------------------------------
ActiveCalls(w) == {s \in Samples : WorkerOf[s] = w /\ call[s] = "active"}

\* A worker never has more than max_concurrent calls at the API, whichever of
\* its samples have timed out, if the scorer is a coroutine.
AsyncConcurrencyLimit ==
    isAsync => \A w \in Workers : Cardinality(ActiveCalls(w)) <= MaxConcurrent

\* The scorers that run in the worker's threads although their samples are
\* answered: they have timed out, and no thread is left beside them.
Exhausted(w) ==
    Cardinality({s \in Samples :
        /\ WorkerOf[s] = w /\ stage[s] = "answered"
        /\ [sample |-> s, kind |-> "score"] \in threads}) = Threads

\* Scorers may hang.  A sample that is decoded is answered all the same, and one
\* that waits to be decoded is, unless from some time on every thread of its
\* worker is held by a scorer that has timed out.
Answered ==
    \A s \in Samples :
        /\ stage[s] = "limited" ~> stage[s] = "answered"
        /\ stage[s] = "decoding" ~> (stage[s] = "answered" \/ []Exhausted(WorkerOf[s]))
=============================================================================
