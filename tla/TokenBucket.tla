----------------------------- MODULE TokenBucket -----------------------------
(***************************************************************************)
(* AsyncTokenBucket (experimental/reward_loop/reward_manager/limited.py):  *)
(* acquire(n) takes n tokens from a bucket that refills at a constant      *)
(* rate, and sleeps while there are too few.  A request for more than the  *)
(* bucket can hold is charged at once, leaves the bucket overdrawn and     *)
(* sleeps until its debt is repaid.                                        *)
(*                                                                         *)
(* Time is discrete and a token is what flows in during one tick, so that  *)
(* the rate is 1.  The lock of a bucket is never held across a suspension: *)
(* each pass through it is one action.  A sleeper wakes at most Lateness   *)
(* ticks after its time.  Floating point rounding is left out.             *)
(***************************************************************************)
EXTENDS Integers, Sequences, FiniteSets, Functions

CONSTANTS
    Buckets,      \* the buckets
    Requests,     \* the calls of acquire
    MaxTokens,    \* max_tokens of each bucket
    BucketOf,     \* the bucket of each call
    Cost,         \* num_tokens of each call
    LastArrival,  \* bound on the time of the last new call
    MaxTime,      \* bound on the clock
    Lateness      \* bound on how late a sleeper wakes

ASSUME MaxTokensAssumption == MaxTokens \in [Buckets -> Nat \ {0}]
ASSUME CostAssumption == /\ BucketOf \in [Requests -> Buckets]
                         /\ Cost \in [Requests -> Nat \ {0}]
ASSUME TimeAssumption == {LastArrival, MaxTime, Lateness} \subseteq Nat

VARIABLES
    now,         \* loop.time()
    tokens,      \* self.tokens
    lastUpdate,  \* self.last_update; while it is None the bucket is full
    wait,        \* where each call stands in acquire
    due,         \* when its sleep is over
    charged,     \* the tokens taken from each bucket so far
    grants       \* the calls that have returned, in order

bucketVars == <<now, tokens, lastUpdate, wait, due, charged, grants>>

BucketInit ==
    /\ now = 0
    /\ tokens = MaxTokens
    /\ lastUpdate = [b \in Buckets |-> 0]
    /\ wait = [r \in Requests |-> "idle"]
    /\ due = [r \in Requests |-> 0]
    /\ charged = [b \in Buckets |-> 0]
    /\ grants = <<>>

-----------------------------------------------------------------------------
\* Mutant of Refilled: the refill is not capped.
RefilledUncapped(b) == tokens[b] + (now - lastUpdate[b])

Refilled(b) ==
    LET flowed == tokens[b] + (now - lastUpdate[b])
    IN  IF flowed <= MaxTokens[b] THEN flowed ELSE MaxTokens[b]

Charge(b, n) ==
    /\ tokens' = [tokens EXCEPT ![b] = Refilled(b) - n]
    /\ charged' = [charged EXCEPT ![b] = @ + n]
    /\ lastUpdate' = [lastUpdate EXCEPT ![b] = now]

Return(r) ==
    /\ wait' = [wait EXCEPT ![r] = "granted"]
    /\ grants' = Append(grants, [request |-> r, time |-> now])

SleepUntil(r, kind, time) ==
    /\ wait' = [wait EXCEPT ![r] = kind]
    /\ due' = [due EXCEPT ![r] = time]

Large(r) == Cost[r] > MaxTokens[BucketOf[r]]

\* The call passes through the lock, for the first time or after a sleep.
AtBucket(r) == wait[r] = "idle" \/ (wait[r] = "sleeping" /\ due[r] <= now)

\* There are enough tokens.
Acquire(r) ==
    /\ AtBucket(r) /\ ~Large(r)
    /\ Refilled(BucketOf[r]) >= Cost[r]
    /\ Charge(BucketOf[r], Cost[r])
    /\ Return(r)
    /\ UNCHANGED <<now, due>>

\* There are too few: the refill is booked and the call sleeps.
Sleep(r) ==
    LET b == BucketOf[r]
    IN  /\ AtBucket(r) /\ ~Large(r)
        /\ Refilled(b) < Cost[r]
        /\ Charge(b, 0)
        /\ SleepUntil(r, "sleeping", now + (Cost[r] - Refilled(b)))
        /\ UNCHANGED <<now, grants>>

\* Mutant of Borrow: the call sleeps as if the bucket were not yet overdrawn.
BorrowAlone(r) ==
    LET b == BucketOf[r]
    IN  /\ wait[r] = "idle" /\ Large(r)
        /\ Charge(b, Cost[r])
        /\ SleepUntil(r, "repaying", now + (Cost[r] - MaxTokens[b]))
        /\ UNCHANGED <<now, grants>>

\* More than the bucket can hold: charged now, returned once it is repaid.
Borrow(r) ==
    LET b == BucketOf[r]
    IN  /\ wait[r] = "idle" /\ Large(r)
        /\ Charge(b, Cost[r])
        /\ SleepUntil(r, "repaying", now + (Cost[r] - Refilled(b)))
        /\ UNCHANGED <<now, grants>>

Repaid(r) ==
    /\ wait[r] = "repaying" /\ due[r] <= now
    /\ Return(r)
    /\ UNCHANGED <<now, tokens, lastUpdate, due, charged>>

Asleep(r) == wait[r] \in {"sleeping", "repaying"}

Pass(r) == Acquire(r) \/ Sleep(r) \/ Borrow(r) \/ Repaid(r)

\* No sleeper is more than Lateness ticks overdue.
Tick ==
    /\ now < MaxTime
    /\ \A r \in Requests : Asleep(r) => now < due[r] + Lateness
    /\ now' = now + 1
    /\ UNCHANGED <<tokens, lastUpdate, wait, due, charged, grants>>

-----------------------------------------------------------------------------
\* The buckets by themselves: a call arrives at any time up to LastArrival.
BucketNext ==
    \/ \E r \in Requests : (wait[r] = "idle" => now <= LastArrival) /\ Pass(r)
    \/ Tick

BucketSpec == BucketInit /\ [][BucketNext]_bucketVars

-----------------------------------------------------------------------------
GrantsOf(b, i, j) == {k \in i..j : BucketOf[grants[k].request] = b}
Spent(I) == SumFunction([i \in I |-> Cost[grants[i].request]])

\* The types of the state; a bucket never holds more than max_tokens.
BucketTypeOK ==
    /\ now \in Nat
    /\ tokens \in [Buckets -> Int] /\ \A b \in Buckets : tokens[b] <= MaxTokens[b]
    /\ lastUpdate \in [Buckets -> Nat]
    /\ wait \in [Requests -> {"idle", "sleeping", "repaying", "granted"}]
    /\ due \in [Requests -> Int]
    /\ charged \in [Buckets -> Nat]
    /\ grants \in Seq([request : Requests, time : Nat])

\* The books balance: what has been charged and what is left never exceed what
\* the bucket started with and what has flowed in since.
Accounts ==
    \A b \in Buckets :
        /\ lastUpdate[b] <= now
        /\ charged[b] + tokens[b] <= MaxTokens[b] + lastUpdate[b]

Repaying(b) == {r \in Requests : BucketOf[r] = b /\ wait[r] = "repaying"}

\* The average rate, however small and overdrawing requests, sleeps and late
\* wakeups interleave: whenever every call a bucket was charged for has
\* returned, the bucket has been paid for all of them.
AverageRate ==
    \A b \in Buckets : Repaying(b) = {} => charged[b] <= MaxTokens[b] + now

\* A bucket is overdrawn only while a call sleeps long enough to repay the
\* debt, or the debt has been repaid and is not yet booked.
DebtCovered ==
    \A b \in Buckets :
        tokens[b] < 0 =>
            LET repaidAt == lastUpdate[b] - tokens[b]
            IN  repaidAt <= now \/ \E r \in Repaying(b) : due[r] >= repaidAt

\* In every stretch of time a bucket grants no more than a full bucket and
\* what flows in meanwhile, if no request is larger than the bucket.
BurstBound ==
    \A i, j \in 1..Len(grants) :
        LET b == BucketOf[grants[i].request]
        IN  /\ i <= j /\ BucketOf[grants[j].request] = b
            /\ \A r \in Requests : BucketOf[r] = b => ~Large(r)
            =>
                Spent(GrantsOf(b, i, j)) <= MaxTokens[b] + (grants[j].time - grants[i].time)

=============================================================================
