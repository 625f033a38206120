---------------------------- MODULE MessageQueue ----------------------------
(***************************************************************************)
(* The Ray actor between the rollouter and the trainer,                    *)
(* experimental/fully_async_policy/message_queue.py: a bounded queue that  *)
(* drops its OLDEST sample when it is full, a condition on which consumers *)
(* wait while it is empty, and a second queue for validation results.      *)
(*                                                                         *)
(* Every method runs under one asyncio.Lock and suspends only in           *)
(* condition.wait(), so each call is one action, and get_sample is split   *)
(* at that wait.  What a call returns is read off the action by the module *)
(* that calls it: Head(queue) in Take, None in GetClosed.                  *)
(***************************************************************************)
EXTENDS Naturals, Sequences

CONSTANTS
    Items,          \* the values put_sample is given
    Consumers,      \* the concurrent callers of get_sample
    MaxQueueSize,   \* max_queue_size
    MaxPuts,        \* bound on the calls of put_sample in MQNext
    MaxVersion      \* bound on parameter versions and validations in MQNext

ASSUME MaxQueueSizeAssumption == MaxQueueSize \in Nat \ {0}
ASSUME BoundsAssumption == MaxPuts \in Nat /\ MaxVersion \in Nat

VARIABLES
    queue,           \* self.queue
    valQueue,        \* self.val_queue
    mqRunning,       \* self.running
    mqVersion,       \* self.current_param_version
    totalProduced,   \* self.total_produced
    totalConsumed,   \* self.total_consumed
    droppedSamples,  \* self.dropped_samples
    getState         \* where each consumer stands in get_sample

mqCounters == <<totalProduced, totalConsumed, droppedSamples>>
mqVars == <<queue, valQueue, mqRunning, mqVersion, mqCounters, getState>>

MQInit ==
    /\ queue = <<>>
    /\ valQueue = <<>>
    /\ mqRunning = TRUE
    /\ mqVersion = 0
    /\ totalProduced = 0
    /\ totalConsumed = 0
    /\ droppedSamples = 0
    /\ getState = [c \in Consumers |-> "out"]

-----------------------------------------------------------------------------
\* Mutant of NotifyAll: condition.notify() wakes one consumer instead of all.
NotifyOne ==
    IF \E c \in Consumers : getState[c] = "waiting"
      THEN \E c \in Consumers : getState[c] = "waiting" /\ getState' = [getState EXCEPT ![c] = "woken"]
      ELSE UNCHANGED getState

NotifyAll ==
    getState' = [c \in Consumers |->
                    IF getState[c] = "waiting" THEN "woken" ELSE getState[c]]

QueueFull == Len(queue) >= MaxQueueSize

\* Mutants of PutSample: the new sample is dropped; a drop is not counted.
PutSampleDropNew(item) ==
    /\ queue' = IF QueueFull THEN queue ELSE Append(queue, item)
    /\ droppedSamples' = IF QueueFull THEN droppedSamples + 1 ELSE droppedSamples
    /\ totalProduced' = totalProduced + 1
    /\ NotifyAll
    /\ UNCHANGED <<valQueue, mqRunning, mqVersion, totalConsumed>>

PutSampleUncounted(item) ==
    /\ queue' = Append(IF QueueFull THEN Tail(queue) ELSE queue, item)
    /\ totalProduced' = totalProduced + 1
    /\ NotifyAll
    /\ UNCHANGED <<valQueue, mqRunning, mqVersion, totalConsumed, droppedSamples>>

\* put_sample: a full queue loses its oldest sample, the new one always enters.
PutSample(item) ==
    /\ queue' = Append(IF QueueFull THEN Tail(queue) ELSE queue, item)
    /\ droppedSamples' = IF QueueFull THEN droppedSamples + 1 ELSE droppedSamples
    /\ totalProduced' = totalProduced + 1
    /\ NotifyAll
    /\ UNCHANGED <<valQueue, mqRunning, mqVersion, totalConsumed>>

\* A consumer holds the lock: it has just called get_sample, or it was woken.
AtQueue(c) == getState[c] \in {"out", "woken"}

\* Mutant of Take: the sample is read and left in the queue.
TakePeek(c) ==
    /\ AtQueue(c)
    /\ queue # <<>>
    /\ totalConsumed' = totalConsumed + 1
    /\ getState' = [getState EXCEPT ![c] = "out"]
    /\ UNCHANGED <<queue, valQueue, mqRunning, mqVersion, totalProduced, droppedSamples>>

\* get_sample finds a sample and returns it with the queue length.
Take(c) ==
    /\ AtQueue(c)
    /\ queue # <<>>
    /\ queue' = Tail(queue)
    /\ totalConsumed' = totalConsumed + 1
    /\ getState' = [getState EXCEPT ![c] = "out"]
    /\ UNCHANGED <<valQueue, mqRunning, mqVersion, totalProduced, droppedSamples>>

\* get_sample finds the queue empty and closed and returns None.
GetClosed(c) ==
    /\ AtQueue(c)
    /\ queue = <<>>
    /\ ~mqRunning
    /\ getState' = [getState EXCEPT ![c] = "out"]
    /\ UNCHANGED <<queue, valQueue, mqRunning, mqVersion, mqCounters>>

\* get_sample finds the queue empty and open: it waits on the condition.
Wait(c) ==
    /\ AtQueue(c)
    /\ queue = <<>>
    /\ mqRunning
    /\ getState' = [getState EXCEPT ![c] = "waiting"]
    /\ UNCHANGED <<queue, valQueue, mqRunning, mqVersion, mqCounters>>

GetSample(c) == Take(c) \/ GetClosed(c) \/ Wait(c)

UpdateParamVersion(version) ==
    /\ mqVersion' = version
    /\ UNCHANGED <<queue, valQueue, mqRunning, mqCounters, getState>>

ClearQueue ==
    /\ queue' = <<>>
    /\ UNCHANGED <<valQueue, mqRunning, mqVersion, mqCounters, getState>>

\* Mutant of Shutdown: nobody is told.
ShutdownSilent ==
    /\ mqRunning' = FALSE
    /\ UNCHANGED <<queue, valQueue, mqVersion, mqCounters, getState>>

Shutdown ==
    /\ mqRunning' = FALSE
    /\ NotifyAll
    /\ UNCHANGED <<queue, valQueue, mqVersion, mqCounters>>

PutValidate(data) ==
    /\ valQueue' = Append(valQueue, data)
    /\ UNCHANGED <<queue, mqRunning, mqVersion, mqCounters, getState>>

\* get_validate pops the oldest result, or returns None and changes nothing.
GetValidate ==
    /\ valQueue' = IF valQueue = <<>> THEN valQueue ELSE Tail(valQueue)
    /\ UNCHANGED <<queue, mqRunning, mqVersion, mqCounters, getState>>

-----------------------------------------------------------------------------
MQNext ==
    \/ \E item \in Items : totalProduced < MaxPuts /\ PutSample(item)
    \/ \E c \in Consumers : GetSample(c)
    \/ \E version \in 1..MaxVersion : UpdateParamVersion(version)
    \/ ClearQueue
    \/ Shutdown
    \/ \E version \in 1..MaxVersion :
          Len(valQueue) < MaxVersion /\ PutValidate(version)
    \/ GetValidate

\* The event loop runs every coroutine it has woken.
MQFairness ==
    \A c \in Consumers : WF_mqVars(getState[c] = "woken" /\ GetSample(c))

MQSpec == MQInit /\ [][MQNext]_mqVars /\ MQFairness

-----------------------------------------------------------------------------
\* The types of the actor's fields; len(queue) never exceeds the deque's maxlen.
MQTypeOK ==
    /\ queue \in Seq(Items)
    /\ Len(queue) <= MaxQueueSize
    /\ valQueue \in Seq(1..MaxVersion)
    /\ mqRunning \in BOOLEAN
    /\ mqVersion \in 0..MaxVersion
    /\ totalProduced \in Nat /\ totalConsumed \in Nat /\ droppedSamples \in Nat
    /\ getState \in [Consumers -> {"out", "waiting", "woken"}]

\* No wakeup is lost: no consumer sleeps in condition.wait() while the queue
\* holds a sample or is closed, whatever the order of puts, gets and shutdown.
NoLostWakeup ==
    \A c \in Consumers : getState[c] = "waiting" => queue = <<>> /\ mqRunning

\* After shutdown every consumer still inside get_sample returns from it.
ShutdownReleasesConsumers ==
    \A c \in Consumers : ~mqRunning ~> getState[c] = "out"
=============================================================================
