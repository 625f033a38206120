------------------------ MODULE MessageQueueHistory ------------------------
(***************************************************************************)
(* MessageQueue with two history variables: every sample ever put, in      *)
(* order, and the positions in that order of the samples handed to         *)
(* consumers.  They state what a stream of samples through the queue is    *)
(* promised: in order, at most once, and lost only from the old end.       *)
(***************************************************************************)
EXTENDS MessageQueue

VARIABLES
    history,     \* the samples put, oldest first
    delivered,   \* the positions in history of the samples consumed
    cleared      \* how many samples clear_queue discarded

historyVars == <<mqVars, history, delivered, cleared>>

HInit == MQInit /\ history = <<>> /\ delivered = <<>> /\ cleared = 0

\* The position in history of the sample at the head of the queue.
HeadPosition == Len(history) - Len(queue) + 1

HPut ==
    \E item \in Items :
        /\ totalProduced < MaxPuts
        /\ PutSample(item)
        /\ history' = Append(history, item)
        /\ UNCHANGED <<delivered, cleared>>

HTake ==
    \E c \in Consumers :
        /\ Take(c)
        /\ delivered' = Append(delivered, HeadPosition)
        /\ UNCHANGED <<history, cleared>>

HClear ==
    /\ ClearQueue
    /\ cleared' = cleared + Len(queue)
    /\ UNCHANGED <<history, delivered>>

HOther ==
    /\ \/ \E c \in Consumers : GetClosed(c) \/ Wait(c)
       \/ \E version \in 1..MaxVersion : UpdateParamVersion(version)
       \/ Shutdown
       \/ \E version \in 1..MaxVersion :
             Len(valQueue) < MaxVersion /\ PutValidate(version)
       \/ GetValidate
    /\ UNCHANGED <<history, delivered, cleared>>

HNext == HPut \/ HTake \/ HClear \/ HOther

HSpec == HInit /\ [][HNext]_historyVars

HFairSpec == HSpec /\ MQFairness

-----------------------------------------------------------------------------
\* The statistics add up: every sample produced was consumed, dropped from a
\* full queue, cleared, or is still queued (get_statistics reads these fields
\* between any two calls).
Conservation ==
    totalProduced = totalConsumed + droppedSamples + cleared + Len(queue)

\* The queue holds exactly the newest samples, in the order they were put:
\* a full queue loses its oldest sample and no other.
QueueHoldsNewest ==
    /\ Len(queue) <= Len(history)
    /\ \A i \in 1..Len(queue) :
          queue[i] = history[Len(history) - Len(queue) + i]

\* Samples reach consumers in the order they were put, none twice, and never
\* one older than a sample that is still queued.
DeliveredInOrder ==
    /\ \A i, j \in 1..Len(delivered) : i < j => delivered[i] < delivered[j]
    /\ \A i \in 1..Len(delivered) : delivered[i] < HeadPosition
=============================================================================
