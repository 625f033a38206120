-------------------------- MODULE MessageQueueProofs --------------------------
(***************************************************************************)
(* Proofs about the message queue for every queue size, every number of    *)
(* consumers, of puts and of versions.                                     *)
(*                                                                         *)
(* MQInv, the types together with NoLostWakeup, is inductive for MQNext.   *)
(* A step of MessageQueueHistory is a step of MessageQueue or leaves its   *)
(* variables alone, so MQInv holds there too, and on top of it HInv ties   *)
(* the queue to the history of puts.                                       *)
(***************************************************************************)
EXTENDS MessageQueueHistory, Integers, TLAPS

\* The specification without its fairness, which no invariant needs.
MQSafety == MQInit /\ [][MQNext]_mqVars

MQInv == MQTypeOK /\ NoLostWakeup

-----------------------------------------------------------------------------
(* What the sequence operators of the queue do.                            *)

\* put_sample's trim and append: the new queue is at most MaxQueueSize long,
\* and it is the old one, without its head if it was full, with item behind it.
LEMMA PutShape ==
    ASSUME NEW item \in Items, queue \in Seq(Items), Len(queue) <= MaxQueueSize,
           PutSample(item)
    PROVE  /\ queue' \in Seq(Items)
           /\ Len(queue') <= MaxQueueSize
           /\ Len(queue') = IF QueueFull THEN Len(queue) ELSE Len(queue) + 1
           /\ \A i \in 1..Len(queue') :
                 queue'[i] = IF i = Len(queue') THEN item
                             ELSE queue[i + Len(queue) + 1 - Len(queue')]
<1> USE MaxQueueSizeAssumption
<1>1. CASE QueueFull
  <2>1. queue # <<>>
    BY <1>1 DEF QueueFull
  <2> DEFINE kept == Tail(queue)
  <2>2. kept \in Seq(Items) /\ Len(kept) = Len(queue) - 1
    BY <2>1
  <2>3. \A i \in 1..Len(kept) : kept[i] = queue[i + 1]
    BY <2>1, <2>2
  <2>4. queue' = Append(kept, item)
    BY <1>1 DEF PutSample
  <2> HIDE DEF kept
  <2>5. /\ queue' \in Seq(Items) /\ Len(queue') = Len(kept) + 1
        /\ \A i \in 1..Len(queue') :
              queue'[i] = IF i = Len(queue') THEN item ELSE kept[i]
    BY <2>2, <2>4
  <2> QED
    BY <1>1, <2>1, <2>2, <2>3, <2>5
<1>2. CASE ~QueueFull
  <2>1. queue' = Append(queue, item)
    BY <1>2 DEF PutSample
  <2> QED
    BY <1>2, <2>1 DEF QueueFull
<1> QED BY <1>1, <1>2

\* Taking from the queue: what is left, and where it stood.
LEMMA TakeShape ==
    ASSUME NEW c, queue \in Seq(Items), Take(c)
    PROVE  /\ queue' \in Seq(Items) /\ Len(queue) > 0
           /\ Len(queue') = Len(queue) - 1
           /\ \A i \in 1..Len(queue') : queue'[i] = queue[i + 1]
BY DEF Take

-----------------------------------------------------------------------------
(* The message queue by itself.                                            *)

LEMMA InitMQInv == MQInit => MQInv
BY MaxQueueSizeAssumption, BoundsAssumption
   DEF MQInit, MQInv, MQTypeOK, NoLostWakeup

LEMMA NextMQInv == MQInv /\ [MQNext]_mqVars => MQInv'
<1> SUFFICES ASSUME MQInv, [MQNext]_mqVars PROVE MQInv'
  OBVIOUS
<1> USE MaxQueueSizeAssumption, BoundsAssumption DEF MQInv, MQTypeOK, NoLostWakeup
<1>1. ASSUME NEW item \in Items, PutSample(item) PROVE MQInv'
  <2>1. queue' \in Seq(Items) /\ Len(queue') <= MaxQueueSize
    BY <1>1, PutShape
  <2>2. /\ getState' \in [Consumers -> {"out", "waiting", "woken"}]
        /\ \A c \in Consumers : getState'[c] # "waiting"
    BY <1>1 DEF PutSample, NotifyAll
  <2>3. totalProduced' \in Nat /\ droppedSamples' \in Nat
    BY <1>1 DEF PutSample
  <2> QED
    BY <1>1, <2>1, <2>2, <2>3 DEF PutSample
<1>2. ASSUME NEW c \in Consumers, Take(c) PROVE MQInv'
  <2>1. queue' \in Seq(Items) /\ Len(queue') <= MaxQueueSize
    BY <1>2, TakeShape
  <2>2. queue # <<>>
    BY <1>2 DEF Take
  <2> QED
    BY <1>2, <2>1, <2>2 DEF Take
<1>3. ASSUME NEW c \in Consumers, GetClosed(c) \/ Wait(c) PROVE MQInv'
  BY <1>3 DEF GetClosed, Wait, mqCounters
<1>4. CASE ClearQueue
  BY <1>4 DEF ClearQueue, mqCounters
<1>5. CASE Shutdown
  <2>1. /\ getState' \in [Consumers -> {"out", "waiting", "woken"}]
        /\ \A c \in Consumers : getState'[c] # "waiting"
    BY <1>5 DEF Shutdown, NotifyAll
  <2> QED
    BY <1>5, <2>1 DEF Shutdown, mqCounters
<1>6. ASSUME NEW v \in 1..MaxVersion, UpdateParamVersion(v) PROVE MQInv'
  BY <1>6 DEF UpdateParamVersion, mqCounters
<1>7. ASSUME NEW v \in 1..MaxVersion, PutValidate(v) PROVE MQInv'
  BY <1>7 DEF PutValidate, mqCounters
<1>8. CASE GetValidate
  <2>1. valQueue' \in Seq(1..MaxVersion)
    <3>1. CASE valQueue = <<>>
      BY <1>8, <3>1 DEF GetValidate
    <3>2. CASE valQueue # <<>>
      BY <1>8, <3>2 DEF GetValidate
    <3> QED BY <3>1, <3>2
  <2> QED
    BY <1>8, <2>1 DEF GetValidate, mqCounters
<1>9. CASE UNCHANGED mqVars
  BY <1>9 DEF mqVars, mqCounters
<1> QED
  BY <1>1, <1>2, <1>3, <1>4, <1>5, <1>6, <1>7, <1>8, <1>9 DEF MQNext, GetSample

\* The fields of the queue keep their types and the deque its maximal length.
THEOREM MessageQueueTypes == MQSafety => []MQTypeOK
<1>1. MQInv => MQTypeOK
  BY DEF MQInv
<1> QED
  BY InitMQInv, NextMQInv, <1>1, PTL DEF MQSafety

\* No consumer sleeps while the queue holds a sample or is closed, for every
\* number of consumers.
THEOREM NoWakeupIsLost == MQSpec => []NoLostWakeup
<1>1. MQInv => NoLostWakeup
  BY DEF MQInv
<1> QED
  BY InitMQInv, NextMQInv, <1>1, PTL DEF MQSpec

-----------------------------------------------------------------------------
(* The message queue with its history.                                     *)

HTypes ==
    /\ history \in Seq(Items)
    /\ delivered \in Seq(Nat)
    /\ cleared \in Nat

\* DeliveredInOrder alone is not inductive: a Take delivers HeadPosition,
\* which exceeds every position delivered because of the second conjunct, and
\* keeps doing so because of QueueHoldsNewest's bound on the queue's length.
HInv == MQInv /\ HTypes /\ Conservation /\ QueueHoldsNewest /\ DeliveredInOrder

\* A step of the history specification is a step of the queue's own.
LEMMA HNextIsMQNext == [HNext]_historyVars => [MQNext]_mqVars
BY DEF HNext, HPut, HTake, HClear, HOther, MQNext, GetSample, historyVars

LEMMA InitHInv == HInit => HInv
<1> SUFFICES ASSUME HInit PROVE HInv
  OBVIOUS
<1>1. MQInv
  BY InitMQInv DEF HInit
<1>2. HTypes /\ Conservation /\ QueueHoldsNewest /\ DeliveredInOrder
  BY DEF HInit, MQInit, HTypes, Conservation, QueueHoldsNewest, DeliveredInOrder
<1> QED BY <1>1, <1>2 DEF HInv

LEMMA NextHInv == HInv /\ [HNext]_historyVars => HInv'
<1> SUFFICES ASSUME HInv, [HNext]_historyVars PROVE HInv'
  OBVIOUS
<1>0. MQInv'
  BY HNextIsMQNext, NextMQInv DEF HInv
<1>a. /\ queue \in Seq(Items) /\ Len(queue) \in Nat /\ Len(queue) <= MaxQueueSize
      /\ totalProduced \in Nat /\ totalConsumed \in Nat /\ droppedSamples \in Nat
  BY DEF HInv, MQInv, MQTypeOK
<1>b. HTypes /\ Conservation /\ QueueHoldsNewest /\ DeliveredInOrder
  BY DEF HInv
<1>1. CASE HPut
  <2> PICK item \in Items : PutSample(item) /\ history' = Append(history, item)
    BY <1>1 DEF HPut
  <2>1. /\ queue' \in Seq(Items) /\ Len(queue') \in Nat
        /\ Len(queue') = IF QueueFull THEN Len(queue) ELSE Len(queue) + 1
        /\ \A i \in 1..Len(queue') :
              queue'[i] = IF i = Len(queue') THEN item
                          ELSE queue[i + Len(queue) + 1 - Len(queue')]
    BY <1>a, PutShape
  <2>2. /\ history' \in Seq(Items) /\ Len(history') = Len(history) + 1
        /\ Len(history) \in Nat
        /\ history'[Len(history')] = item
        /\ \A i \in 1..Len(history) : history'[i] = history[i]
    BY <1>b DEF HTypes
  <2>3. HTypes' /\ delivered' = delivered
    BY <1>1, <1>b, <2>2 DEF HTypes, HPut
  <2>4. Conservation'
    BY <1>1, <1>a, <1>b, <2>1 DEF Conservation, PutSample, HPut, HTypes
  <2>5. Len(queue') <= Len(history')
    BY <1>a, <1>b, <2>1, <2>2 DEF QueueHoldsNewest, HTypes
  <2>6. ASSUME NEW i \in 1..Len(queue')
        PROVE  queue'[i] = history'[Len(history') - Len(queue') + i]
    <3>1. CASE i = Len(queue')
      <4>1. queue'[i] = item
        BY <3>1, <2>1
      <4>2. Len(history') - Len(queue') + i = Len(history')
        BY <3>1, <2>1, <2>2
      <4> QED
        BY <4>1, <4>2, <2>2
    <3>2. CASE i # Len(queue')
      <4> DEFINE j == i + Len(queue) + 1 - Len(queue')
      <4>1. j \in 1..Len(queue) /\ Len(history) \in Nat
        BY <3>2, <2>1, <1>a, <1>b DEF HTypes
      <4>2. queue'[i] = queue[j]
        BY <3>2, <2>1
      <4>3. queue[j] = history[Len(history) - Len(queue) + j]
        BY <4>1, <1>b DEF QueueHoldsNewest
      <4>4. Len(history) - Len(queue) + j = Len(history') - Len(queue') + i
        BY <4>1, <2>1, <2>2, <1>a
      <4>5. Len(history) - Len(queue) + j \in 1..Len(history)
        BY <4>1, <1>a, <1>b DEF QueueHoldsNewest
      <4> QED
        BY <4>2, <4>3, <4>4, <4>5, <2>2
    <3> QED BY <3>1, <3>2
  <2>7. QueueHoldsNewest'
    BY <2>5, <2>6 DEF QueueHoldsNewest
  <2>a. /\ Len(queue') \in Nat /\ Len(queue') <= Len(queue) + 1
        /\ Len(history) \in Nat /\ Len(history') = Len(history) + 1
    BY <1>a, <2>1, <2>2
  <2>8. HeadPosition' >= HeadPosition /\ HeadPosition \in Int /\ HeadPosition' \in Int
    BY <1>a, <2>a DEF HeadPosition
  <2>b. \A i \in 1..Len(delivered) : delivered[i] \in Nat
    BY <1>b DEF HTypes
  <2>9. DeliveredInOrder'
    <3>1. \A i \in 1..Len(delivered) : delivered[i] < HeadPosition'
      BY <1>b, <2>8, <2>b DEF DeliveredInOrder
    <3> QED
      BY <1>b, <2>3, <3>1 DEF DeliveredInOrder
  <2> QED
    BY <1>0, <2>3, <2>4, <2>7, <2>9 DEF HInv
<1>2. CASE HTake
  <2> PICK c \in Consumers : Take(c) /\ delivered' = Append(delivered, HeadPosition)
    BY <1>2 DEF HTake
  <2>1. history' = history /\ cleared' = cleared
    BY <1>2 DEF HTake
  <2>2. /\ queue' \in Seq(Items) /\ Len(queue) > 0 /\ Len(queue') = Len(queue) - 1
        /\ \A i \in 1..Len(queue') : queue'[i] = queue[i + 1]
    BY <1>a, TakeShape
  <2>3. HeadPosition \in Nat /\ HeadPosition' = HeadPosition + 1
    BY <1>a, <1>b, <2>1, <2>2 DEF HeadPosition, HTypes, QueueHoldsNewest
  <2>4. HTypes'
    BY <1>b, <2>1, <2>3 DEF HTypes
  <2>5. Conservation'
    BY <1>a, <1>b, <2>1, <2>2 DEF Conservation, Take, HTypes
  <2>6. QueueHoldsNewest'
    BY <1>a, <1>b, <2>1, <2>2 DEF QueueHoldsNewest, HTypes
  <2>7. /\ Len(delivered') = Len(delivered) + 1
        /\ \A i \in 1..Len(delivered) : delivered'[i] = delivered[i]
        /\ delivered'[Len(delivered')] = HeadPosition
        /\ Len(delivered) \in Nat /\ \A i \in 1..Len(delivered) : delivered[i] \in Nat
    BY <1>b, <2>3 DEF HTypes
  <2> HIDE DEF HeadPosition
  <2>8. DeliveredInOrder'
    BY <1>b, <2>3, <2>7 DEF DeliveredInOrder
  <2> QED
    BY <1>0, <2>4, <2>5, <2>6, <2>8 DEF HInv
<1>3. CASE HClear
  <2>1. queue' = <<>> /\ history' = history /\ delivered' = delivered
    BY <1>3 DEF HClear, ClearQueue
  <2>2. HTypes' /\ Conservation'
    BY <1>3, <1>a, <1>b DEF HClear, ClearQueue, HTypes, Conservation, mqCounters
  <2>3. QueueHoldsNewest'
    BY <1>b, <2>1 DEF QueueHoldsNewest, HTypes
  <2>4. HeadPosition' >= HeadPosition /\ HeadPosition \in Int /\ HeadPosition' \in Int
    BY <1>a, <1>b, <2>1 DEF HeadPosition, HTypes
  <2>5. DeliveredInOrder'
    BY <1>b, <2>1, <2>4 DEF DeliveredInOrder, HTypes
  <2> QED
    BY <1>0, <2>2, <2>3, <2>5 DEF HInv
<1>4. CASE HOther \/ UNCHANGED historyVars
  <2>1. UNCHANGED <<queue, mqCounters, history, delivered, cleared>>
    BY <1>4 DEF HOther, GetClosed, Wait, UpdateParamVersion, Shutdown, PutValidate,
                GetValidate, historyVars, mqVars
  <2> QED
    BY <1>0, <1>b, <2>1
       DEF HInv, HTypes, Conservation, QueueHoldsNewest, DeliveredInOrder,
           HeadPosition, mqCounters
<1> QED
  BY <1>1, <1>2, <1>3, <1>4 DEF HNext

LEMMA HSpecHInv == HSpec => []HInv
BY InitHInv, NextHInv, PTL DEF HSpec

\* Every sample produced is consumed, dropped, cleared or still queued.
THEOREM QueueConserves == HSpec => []Conservation
<1>1. HInv => Conservation
  BY DEF HInv
<1> QED BY HSpecHInv, <1>1, PTL

\* A full queue loses its oldest samples and no others.
THEOREM QueueKeepsNewest == HSpec => []QueueHoldsNewest
<1>1. HInv => QueueHoldsNewest
  BY DEF HInv
<1> QED BY HSpecHInv, <1>1, PTL

\* Samples are consumed in the order they were put, none of them twice.
THEOREM QueueDeliversInOrder == HSpec => []DeliveredInOrder
<1>1. HInv => DeliveredInOrder
  BY DEF HInv
<1> QED BY HSpecHInv, <1>1, PTL
=============================================================================
