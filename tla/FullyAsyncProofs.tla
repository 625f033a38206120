-------------------------- MODULE FullyAsyncProofs --------------------------
(***************************************************************************)
(* Proofs about the whole fully asynchronous system for every value of the *)
(* constants, in three parts that build on each other: the lock and the    *)
(* types, the staleness of samples, and where every sample goes.  Each     *)
(* part begins with its argument.                                          *)
(***************************************************************************)
EXTENDS FullyAsync, Integers, FiniteSetTheorems, SequenceTheorems, TLAPS

(***************************************************************************)
(* PART ONE.  The lock, the types, and no sample twice.                    *)
(*                                                                         *)
(* The rollouter's lock excludes, and pause() keeps its promise; the types *)
(* hold; and no sample is ever in two places.                              *)
(*                                                                         *)
(* PauseQuiesces is not inductive.  A task could be submitted after the    *)
(* gather of pause() if the lock did not keep the processor out, so that   *)
(* QuiesceInv adds which coroutines hold the lock across a suspension      *)
(* (LockInv), and the types that LockInv and Live depend on.  The types    *)
(* need LockInv in turn: what a coroutine leaves of the lock queue is a    *)
(* queue only if it holds the lock.  NoDuplicates needs that a sample the  *)
(* feeder has not put yet is nowhere (PlacesInv); every other step moves a *)
(* sample from one place to another or gives it up.                        *)
(***************************************************************************)

Coroutines == {"processor", "main", "monitor", "pause", "update", "resume"}

\* A coroutine that suspends inside "async with self.lock" holds the lock.
LockInv ==
    /\ lockQueue \in Seq(Coroutines)
    /\ procPc = "drainWait" => Holds("processor")
    /\ pausePc \in {"gather", "flush"} => Holds("pause")
    /\ updatePc \in {"count", "publish"} => Holds("update")
    /\ resumePc = "servers" => Holds("resume")

TaskType == task \in [Samples -> {"none", "new", "gen", "put"}]

QuiesceInv == LockInv /\ TaskType /\ PauseQuiesces

-----------------------------------------------------------------------------
(* The lock.                                                               *)

\* Only one coroutine holds the lock.
LEMMA OneHolder == \A p, q : Holds(p) /\ Holds(q) => p = q
BY DEF Holds

\* Whoever waits behind it leaves the holder alone.
LEMMA RequestKeepsHolder ==
    ASSUME lockQueue \in Seq(Coroutines), NEW p \in Coroutines, Request(p)
    PROVE  lockQueue' \in Seq(Coroutines) /\ \A q : Holds(q) => Holds(q)'
<1>1. lockQueue' = Append(lockQueue, p)
  BY DEF Request
<1>2. lockQueue # <<>> => lockQueue' # <<>> /\ Head(lockQueue') = Head(lockQueue)
  BY <1>1
<1> QED BY <1>1, <1>2 DEF Holds

\* What the holder leaves behind is a queue of coroutines.
LEMMA ReleaseType ==
    ASSUME lockQueue \in Seq(Coroutines), NEW p \in Coroutines, Holds(p)
    PROVE  /\ Release => lockQueue' \in Seq(Coroutines)
           /\ ReleaseAndGoOn(p) => lockQueue' \in Seq(Coroutines)
           /\ ReleaseAndRequest(p) => lockQueue' \in Seq(Coroutines)
<1>1. Tail(lockQueue) \in Seq(Coroutines)
  BY DEF Holds
<1> QED BY <1>1 DEF Release, ReleaseAndGoOn, ReleaseAndRequest

-----------------------------------------------------------------------------
LEMMA InitQuiesce == Init => QuiesceInv
BY DEF Init, RollInit, QuiesceInv, LockInv, TaskType, PauseQuiesces, Coroutines

\* The processor: it lets go of the lock only when it holds it, and submits a
\* task only then, when pause() cannot be between its gather and its end.
LEMMA ProcessorQuiesce == QuiesceInv /\ Processor => QuiesceInv'
<1> SUFFICES ASSUME QuiesceInv, Processor PROVE QuiesceInv'
  OBVIOUS
<1> USE DEF Coroutines
<1>a. LockInv /\ TaskType /\ PauseQuiesces
  BY DEF QuiesceInv
<1>b. UNCHANGED <<pausePc, updatePc, resumePc>>
  BY DEF Processor, ProcTop, ProcFetchWait, ProcSetPaused, ProcDrain, ProcReap,
         ProcIdle, ProcSubmit, ProcWoken, callVars
<1>1. CASE ProcTop \/ ProcFetchWait
  <2>1. Request("processor") \/ UNCHANGED lockQueue
    BY <1>1 DEF ProcTop, ProcFetchWait, FetchCancelled, FetchPending, Dispatch,
                EnterDrain, Suspend
  <2>2. procPc' # "drainWait" /\ task' = task
    BY <1>1 DEF ProcTop, ProcFetchWait, FetchCancelled, FetchPending, Dispatch,
                EnterDrain, taskVars
  <2> QED
    BY <1>a, <1>b, <2>1, <2>2, RequestKeepsHolder
       DEF QuiesceInv, LockInv, TaskType, PauseQuiesces, Live, Holds
<1>2. CASE ProcSetPaused \/ ProcIdle \/ (ProcDrain /\ ActiveCount = 0)
  <2>1. Holds("processor") /\ procPc' # "drainWait" /\ task' = task
    BY <1>2 DEF ProcSetPaused, ProcIdle, ProcDrain, AfterRound, taskVars
  <2>2. Release \/ ReleaseAndGoOn("processor") \/ ReleaseAndRequest("processor")
    BY <1>2 DEF ProcSetPaused, ProcIdle, ProcDrain, AfterRound
  <2>3. lockQueue' \in Seq(Coroutines)
    BY <1>a, <2>1, <2>2, ReleaseType DEF LockInv
  <2> QED
    BY <1>a, <1>b, <2>1, <2>3
       DEF QuiesceInv, LockInv, TaskType, PauseQuiesces, Holds
<1>3. CASE ProcDrain /\ ActiveCount > 0
  BY <1>a, <1>b, <1>3 DEF ProcDrain, Suspend, taskVars,
     QuiesceInv, LockInv, TaskType, PauseQuiesces, Live, Holds
<1>4. CASE ProcReap
  <2>1. Holds("processor") /\ procPc = "drainWait" /\ task' = task
    BY <1>a, <1>4 DEF ProcReap, LockInv
  <2>2. \/ procPc' = "drain" /\ ReleaseAndRequest("processor")
        \/ procPc' # "drainWait" /\ (Release \/ ReleaseAndRequest("processor"))
    BY <1>4 DEF ProcReap, AfterRound
  <2>3. lockQueue' \in Seq(Coroutines)
    BY <1>a, <2>1, <2>2, ReleaseType DEF LockInv
  <2> QED
    BY <1>a, <1>b, <2>1, <2>2, <2>3
       DEF QuiesceInv, LockInv, TaskType, PauseQuiesces, Holds
<1>5. CASE ProcSubmit
  <2>1. Holds("processor") /\ procPc' # "drainWait"
    BY <1>5 DEF ProcSubmit
  <2>2. pausePc \notin {"gather", "flush"}
    BY <1>a, <2>1 DEF LockInv, Holds
  <2>3. lockQueue' \in Seq(Coroutines)
    BY <1>a, <1>5, <2>1, ReleaseType DEF LockInv, ProcSubmit
  <2>4. TaskType'
    BY <1>a, <1>5 DEF ProcSubmit, TaskType
  <2> QED
    BY <1>a, <1>b, <2>1, <2>2, <2>3, <2>4
       DEF QuiesceInv, LockInv, PauseQuiesces, Holds
<1>6. CASE ProcWoken
  <2>1. Request("processor") /\ procPc' # "drainWait" /\ task' = task
    BY <1>6 DEF ProcWoken, taskVars
  <2> QED
    BY <1>a, <1>b, <2>1, RequestKeepsHolder
       DEF QuiesceInv, LockInv, TaskType, PauseQuiesces, Live, Holds
<1>7. CASE ProcDrain
  BY <1>2, <1>3, <1>7 DEF ProcDrain
<1> QED
  BY <1>1, <1>2, <1>4, <1>5, <1>6, <1>7 DEF Processor

\* The tasks: only the processor creates one, and they do not use the lock.
LEMMA TaskQuiesce ==
    ASSUME QuiesceInv, NEW s \in Samples, Task(s) \/ TaskFail(s)
    PROVE  QuiesceInv'
<1>1. UNCHANGED <<lockQueue, procPc, pausePc, updatePc, resumePc>>
  BY DEF Task, TaskStart, TaskCut, TaskGenerated, TaskPut, TaskFail, TaskFrame,
         lockVars, procVars, callVars
<1>2. /\ task[s] # "none"
      /\ \E st \in {"none", "new", "gen", "put"} : task' = [task EXCEPT ![s] = st]
  BY DEF Task, TaskStart, TaskCut, TaskGenerated, TaskPut, TaskFail
<1>3. TaskType' /\ Live' \subseteq Live
  BY <1>2 DEF QuiesceInv, TaskType, Live
<1> QED
  BY <1>1, <1>3 DEF QuiesceInv, LockInv, PauseQuiesces, Holds

\* The remote calls: each holds the lock from its start to its end.
LEMMA CallQuiesce == QuiesceInv /\ (Pause \/ Update \/ Resume) => QuiesceInv'
<1> SUFFICES ASSUME QuiesceInv, Pause \/ Update \/ Resume PROVE QuiesceInv'
  OBVIOUS
<1> USE DEF Coroutines
<1>a. LockInv /\ TaskType /\ PauseQuiesces
  BY DEF QuiesceInv
<1>1. CASE Pause
  <2>1. task' = task /\ procPc' = procPc /\ updatePc' = updatePc /\ resumePc' = resumePc
    BY <1>1 DEF Pause, PauseArrive, PauseStart, PauseGathered, PauseEnd,
                taskVars, procVars
  <2>2. CASE PauseArrive
    <3>1. Request("pause") /\ pausePc' = "lock"
      BY <2>2 DEF PauseArrive
    <3> QED
      BY <1>a, <2>1, <3>1, RequestKeepsHolder
         DEF QuiesceInv, LockInv, TaskType, PauseQuiesces, Live, Holds
  <2>3. CASE PauseStart \/ PauseGathered
    <3>1. Holds("pause") /\ lockQueue' = lockQueue /\ (pausePc' = "flush" => Live = {})
      BY <1>a, <2>3 DEF PauseStart, PauseGathered, Suspend, lockVars, LockInv
    <3> QED
      BY <1>a, <2>1, <3>1 DEF QuiesceInv, LockInv, TaskType, PauseQuiesces, Live, Holds
  <2>4. CASE PauseEnd
    <3>1. Holds("pause") /\ Release /\ pausePc' = "done"
      BY <1>a, <2>4 DEF PauseEnd, LockInv
    <3>2. lockQueue' \in Seq(Coroutines)
      BY <1>a, <3>1, ReleaseType DEF LockInv
    <3> QED
      BY <1>a, <2>1, <3>1, <3>2 DEF QuiesceInv, LockInv, TaskType, PauseQuiesces, Holds
  <2> QED
    BY <1>1, <2>2, <2>3, <2>4 DEF Pause
<1>2. CASE Update
  <2>1. task' = task /\ procPc' = procPc /\ pausePc' = pausePc /\ resumePc' = resumePc
    BY <1>2 DEF Update, UpdateArrive, UpdateStart, UpdateCount, UpdatePublish,
                UpdateSpawnValidation, UpdateFrame, taskVars, procVars
  <2>2. CASE UpdateArrive
    <3>1. Request("update") /\ updatePc' = "lock"
      BY <2>2 DEF UpdateArrive
    <3> QED
      BY <1>a, <2>1, <3>1, RequestKeepsHolder
         DEF QuiesceInv, LockInv, TaskType, PauseQuiesces, Live, Holds
  <2>3. CASE UpdateStart \/ UpdateCount
    <3>1. Holds("update") /\ lockQueue' = lockQueue
      BY <1>a, <2>3 DEF UpdateStart, UpdateCount, Suspend, LockInv
    <3> QED
      BY <1>a, <2>1, <3>1 DEF QuiesceInv, LockInv, TaskType, PauseQuiesces, Live, Holds
  <2>4. CASE UpdatePublish \/ UpdateSpawnValidation
    <3>1. Holds("update") /\ Release /\ updatePc' \in {"done", "failed"}
      BY <1>a, <2>4 DEF UpdatePublish, UpdateSpawnValidation, LockInv
    <3>2. lockQueue' \in Seq(Coroutines)
      BY <1>a, <3>1, ReleaseType DEF LockInv
    <3> QED
      BY <1>a, <2>1, <3>1, <3>2 DEF QuiesceInv, LockInv, TaskType, PauseQuiesces, Live, Holds
  <2> QED
    BY <1>2, <2>2, <2>3, <2>4 DEF Update
<1>3. CASE Resume
  <2>1. task' = task /\ pausePc' = pausePc /\ updatePc' = updatePc
    BY <1>3 DEF Resume, ResumeArrive, ResumeServers, ResumeRun, taskVars
  <2>2. procPc' = "drainWait" => procPc = "drainWait"
    BY <1>3 DEF Resume, ResumeArrive, ResumeServers, ResumeRun, Notified, procVars
  <2>3. CASE ResumeArrive
    <3>1. (Request("resume") \/ UNCHANGED lockQueue) /\ resumePc' # "servers"
      BY <2>3 DEF ResumeArrive, Suspend
    <3> QED
      BY <1>a, <2>1, <2>2, <3>1, RequestKeepsHolder
         DEF QuiesceInv, LockInv, TaskType, PauseQuiesces, Live, Holds
  <2>4. CASE ResumeServers
    <3>1. Holds("resume") /\ lockQueue' = lockQueue
      BY <2>4 DEF ResumeServers, Suspend
    <3> QED
      BY <1>a, <2>1, <2>2, <3>1
         DEF QuiesceInv, LockInv, TaskType, PauseQuiesces, Live, Holds
  <2>5. CASE ResumeRun
    <3>1. Holds("resume") /\ Release /\ resumePc' = "done"
      BY <2>5 DEF ResumeRun
    <3>2. lockQueue' \in Seq(Coroutines)
      BY <1>a, <3>1, ReleaseType DEF LockInv
    <3> QED
      BY <1>a, <2>1, <2>2, <3>1, <3>2
         DEF QuiesceInv, LockInv, TaskType, PauseQuiesces, Live, Holds
  <2> QED
    BY <1>3, <2>3, <2>4, <2>5 DEF Resume
<1> QED
  BY <1>1, <1>2, <1>3

\* The end of the stream and the monitor.
LEMMA LoopQuiesce == QuiesceInv /\ (MainPutEnd \/ MainStop \/ Monitor) => QuiesceInv'
<1> SUFFICES ASSUME QuiesceInv, MainPutEnd \/ MainStop \/ Monitor PROVE QuiesceInv'
  OBVIOUS
<1> USE DEF Coroutines
<1>a. LockInv /\ TaskType /\ PauseQuiesces
  BY DEF QuiesceInv
<1>b. UNCHANGED <<task, pausePc, updatePc, resumePc>>
  BY DEF MainPutEnd, MainStop, Monitor, MonitorCheck, MonitorPoll, MonitorUnpause,
         taskVars, callVars
<1>c. procPc' = "drainWait" => procPc = "drainWait"
  BY DEF MainPutEnd, MainStop, Monitor, MonitorCheck, MonitorPoll, MonitorUnpause,
         procVars, Notified
<1>1. CASE MainPutEnd \/ (Monitor /\ MonitorPoll)
  <2>1. Request("main") \/ Request("monitor")
    BY <1>1 DEF MainPutEnd, MonitorPoll
  <2>2. lockQueue' \in Seq(Coroutines) /\ \A q : Holds(q) => Holds(q)'
    BY <1>a, <2>1, RequestKeepsHolder DEF LockInv
  <2> QED
    BY <1>a, <1>b, <1>c, <2>2
       DEF QuiesceInv, LockInv, TaskType, PauseQuiesces, Live
<1>2. CASE MainStop \/ (Monitor /\ (MonitorCheck \/ MonitorUnpause))
  <2>1. PICK p \in {"main", "monitor"} :
            Holds(p) /\ (Release \/ ReleaseAndRequest(p))
    BY <1>2 DEF MainStop, MonitorCheck, MonitorUnpause
  <2>2. lockQueue' \in Seq(Coroutines)
    BY <1>a, <2>1, ReleaseType DEF LockInv
  <2> QED
    BY <1>a, <1>b, <1>c, <2>1, <2>2
       DEF QuiesceInv, LockInv, TaskType, PauseQuiesces, Live, Holds
<1> QED
  BY <1>1, <1>2 DEF Monitor

\* The trainer, the driver and the feeder: they may call, and nothing else.
LEMMA OtherQuiesce ==
    QuiesceInv /\ (Feed \/ ValidationDone \/ Trainer \/ DriverClear \/ UNCHANGED vars)
        => QuiesceInv'
<1> SUFFICES ASSUME QuiesceInv,
                    Feed \/ ValidationDone \/ Trainer \/ DriverClear \/ UNCHANGED vars
             PROVE  QuiesceInv'
  OBVIOUS
<1>1. UNCHANGED <<lockQueue, procPc, task>>
  BY DEF Feed, ValidationDone, UpdateFrame, Trainer, DriverClear, GetWait, GetSample,
         GetEnd, Train, WaitValid, WaitFailed, SyncBegin, SyncEnd, LastValid, Log,
         vars, rollVars, lockVars, procVars, taskVars
<1>2. /\ pausePc' \in {pausePc, "called"}
      /\ updatePc' \in {updatePc, "called"}
      /\ resumePc' \in {resumePc, "called"}
  BY DEF Feed, ValidationDone, UpdateFrame, Trainer, DriverClear, GetWait, GetSample,
         GetEnd, Train, WaitValid, WaitFailed, SyncBegin, SyncEnd, LastValid, Log,
         vars, rollVars, callVars
<1> QED
  BY <1>1, <1>2 DEF QuiesceInv, LockInv, TaskType, PauseQuiesces, Live, Holds

LEMMA NextQuiesce == QuiesceInv /\ [Next]_vars => QuiesceInv'
BY ProcessorQuiesce, TaskQuiesce, CallQuiesce, LoopQuiesce, OtherQuiesce
   DEF Next, Rollout, RollNext, Terminated

\* From the end of its gather until it releases the lock, pause() leaves no
\* generation task alive and lets none be submitted: for every number of
\* samples, servers, staleness threshold and mode.
THEOREM PauseKeepsPromise == Spec => []PauseQuiesces
<1>1. QuiesceInv => PauseQuiesces
  BY DEF QuiesceInv
<1> QED
  BY InitQuiesce, NextQuiesce, <1>1, PTL DEF Spec

-----------------------------------------------------------------------------
(* Types.                                                                  *)

QueueTypes ==
    /\ queue \in Seq(Samples \cup {EndOfStream})
    /\ valQueue \in Seq([version : Nat, metrics : BOOLEAN])
    /\ mqRunning = TRUE /\ mqVersion \in Nat
    /\ totalProduced \in Nat /\ totalConsumed \in Nat /\ droppedSamples \in Nat
    /\ getState \in [{"trainer"} -> {"out", "waiting", "woken"}]
FeedTypes ==
    /\ fed \in 0..(Total + 1)
    /\ pending \in Seq(Samples \cup {EndOfStream})
    /\ cancelQueue \in Seq(Samples)
    /\ hand \in Samples \cup {EndOfStream}
    /\ staleness \in Nat
TaskTypes ==
    /\ task \in [Samples -> {"none", "new", "gen", "put"}]
    /\ stamp \in [Samples -> Nat]
    /\ finished \in Nat /\ failed \in BOOLEAN /\ failures \in 0..MaxFailures
FlagTypes ==
    /\ paused \in BOOLEAN /\ monitorTrigger \in BOOLEAN /\ running \in BOOLEAN
    /\ serversPaused \in BOOLEAN /\ version \in Nat
LockTypes ==
    /\ lockQueue \in Seq(Coroutines)
    /\ turn \in Coroutines \cup {"loop"}
LoopTypes ==
    /\ procPc \in {"top", "fetchWait", "setPaused", "drain", "drainWait", "idle",
                   "idleWait", "idleWoken", "submit", "submitWait", "submitWoken",
                   "exited", "dead"}
    /\ drainFor \in {"pause", "full", "done"} /\ reaped \in BOOLEAN
    /\ mainPc \in {"streaming", "stopping", "stopped"}
    /\ monitorPc \in {"check", "sleep", "unpause", "exited"}
CallTypes ==
    /\ pausePc \in {"called", "lock", "gather", "flush", "done"}
    /\ updatePc \in {"called", "lock", "count", "publish", "failed", "done"}
    /\ resumePc \in {"called", "lock", "servers", "failed", "done"}
    /\ updateArg \in [version : Nat, validate : BOOLEAN]
    /\ snapshot \in Nat /\ validating \in SUBSET Nat
TrainerTypes ==
    /\ trainerPc \in {"log", "get", "train", "waitValid", "pausing", "transfer",
                      "lastValid", "done", "cleared", "failed"}
    /\ phase \in {"loop", "final", "extra"}
    /\ batch \in Seq(Samples)
    /\ trained \in SUBSET Samples
    /\ trainerVersion \in Nat /\ weights \in Nat /\ localStep \in 1..Trigger
    /\ logged \in SUBSET Nat

LEMMA TypeParts ==
    /\ TypeOK <=> /\ QueueTypes /\ FeedTypes /\ TaskTypes /\ FlagTypes
                  /\ LockTypes /\ LoopTypes /\ CallTypes /\ TrainerTypes
    /\ TypeOK' <=> /\ QueueTypes' /\ FeedTypes' /\ TaskTypes' /\ FlagTypes'
                   /\ LockTypes' /\ LoopTypes' /\ CallTypes' /\ TrainerTypes'
<1>1. {"loop", "processor", "main", "monitor", "pause", "update", "resume"}
        = Coroutines \cup {"loop"}
  BY DEF Coroutines
<1> QED
  BY <1>1 DEF Coroutines, TypeOK, QueueTypes, FeedTypes, TaskTypes, FlagTypes, LockTypes,
     LoopTypes, CallTypes, TrainerTypes

LEMMA Sizes ==
    /\ Total \in Nat \ {0} /\ Required \in Nat \ {0} /\ Trigger \in Nat \ {0}
    /\ MaxPending \in Nat \ {0} /\ MaxRequired \in Nat \ {0} /\ MaxFailures \in Nat
BY SizeAssumption, MaxRequiredAssumption

LEMMA BurstType ==
    ASSUME NEW done \in 0..(Total + 1), NEW room \in Int, Burst(done, room) >= 0
    PROVE  Burst(done, room) \in Nat /\ done + Burst(done, room) \in 0..(Total + 1)
BY Sizes DEF Burst

LEMMA FeedItemType ==
    ASSUME NEW i \in Nat \ {0}
    PROVE  FeedItem(i) \in Samples \cup {EndOfStream}
BY Sizes DEF FeedItem, Samples

LEMMA Singleton ==
    ASSUME NEW S
    PROVE  <<>> \in Seq(S) /\ \A x \in S : <<x>> \in Seq(S)
OBVIOUS

LEMMA HeadTail ==
    ASSUME NEW S, NEW q \in Seq(S), q # <<>>
    PROVE  Head(q) \in S /\ Tail(q) \in Seq(S)
OBVIOUS

LEMMA InitType == Init => TypeOK
<1> SUFFICES ASSUME Init PROVE TypeOK
  OBVIOUS
<1>1. FirstBurst \in Nat /\ FirstBurst \in 0..(Total + 1)
  BY BurstType, Sizes DEF FirstBurst, Burst
<1>2. [i \in 1..FirstBurst |-> FeedItem(i)] \in Seq(Samples \cup {EndOfStream})
  BY <1>1, FeedItemType
<1>3. FeedTypes
  BY <1>1, <1>2 DEF Init, RollInit, FeedTypes
<1>4. valQueue \in Seq([version : Nat, metrics : BOOLEAN])
  <2>1. [version |-> 0, metrics |-> TRUE] \in [version : Nat, metrics : BOOLEAN]
    OBVIOUS
  <2>2. valQueue = <<>> \/ valQueue = <<[version |-> 0, metrics |-> TRUE]>>
    BY DEF Init
  <2> QED BY <2>1, <2>2, Singleton
<1>5. QueueTypes
  BY <1>4 DEF Init, QueueTypes
<1>6. TaskTypes
  <2>1. task = [s \in Samples |-> "none"] /\ stamp = [s \in Samples |-> 0]
    BY DEF Init, RollInit
  <2>2. finished = 0 /\ failures = 0
    BY DEF Init, RollInit
  <2>3. failed \in BOOLEAN
    BY DEF Init, RollInit
  <2> QED BY <2>1, <2>2, <2>3, Sizes DEF TaskTypes
<1>6a. FlagTypes
  BY DEF Init, RollInit, FlagTypes
<1>6b. LockTypes
  BY DEF Init, RollInit, LockTypes
<1>7. LoopTypes
  BY DEF Init, RollInit, LoopTypes
<1>7a. CallTypes
  <2>1. validating \in SUBSET Nat
    BY DEF Init, RollInit
  <2> QED BY <2>1 DEF Init, RollInit, CallTypes
<1>8. TrainerTypes
  BY Sizes DEF Init, TrainerTypes
<1> QED
  BY <1>3, <1>5, <1>6, <1>6a, <1>6b, <1>7, <1>7a, <1>8, TypeParts

(* What the operators of the lock do to its types *)
LEMMA LockSteps ==
    ASSUME LockTypes, NEW p \in Coroutines
    PROVE  /\ Request(p) \/ Suspend => LockTypes'
           /\ /\ Holds(p)
              /\ Release \/ ReleaseAndGoOn(p) \/ ReleaseAndRequest(p)
              => LockTypes'
<1>1. Request(p) \/ Suspend => LockTypes'
  BY DEF LockTypes, Request, Suspend, GoOnIfFree
<1>2. Holds(p) => Tail(lockQueue) \in Seq(Coroutines)
  BY DEF LockTypes, Holds
<1>3. Holds(p) /\ (Release \/ ReleaseAndGoOn(p) \/ ReleaseAndRequest(p)) => LockTypes'
  BY <1>2 DEF LockTypes, Release, ReleaseAndGoOn, ReleaseAndRequest, GoOnIfFree
<1> QED BY <1>1, <1>3

\* What put_sample does to the types of the message queue.
LEMMA PutTypes ==
    ASSUME QueueTypes, NEW item \in Samples \cup {EndOfStream}, MQ!PutSample(item)
    PROVE  QueueTypes'
<1> DEFINE kept == IF MQ!QueueFull THEN Tail(queue) ELSE queue
<1>1. kept \in Seq(Samples \cup {EndOfStream})
  <2>1. MQ!QueueFull => queue # <<>>
    BY Sizes DEF MQ!QueueFull, QueueTypes
  <2> QED BY <2>1 DEF QueueTypes
<1>2. queue' = Append(kept, item)
  BY DEF MQ!PutSample
<1> HIDE DEF kept
<1>3. queue' \in Seq(Samples \cup {EndOfStream})
  BY <1>1, <1>2
<1>4. getState' \in [{"trainer"} -> {"out", "waiting", "woken"}]
  BY DEF MQ!PutSample, MQ!NotifyAll, QueueTypes
<1>5. totalProduced' \in Nat /\ droppedSamples' \in Nat
  BY DEF MQ!PutSample, QueueTypes
<1> QED
  BY <1>3, <1>4, <1>5 DEF MQ!PutSample, QueueTypes

LEMMA ValidateTypes ==
    ASSUME QueueTypes, NEW v \in Nat, NEW m \in BOOLEAN,
           MQ!PutValidate([version |-> v, metrics |-> m])
    PROVE  QueueTypes'
<1>1. [version |-> v, metrics |-> m] \in [version : Nat, metrics : BOOLEAN]
  OBVIOUS
<1>2. valQueue' \in Seq([version : Nat, metrics : BOOLEAN])
  BY <1>1 DEF MQ!PutValidate, QueueTypes
<1> QED
  BY <1>2 DEF MQ!PutValidate, MQ!mqCounters, QueueTypes

LEMMA LiveFinite == IsFiniteSet(Live) /\ Cardinality(Live) \in Nat
<1>1. IsFiniteSet(1..Total)
  BY Sizes, FS_Interval
<1>2. Live \subseteq 1..Total
  BY DEF Live, Samples
<1> QED BY <1>1, <1>2, FS_Subset, FS_CardinalityType

(* The steps of the rollouter, one lemma for the variables of each group *)
RollTypes == FeedTypes /\ TaskTypes /\ FlagTypes /\ LockTypes /\ LoopTypes /\ CallTypes

LEMMA FeedKeepsTypes == QueueTypes /\ RollTypes /\ Feed => QueueTypes' /\ RollTypes'
<1> SUFFICES ASSUME QueueTypes, RollTypes, Feed PROVE QueueTypes' /\ RollTypes'
  OBVIOUS
<1> DEFINE n == Burst(fed, MaxPending - Len(pending))
           new == [i \in 1..n |-> FeedItem(fed + i)]
<1>1. n > 0 /\ fed' = fed + n /\ pending' = pending \o new
  BY DEF Feed
<1>2. fed \in 0..(Total + 1) /\ pending \in Seq(Samples \cup {EndOfStream})
  BY DEF RollTypes, FeedTypes
<1>3. MaxPending - Len(pending) \in Int
  BY <1>2, Sizes
<1>4. n \in Int
  BY <1>2, <1>3, Sizes DEF Burst
<1>5. n \in Nat /\ fed + n \in 0..(Total + 1)
  BY <1>1, <1>2, <1>3, <1>4, BurstType
<1>6. new \in Seq(Samples \cup {EndOfStream})
  <2>1. \A i \in 1..n : FeedItem(fed + i) \in Samples \cup {EndOfStream}
    BY <1>2, <1>5, FeedItemType
  <2> QED BY <1>5, <2>1
<1> HIDE DEF n, new
<1>7. fed' \in 0..(Total + 1) /\ pending' \in Seq(Samples \cup {EndOfStream})
  BY <1>1, <1>2, <1>5, <1>6
<1>8. FeedTypes'
  BY <1>7 DEF RollTypes, FeedTypes, Feed, procVars
<1>9. QueueTypes'
  BY DEF QueueTypes, Feed, queueVars
<1>10. TaskTypes' /\ FlagTypes' /\ LockTypes'
  BY DEF RollTypes, TaskTypes, FlagTypes, LockTypes, Feed, taskVars, flagVars, lockVars
<1>11. LoopTypes' /\ CallTypes'
  BY DEF RollTypes, LoopTypes, CallTypes, Feed, procVars, callVars
<1> QED
  BY <1>8, <1>9, <1>10, <1>11 DEF RollTypes

LEMMA TasksKeepTypes ==
    ASSUME QueueTypes, RollTypes, NEW s \in Samples, Task(s) \/ TaskFail(s)
    PROVE  QueueTypes' /\ RollTypes'
<1>1. TaskTypes'
  <2>1. task' \in [Samples -> {"none", "new", "gen", "put"}]
    BY DEF RollTypes, TaskTypes, Task, TaskStart, TaskCut, TaskGenerated, TaskPut, TaskFail
  <2>2. stamp' \in [Samples -> Nat]
    BY DEF RollTypes, TaskTypes, FlagTypes, Task, TaskStart, TaskCut, TaskGenerated, TaskPut, TaskFail
  <2>3. finished' \in Nat
    BY DEF RollTypes, TaskTypes, Task, TaskStart, TaskCut, TaskGenerated, TaskPut, TaskFail
  <2>5. failed' \in BOOLEAN
    <3>1. failed' = failed \/ failed' = TRUE
      BY DEF Task, TaskStart, TaskCut, TaskGenerated, TaskPut, TaskFail
    <3> QED BY <3>1 DEF RollTypes, TaskTypes
  <2>4. failures' \in 0..MaxFailures
    BY Sizes DEF RollTypes, TaskTypes, Task, TaskStart, TaskCut, TaskGenerated, TaskPut, TaskFail
  <2> QED BY <2>1, <2>2, <2>3, <2>4, <2>5 DEF TaskTypes
<1>2. cancelQueue' \in Seq(Samples)
  BY DEF RollTypes, FeedTypes, Task, TaskStart, TaskCut, TaskGenerated, TaskPut, TaskFail
<1>3. QueueTypes'
  <2>1. UNCHANGED queueVars \/ MQ!PutSample(s)
    BY DEF Task, TaskStart, TaskCut, TaskGenerated, TaskPut, TaskFail
  <2>2. UNCHANGED queueVars => QueueTypes'
    BY DEF QueueTypes, queueVars
  <2> QED BY <2>1, <2>2, PutTypes
<1>4. TaskFrame
  BY DEF Task, TaskStart, TaskCut, TaskGenerated, TaskPut, TaskFail
<1>5. FeedTypes'
  BY <1>2, <1>4 DEF RollTypes, FeedTypes, TaskFrame, feedVars, procVars
<1>6. FlagTypes' /\ LockTypes'
  BY <1>4 DEF RollTypes, FlagTypes, LockTypes, TaskFrame, flagVars, lockVars
<1>7. LoopTypes' /\ CallTypes'
  BY <1>4 DEF RollTypes, LoopTypes, CallTypes, TaskFrame, procVars, callVars
<1> QED
  BY <1>1, <1>3, <1>5, <1>6, <1>7 DEF RollTypes

LEMMA ProcessorKeepsTypes ==
    QueueTypes /\ RollTypes /\ LockInv /\ Processor => QueueTypes' /\ RollTypes'
<1> SUFFICES ASSUME QueueTypes, RollTypes, LockInv, Processor
             PROVE  QueueTypes' /\ RollTypes'
  OBVIOUS
<1>1. LockTypes'
  <2>1. \/ Request("processor") \/ Suspend
        \/ /\ Holds("processor")
           /\ Release \/ ReleaseAndGoOn("processor") \/ ReleaseAndRequest("processor")
    BY DEF LockInv, Processor, ProcTop, ProcFetchWait, FetchCancelled, FetchPending, Dispatch,
           EnterDrain, ProcSetPaused, ProcDrain, ProcReap, AfterRound, ProcIdle, ProcSubmit, ProcWoken
  <2>2. "processor" \in Coroutines
    BY DEF Coroutines
  <2> QED BY <2>1, <2>2, LockSteps DEF RollTypes
<1>2. FeedTypes'
  <2>1. fed' = fed
    BY DEF Processor, ProcTop, ProcFetchWait, FetchCancelled, FetchPending,
           ProcSetPaused, ProcDrain, ProcReap, ProcIdle, ProcSubmit, ProcWoken, feedVars
  <2>2. pending' \in Seq(Samples \cup {EndOfStream})
    BY DEF Processor, ProcTop, ProcFetchWait, FetchCancelled, FetchPending,
           ProcSetPaused, ProcDrain, ProcReap, ProcIdle, ProcSubmit, ProcWoken, feedVars,
           RollTypes, FeedTypes
  <2>3. cancelQueue' \in Seq(Samples)
    BY DEF Processor, ProcTop, ProcFetchWait, FetchCancelled, FetchPending,
           ProcSetPaused, ProcDrain, ProcReap, ProcIdle, ProcSubmit, ProcWoken,
           RollTypes, FeedTypes
  <2>4. hand' \in Samples \cup {EndOfStream}
    BY DEF Processor, ProcTop, ProcFetchWait, FetchCancelled, FetchPending, Dispatch,
           ProcSetPaused, ProcDrain, ProcReap, ProcIdle, ProcSubmit, ProcWoken,
           RollTypes, FeedTypes
  <2>5. staleness' \in Nat
    BY DEF Processor, ProcTop, ProcFetchWait, FetchCancelled, FetchPending,
           ProcSetPaused, ProcDrain, ProcReap, ProcIdle, ProcSubmit, ProcWoken,
           RollTypes, FeedTypes
  <2> QED BY <2>1, <2>2, <2>3, <2>4, <2>5 DEF RollTypes, FeedTypes
<1>3. TaskTypes'
  <2>1. UNCHANGED <<stamp, failures>> /\ finished' \in {finished, 0}
    BY DEF Processor, ProcTop, ProcFetchWait, ProcSetPaused, ProcDrain, ProcReap, ProcIdle,
           ProcSubmit, ProcWoken, taskVars
  <2>3. failed' = failed \/ failed' = FALSE
    BY DEF Processor, ProcTop, ProcFetchWait, ProcSetPaused, ProcDrain, ProcReap, ProcIdle,
           ProcSubmit, ProcWoken, taskVars
  <2>2. task' = task \/ task' = [task EXCEPT ![hand] = "new"]
    BY DEF Processor, ProcTop, ProcFetchWait, ProcSetPaused, ProcDrain, ProcReap, ProcIdle,
           ProcSubmit, ProcWoken, taskVars
  <2>4. failed' \in BOOLEAN
    BY <2>3 DEF RollTypes, TaskTypes
  <2>5. task' \in [Samples -> {"none", "new", "gen", "put"}]
    BY <2>2 DEF RollTypes, TaskTypes
  <2> QED BY <2>1, <2>4, <2>5 DEF RollTypes, TaskTypes
<1>4. FlagTypes'
  <2>1. paused' \in {paused, TRUE} /\ UNCHANGED <<monitorTrigger, running, serversPaused, version>>
    BY DEF Processor, ProcTop, ProcFetchWait, ProcSetPaused, ProcDrain, ProcReap, ProcIdle,
           ProcSubmit, ProcWoken, flagVars
  <2> QED BY <2>1 DEF RollTypes, FlagTypes
<1>5. LoopTypes'
  <2>1. UNCHANGED <<mainPc, monitorPc>> /\ reaped' \in {reaped, TRUE}
    BY DEF Processor, ProcTop, ProcFetchWait, FetchCancelled, FetchPending, Dispatch,
           ProcSetPaused, ProcDrain, ProcReap, ProcIdle, ProcSubmit, ProcWoken
  <2>2. drainFor' \in {drainFor, "pause", "full", "done"}
    BY DEF Processor, ProcTop, ProcFetchWait, FetchCancelled, FetchPending, Dispatch, EnterDrain,
           ProcSetPaused, ProcDrain, ProcReap, AfterRound, ProcIdle, ProcSubmit, ProcWoken
  <2>3. procPc' \in {"top", "fetchWait", "setPaused", "drain", "drainWait", "idle",
                     "idleWait", "submit", "submitWait", "exited", "dead"}
    BY DEF Processor, ProcTop, ProcFetchWait, FetchCancelled, FetchPending, Dispatch, EnterDrain,
           ProcSetPaused, ProcDrain, ProcReap, AfterRound, ProcIdle, ProcSubmit, ProcWoken
  <2> QED BY <2>1, <2>2, <2>3 DEF RollTypes, LoopTypes
<1>6. UNCHANGED queueVars /\ UNCHANGED callVars
  BY DEF Processor, ProcTop, ProcFetchWait, ProcSetPaused, ProcDrain, ProcReap, ProcIdle,
         ProcSubmit, ProcWoken
<1>7. QueueTypes' /\ CallTypes'
  BY <1>6 DEF RollTypes, QueueTypes, CallTypes, queueVars, callVars
<1> QED
  BY <1>1, <1>2, <1>3, <1>4, <1>5, <1>7 DEF RollTypes

LEMMA CallsKeepTypes ==
    QueueTypes /\ RollTypes /\ LockInv /\ (Pause \/ Update \/ Resume \/ ValidationDone)
        => QueueTypes' /\ RollTypes'
<1> SUFFICES ASSUME QueueTypes, RollTypes, LockInv, Pause \/ Update \/ Resume \/ ValidationDone
             PROVE  QueueTypes' /\ RollTypes'
  OBVIOUS
<1> USE DEF Pause, PauseArrive, PauseStart, PauseGathered, PauseEnd, Update, UpdateArrive,
            UpdateStart, UpdateCount, UpdatePublish, UpdateSpawnValidation, UpdateFrame,
            Resume, ResumeArrive, ResumeServers, ResumeRun, ValidationDone
<1>1. LockTypes'
  <2>1. \/ UNCHANGED lockVars \/ Suspend
        \/ \E p \in Coroutines : Request(p) \/ (Holds(p) /\ Release)
    BY DEF LockInv, Coroutines
  <2>2. UNCHANGED lockVars => LockTypes'
    BY DEF RollTypes, LockTypes, lockVars
  <2>3. Suspend => LockTypes'
    BY DEF RollTypes, LockTypes, Suspend
  <2> QED BY <2>1, <2>2, <2>3, LockSteps DEF RollTypes
<1>2. QueueTypes'
  <2>1. \/ UNCHANGED queueVars
        \/ \E v \in Nat, m \in BOOLEAN : MQ!PutValidate([version |-> v, metrics |-> m])
    <3>1. NeedValidate \in BOOLEAN
      BY DEF NeedValidate
    <3>2. CASE ValidationDone
      BY <3>2 DEF RollTypes, CallTypes
    <3>3. CASE Update /\ UpdatePublish
      BY <3>1, <3>3 DEF RollTypes, FlagTypes
    <3> QED BY <3>2, <3>3
  <2>2. UNCHANGED queueVars => QueueTypes'
    BY DEF QueueTypes, queueVars
  <2> QED BY <2>1, <2>2, ValidateTypes
<1>3. TaskTypes'
  <2>1. UNCHANGED <<task, stamp, failures>> /\ finished' \in {finished, 0}
    BY DEF taskVars
  <2>2. failed' = failed \/ failed' = FALSE
    BY DEF taskVars
  <2>3. failed' \in BOOLEAN
    BY <2>2 DEF RollTypes, TaskTypes
  <2> QED BY <2>1, <2>3 DEF RollTypes, TaskTypes
<1>4. FeedTypes'
  <2>1. UNCHANGED <<fed, pending, cancelQueue, hand>>
    BY DEF feedVars, procVars
  <2>2. staleness' = staleness \/ staleness' = snapshot + Len(queue)
    OBVIOUS
  <2>3. staleness' \in Nat
    BY <2>2 DEF RollTypes, FeedTypes, CallTypes, QueueTypes
  <2> QED BY <2>1, <2>3 DEF RollTypes, FeedTypes
<1>5. LoopTypes'
  <2>1. UNCHANGED <<drainFor, reaped, mainPc, monitorPc>> /\ procPc' \in {procPc, Notified(procPc)}
    BY DEF procVars
  <2> QED BY <2>1 DEF RollTypes, LoopTypes, Notified
<1>6. FlagTypes'
  <2>1. version' = version \/ version' = updateArg.version
    BY DEF flagVars
  <2>2. version' \in Nat
    BY <2>1 DEF RollTypes, FlagTypes, CallTypes
  <2>3. /\ paused' = paused \/ paused' = TRUE \/ paused' = FALSE
        /\ monitorTrigger' = monitorTrigger \/ monitorTrigger' = TRUE \/ monitorTrigger' = FALSE
        /\ serversPaused' = serversPaused \/ serversPaused' = Partial \/ serversPaused' = FALSE
        /\ running' = running
    BY DEF flagVars
  <2>4. /\ paused' \in BOOLEAN /\ monitorTrigger' \in BOOLEAN
        /\ serversPaused' \in BOOLEAN /\ running' \in BOOLEAN
    BY <2>3, ModeAssumption DEF RollTypes, FlagTypes
  <2> QED BY <2>2, <2>4 DEF FlagTypes
<1>7. CallTypes'
  <2>1. updateArg' = updateArg
    OBVIOUS
  <2>2. snapshot' \in Nat
    <3>1. snapshot' = snapshot \/ snapshot' = ActiveCount + Len(cancelQueue)
      BY DEF callVars
    <3>2. ActiveCount \in Nat
      BY LiveFinite DEF ActiveCount, RollTypes, TaskTypes
    <3> QED BY <3>1, <3>2 DEF RollTypes, CallTypes, FeedTypes
  <2>3. validating' \in SUBSET Nat
    BY DEF RollTypes, CallTypes, FlagTypes, callVars
  <2>4. /\ pausePc' \in {"called", "lock", "gather", "flush", "done"}
        /\ updatePc' \in {"called", "lock", "count", "publish", "failed", "done"}
        /\ resumePc' \in {"called", "lock", "servers", "failed", "done"}
    BY DEF RollTypes, CallTypes
  <2> QED BY <2>1, <2>2, <2>3, <2>4 DEF RollTypes, CallTypes
<1> QED
  BY <1>1, <1>2, <1>3, <1>4, <1>5, <1>6, <1>7 DEF RollTypes

LEMMA LoopsKeepTypes ==
    QueueTypes /\ RollTypes /\ LockInv /\ (MainPutEnd \/ MainStop \/ Monitor)
        => QueueTypes' /\ RollTypes'
<1> SUFFICES ASSUME QueueTypes, RollTypes, LockInv, MainPutEnd \/ MainStop \/ Monitor
             PROVE  QueueTypes' /\ RollTypes'
  OBVIOUS
<1> USE DEF MainPutEnd, MainStop, Monitor, MonitorCheck, MonitorPoll, MonitorUnpause
<1>1. LockTypes'
  <2>1. \E p \in Coroutines : Request(p) \/ (Holds(p) /\ (Release \/ ReleaseAndRequest(p)))
    BY DEF Coroutines
  <2> QED BY <2>1, LockSteps DEF RollTypes
<1>2. QueueTypes'
  <2>1. UNCHANGED queueVars \/ MQ!PutSample(EndOfStream)
    OBVIOUS
  <2>2. UNCHANGED queueVars => QueueTypes'
    BY DEF QueueTypes, queueVars
  <2> QED BY <2>1, <2>2, PutTypes
<1>3. TaskTypes' /\ CallTypes'
  BY DEF RollTypes, TaskTypes, CallTypes, taskVars, callVars
<1>4. FeedTypes'
  BY DEF RollTypes, FeedTypes, feedVars, procVars
<1>5. LoopTypes'
  <2>1. /\ UNCHANGED <<drainFor, reaped>> /\ procPc' \in {procPc, Notified(procPc)}
        /\ mainPc' \in {mainPc, "stopping", "stopped"}
        /\ monitorPc' \in {monitorPc, "sleep", "exited", "unpause", "check"}
    BY DEF procVars
  <2> QED BY <2>1 DEF RollTypes, LoopTypes, Notified
<1>6. FlagTypes'
  <2>1. /\ paused' = paused \/ paused' = FALSE
        /\ running' = running \/ running' = FALSE
        /\ UNCHANGED <<monitorTrigger, serversPaused, version>>
    BY DEF flagVars
  <2> QED BY <2>1 DEF RollTypes, FlagTypes
<1> QED
  BY <1>1, <1>2, <1>3, <1>4, <1>5, <1>6 DEF RollTypes

\* The trainer and the driver
LEMMA TrainerKeepsTypes == TypeOK /\ (Trainer \/ DriverClear) => TypeOK'
<1> SUFFICES ASSUME TypeOK, Trainer \/ DriverClear PROVE TypeOK'
  OBVIOUS
<1>a. QueueTypes /\ CallTypes /\ TrainerTypes /\ FeedTypes /\ TaskTypes /\ FlagTypes
      /\ LockTypes /\ LoopTypes
  BY TypeParts
<1>1. UNCHANGED <<feedVars, cancelQueue, taskVars, flagVars, staleness, lockVars, procVars,
                  mainPc, monitorPc>>
  BY DEF Trainer, DriverClear, GetWait, GetSample, GetEnd, Train, WaitValid, WaitFailed, SyncBegin,
         SyncEnd, LastValid, Log, rollVars
<1>2. FeedTypes' /\ TaskTypes' /\ FlagTypes' /\ LockTypes' /\ LoopTypes'
  BY <1>a, <1>1 DEF FeedTypes, TaskTypes, FlagTypes, LockTypes, LoopTypes, feedVars, taskVars,
     flagVars, lockVars, procVars
<1>3. QueueTypes'
  <2>1. CASE UNCHANGED queueVars
    BY <1>a, <2>1 DEF QueueTypes, queueVars
  <2>2. CASE MQ!Wait("trainer") \/ MQ!ClearQueue \/ MQ!Take("trainer")
    <3>1. queue' \in Seq(Samples \cup {EndOfStream})
      <4>1. queue' = queue \/ queue' = <<>> \/ (queue # <<>> /\ queue' = Tail(queue))
        BY <2>2 DEF MQ!Wait, MQ!ClearQueue, MQ!Take
      <4>2. queue \in Seq(Samples \cup {EndOfStream})
        BY <1>a DEF QueueTypes
      <4>3. CASE queue # <<>> /\ queue' = Tail(queue)
        BY <4>2, <4>3, HeadTail
      <4>4. CASE queue' = <<>>
        BY <4>4, Singleton
      <4> QED BY <4>1, <4>2, <4>3, <4>4
    <3>2. getState' \in [{"trainer"} -> {"out", "waiting", "woken"}]
      BY <1>a, <2>2 DEF QueueTypes, MQ!Wait, MQ!ClearQueue, MQ!Take
    <3>3. /\ UNCHANGED <<valQueue, mqRunning, mqVersion, totalProduced, droppedSamples>>
          /\ totalConsumed' \in {totalConsumed, totalConsumed + 1}
      BY <2>2 DEF MQ!Wait, MQ!ClearQueue, MQ!Take, MQ!mqCounters
    <3> QED BY <1>a, <3>1, <3>2, <3>3 DEF QueueTypes
  <2>3. CASE MQ!UpdateParamVersion(trainerVersion)
    BY <1>a, <2>3 DEF QueueTypes, TrainerTypes, MQ!UpdateParamVersion, MQ!mqCounters
  <2>4. CASE MQ!GetValidate
    <3>1. valQueue' \in Seq([version : Nat, metrics : BOOLEAN])
      BY <1>a, <2>4 DEF QueueTypes, MQ!GetValidate
    <3> QED BY <1>a, <2>4, <3>1 DEF QueueTypes, MQ!GetValidate, MQ!mqCounters
  <2> QED
    BY <2>1, <2>2, <2>3, <2>4 DEF Trainer, DriverClear, GetWait, GetSample, GetEnd, Train, WaitValid,
       WaitFailed, SyncBegin, SyncEnd, LastValid, Log
<1>4. CallTypes'
  <2>1. UNCHANGED <<snapshot, validating>>
    BY DEF Trainer, DriverClear, GetWait, GetSample, GetEnd, Train, WaitValid, WaitFailed, SyncBegin,
           SyncEnd, LastValid, Log, rollVars, callVars
  <2>2. /\ pausePc' \in {pausePc, "called"} /\ updatePc' \in {updatePc, "called"}
        /\ resumePc' \in {resumePc, "called"}
    BY DEF Trainer, DriverClear, GetWait, GetSample, GetEnd, Train, WaitValid, WaitFailed, SyncBegin,
           SyncEnd, LastValid, Log, rollVars, callVars
  <2>3. \/ updateArg' = updateArg
        \/ \E b \in BOOLEAN : updateArg' = [version |-> trainerVersion, validate |-> b]
    BY DEF Trainer, DriverClear, GetWait, GetSample, GetEnd, Train, WaitValid, WaitFailed, SyncBegin,
           SyncEnd, LastValid, Log, rollVars, callVars
  <2>5. updateArg' \in [version : Nat, validate : BOOLEAN]
    BY <1>a, <2>3 DEF CallTypes, TrainerTypes
  <2> QED BY <1>a, <2>1, <2>2, <2>5 DEF CallTypes
<1>5. TrainerTypes'
  <2>1. batch' \in Seq(Samples)
    <3>1. CASE GetSample
      <4>1. Head(queue) \in Samples
        BY <1>a, <3>1 DEF GetSample, MQ!Take, QueueTypes
      <4> QED BY <1>a, <3>1, <4>1 DEF GetSample, TrainerTypes
    <3>2. CASE ~GetSample
      <4>1. batch' = batch \/ batch' = <<>>
        BY <3>2 DEF Trainer, DriverClear, GetWait, GetEnd, Train, WaitValid,
           WaitFailed, SyncBegin, SyncEnd, LastValid, Log, trainerVars
      <4> QED BY <1>a, <4>1, Singleton DEF TrainerTypes
    <3> QED BY <3>1, <3>2
  <2>2. trained' \in SUBSET Samples
    BY <1>a DEF TrainerTypes, Trainer, DriverClear, GetWait, GetSample, GetEnd, Train, WaitValid,
         WaitFailed, SyncBegin, SyncEnd, LastValid, Log, trainerVars
  <2>3. trainerVersion' \in Nat /\ localStep' \in 1..Trigger
    BY <1>a, Sizes DEF TrainerTypes, Trainer, DriverClear, GetWait, GetSample, GetEnd, Train, WaitValid,
         WaitFailed, SyncBegin, SyncEnd, LastValid, Log, BeginSync, trainerVars
  <2>4. weights' \in Nat
    BY <1>a DEF TrainerTypes, Trainer, DriverClear, GetWait, GetSample, GetEnd, Train, WaitValid,
         WaitFailed, SyncBegin, SyncEnd, LastValid, Log, trainerVars
  <2>5. logged' \in SUBSET Nat
    <3>1. CASE Log
      <4>1. valQueue # <<>> => Head(valQueue).version \in Nat
        <5>1. valQueue # <<>> => Head(valQueue) \in [version : Nat, metrics : BOOLEAN]
          BY <1>a, HeadTail DEF QueueTypes
        <5> QED BY <5>1
      <4> QED BY <1>a, <3>1, <4>1 DEF Log, TrainerTypes
    <3>2. CASE ~Log
      BY <1>a, <3>2 DEF TrainerTypes, Trainer, DriverClear, GetWait, GetSample, GetEnd, Train, WaitValid,
         WaitFailed, SyncBegin, SyncEnd, LastValid, trainerVars
    <3> QED BY <3>1, <3>2
  <2>6. /\ phase' \in {phase, "final", "extra"}
        /\ trainerPc' \in {trainerPc, "log", "get", "train", "waitValid", "pausing", "transfer",
                           "lastValid", "done", "cleared", "failed"}
    BY DEF Trainer, DriverClear, GetWait, GetSample, GetEnd, Train, WaitValid, WaitFailed, SyncBegin,
           SyncEnd, LastValid, Log, BeginSync, trainerVars
  <2> QED BY <1>a, <2>1, <2>2, <2>3, <2>4, <2>5, <2>6 DEF TrainerTypes
<1> QED
  BY <1>2, <1>3, <1>4, <1>5, TypeParts

TypeInv == TypeOK /\ QuiesceInv

LEMMA NextTypes == TypeInv /\ [Next]_vars => TypeInv'
<1> SUFFICES ASSUME TypeInv, [Next]_vars PROVE TypeInv'
  OBVIOUS
<1>1. QuiesceInv'
  BY NextQuiesce DEF TypeInv
<1>2. QueueTypes /\ RollTypes /\ TrainerTypes /\ LockInv
  BY TypeParts DEF TypeInv, RollTypes, QuiesceInv
<1>3. CASE Rollout
  <2>1. QueueTypes' /\ RollTypes'
    BY <1>2, <1>3, FeedKeepsTypes, TasksKeepTypes, ProcessorKeepsTypes, CallsKeepTypes, LoopsKeepTypes
       DEF Rollout, RollNext
  <2>2. TrainerTypes'
    BY <1>2, <1>3 DEF Rollout, TrainerTypes, trainerVars
  <2> QED BY <1>1, <2>1, <2>2, TypeParts DEF TypeInv, RollTypes
<1>4. CASE Trainer \/ DriverClear
  BY <1>1, <1>4, TrainerKeepsTypes DEF TypeInv
<1>5. CASE UNCHANGED vars
  <2>1. QueueTypes' /\ RollTypes'
    BY <1>2, <1>5 DEF vars, rollVars, QueueTypes, RollTypes, FeedTypes, TaskTypes, FlagTypes, LockTypes,
       LoopTypes, CallTypes, queueVars, feedVars, taskVars, flagVars, lockVars, procVars, callVars
  <2>2. TrainerTypes'
    BY <1>2, <1>5 DEF vars, TrainerTypes, trainerVars
  <2> QED BY <1>1, <2>1, <2>2, TypeParts DEF TypeInv, RollTypes
<1> QED
  BY <1>3, <1>4, <1>5 DEF Next, Terminated

THEOREM FullyAsyncTypes == Spec => []TypeOK
<1>1. Init => TypeInv
  BY InitType, InitQuiesce DEF TypeInv
<1>2. TypeInv => TypeOK
  BY DEF TypeInv
<1> QED BY <1>1, <1>2, NextTypes, PTL DEF Spec

-----------------------------------------------------------------------------
(* Counting in sequences.                                                  *)

PlacesIn(seq, s) == {i \in 1..Len(seq) : seq[i] = s}

LEMMA CopiesType ==
    ASSUME NEW S, NEW q \in Seq(S), NEW s
    PROVE  /\ IsFiniteSet(PlacesIn(q, s)) /\ Copies(q, s) \in Nat
           /\ Copies(q, s) = Cardinality(PlacesIn(q, s))
           /\ Copies(q, s) = 0 <=> ~In(s, q)
           /\ Copies(q, s) <= Len(q)
<1>1. IsFiniteSet(1..Len(q)) /\ Cardinality(1..Len(q)) = Len(q) /\ Len(q) \in Nat
  <2>1. Len(q) \in Nat /\ Len(q) \in Int /\ 1 \in Int
    OBVIOUS
  <2> HIDE DEF One
  <2> QED BY <2>1, FS_Interval
<1>2. PlacesIn(q, s) \subseteq 1..Len(q)
  BY DEF PlacesIn
<1>3. IsFiniteSet(PlacesIn(q, s)) /\ Cardinality(PlacesIn(q, s)) <= Len(q)
  BY <1>1, <1>2, FS_Subset
<1>4. Copies(q, s) = Cardinality(PlacesIn(q, s))
  BY DEF Copies, PlacesIn
<1>5. Cardinality(PlacesIn(q, s)) \in Nat
  BY <1>3, FS_CardinalityType
<1>6. Cardinality(PlacesIn(q, s)) = 0 <=> PlacesIn(q, s) = {}
  BY <1>3, FS_EmptySet
<1>7. PlacesIn(q, s) = {} <=> ~In(s, q)
  BY DEF PlacesIn, In
<1> QED BY <1>3, <1>4, <1>5, <1>6, <1>7

LEMMA CopiesEmpty == \A s : Copies(<<>>, s) = 0
<1>1. \A s : {i \in 1..Len(<<>>) : <<>>[i] = s} = {}
  OBVIOUS
<1> QED BY <1>1, FS_EmptySet DEF Copies

LEMMA CopiesAppend ==
    ASSUME NEW S, NEW q \in Seq(S), NEW x \in S, NEW s
    PROVE  Copies(Append(q, x), s) = Copies(q, s) + One(x = s)
<1> DEFINE new == Append(q, x)
<1>1. new \in Seq(S) /\ Len(new) = Len(q) + 1 /\ new[Len(q) + 1] = x
      /\ \A i \in 1..Len(q) : new[i] = q[i]
  OBVIOUS
<1>2. Copies(new, s) = Cardinality(PlacesIn(new, s))
  BY <1>1, CopiesType
<1>3. /\ Copies(q, s) = Cardinality(PlacesIn(q, s)) /\ IsFiniteSet(PlacesIn(q, s))
      /\ Copies(q, s) \in Nat
  BY CopiesType
<1>4. Len(q) \in Nat
  OBVIOUS
<1> HIDE DEF new
<1>5. CASE x = s
  <2>1. PlacesIn(new, s) = PlacesIn(q, s) \cup {Len(q) + 1}
    BY <1>1, <1>4, <1>5 DEF PlacesIn
  <2>2. Len(q) + 1 \notin PlacesIn(q, s)
    BY <1>4 DEF PlacesIn
  <2>3. Cardinality(PlacesIn(q, s) \cup {Len(q) + 1}) = Cardinality(PlacesIn(q, s)) + 1
    BY <1>3, <2>2, FS_AddElement
  <2> QED BY <1>2, <1>3, <1>5, <2>1, <2>3 DEF One, new
<1>6. CASE x # s
  <2>1. PlacesIn(new, s) = PlacesIn(q, s)
    BY <1>1, <1>4, <1>6 DEF PlacesIn
  <2> QED BY <1>2, <1>3, <1>6, <2>1 DEF One, new
<1> QED BY <1>5, <1>6

LEMMA CopiesTail ==
    ASSUME NEW S, NEW q \in Seq(S), NEW s, q # <<>>
    PROVE  Copies(q, s) = Copies(Tail(q), s) + One(Head(q) = s)
<1> DEFINE rest == Tail(q)
<1>1. rest \in Seq(S) /\ Len(q) \in Nat \ {0} /\ Len(rest) = Len(q) - 1 /\ Head(q) = q[1]
      /\ \A i \in 1..Len(rest) : rest[i] = q[i + 1]
  OBVIOUS
<1> HIDE DEF rest
<1>2. /\ Copies(q, s) = Cardinality(PlacesIn(q, s)) /\ IsFiniteSet(PlacesIn(q, s))
      /\ Copies(rest, s) = Cardinality(PlacesIn(rest, s)) /\ IsFiniteSet(PlacesIn(rest, s))
      /\ Copies(rest, s) \in Nat
  BY <1>1, CopiesType
<1> DEFINE later == PlacesIn(q, s) \ {1}
           back == [i \in PlacesIn(rest, s) |-> i + 1]
<1>3. back \in Bijection(PlacesIn(rest, s), later)
  <2>1. \A i \in PlacesIn(rest, s) : i \in Nat /\ i + 1 \in later
    BY <1>1 DEF PlacesIn
  <2>2. \A j \in later : j - 1 \in PlacesIn(rest, s) /\ (j - 1) + 1 = j
    BY <1>1 DEF PlacesIn
  <2>3. \A i, j \in PlacesIn(rest, s) : back[i] = back[j] => i = j
    BY <2>1
  <2>4. \A j \in later : \E i \in PlacesIn(rest, s) : back[i] = j
    BY <2>2
  <2>5. back \in [PlacesIn(rest, s) -> later]
    BY <2>1
  <2> HIDE DEF later, back
  <2> QED BY <2>3, <2>4, <2>5 DEF Bijection, Injection, Surjection, IsInjective
<1>4. IsFiniteSet(later) /\ Cardinality(later) = Cardinality(PlacesIn(rest, s))
  BY <1>2, <1>3, FS_Bijection DEF ExistsBijection
<1>5. Cardinality(PlacesIn(q, s)) = Cardinality(later) + One(1 \in PlacesIn(q, s))
  <2>1. Cardinality(later) = IF 1 \in PlacesIn(q, s) THEN Cardinality(PlacesIn(q, s)) - 1
                                                     ELSE Cardinality(PlacesIn(q, s))
    BY <1>2, FS_RemoveElement
  <2>2. Cardinality(PlacesIn(q, s)) \in Nat
    BY <1>2, FS_CardinalityType
  <2> QED BY <2>1, <2>2 DEF One
<1>6. 1 \in PlacesIn(q, s) <=> Head(q) = s
  BY <1>1 DEF PlacesIn
<1> QED BY <1>2, <1>4, <1>5, <1>6 DEF One, rest

LEMMA CopiesUnique ==
    ASSUME NEW S, NEW q \in Seq(S), NEW s, Copies(q, s) <= 1,
           NEW i \in 1..Len(q), NEW j \in 1..Len(q), q[i] = s, q[j] = s
    PROVE  i = j
<1>1. /\ Copies(q, s) = Cardinality(PlacesIn(q, s)) /\ IsFiniteSet(PlacesIn(q, s))
  BY CopiesType
<1>2. i \in PlacesIn(q, s) /\ j \in PlacesIn(q, s)
  BY DEF PlacesIn
<1>3. ASSUME i # j PROVE FALSE
  <2>1. Cardinality({i} \cup {j}) = 2
    <3>1. IsFiniteSet({i}) /\ Cardinality({i}) = 1 /\ j \notin {i}
      BY <1>3, FS_Singleton
    <3>2. Cardinality({i} \cup {j}) = Cardinality({i}) + 1
      BY <3>1, FS_AddElement
    <3>3. Cardinality({i}) + 1 = 2
      <4>1. Cardinality({i}) = 1
        BY <3>1
      <4> QED BY <4>1
    <3> QED BY <3>2, <3>3
  <2>2. Cardinality({i} \cup {j}) <= Cardinality(PlacesIn(q, s))
    <3>1. {i} \cup {j} \in SUBSET PlacesIn(q, s)
      BY <1>2
    <3> QED BY <1>1, <3>1, FS_Subset
  <2>3. Cardinality(PlacesIn(q, s)) <= 1 /\ Cardinality(PlacesIn(q, s)) \in Nat
    BY <1>1, FS_CardinalityType
  <2> HIDE DEF Copies
  <2>4. 2 <= Cardinality(PlacesIn(q, s))
    BY <2>1, <2>2
  <2> QED BY <2>3, <2>4
<1> QED BY <1>3

-----------------------------------------------------------------------------
(* NoDuplicates.                                                           *)

\* A sample that has not been fed is nowhere, the others in one place at most.
PlacesInv ==
    \A s \in Samples : Places(s) <= 1 /\ (s > fed => Places(s) = 0)

SampleCounts(s) ==
    /\ Copies(pending, s) \in Nat /\ Copies(cancelQueue, s) \in Nat
    /\ Copies(queue, s) \in Nat /\ Copies(batch, s) \in Nat

LEMMA CountsType ==
    ASSUME NEW s
    PROVE  (TypeOK => SampleCounts(s)) /\ (TypeOK' => SampleCounts(s)')
BY CopiesType DEF TypeOK, SampleCounts

\* What put_sample adds, with what it drops from a full queue
LEMMA PutCopies ==
    ASSUME QueueTypes, NEW item \in Samples \cup {EndOfStream}, MQ!PutSample(item), NEW s
    PROVE  Copies(queue', s) <= Copies(queue, s) + One(item = s)
<1> DEFINE kept == IF MQ!QueueFull THEN Tail(queue) ELSE queue
<1>1. queue \in Seq(Samples \cup {EndOfStream})
  BY DEF QueueTypes
<1>2. MQ!QueueFull => queue # <<>>
  BY <1>1, Sizes DEF MQ!QueueFull
<1>3. kept \in Seq(Samples \cup {EndOfStream})
  BY <1>1, <1>2, HeadTail
<1>4. Copies(kept, s) <= Copies(queue, s) /\ Copies(kept, s) \in Nat /\ Copies(queue, s) \in Nat
  <2>1. CASE MQ!QueueFull
    <3>1. Copies(queue, s) = Copies(Tail(queue), s) + One(Head(queue) = s)
      BY <1>1, <1>2, <2>1, CopiesTail
    <3>2. Copies(Tail(queue), s) \in Nat
      BY <1>3, <2>1, CopiesType
    <3> QED BY <2>1, <3>1, <3>2 DEF One
  <2>2. CASE ~MQ!QueueFull
    BY <1>1, <2>2, CopiesType
  <2> QED BY <2>1, <2>2
<1>5. queue' = Append(kept, item)
  BY DEF MQ!PutSample
<1> HIDE DEF kept
<1>6. Copies(queue', s) = Copies(kept, s) + One(item = s)
  BY <1>3, <1>5, CopiesAppend
<1> QED BY <1>4, <1>6 DEF One

\* No step but the feeder's gives a sample a place more.
Fewer == \A s \in Samples : Places(s)' <= Places(s)

LEMMA FewerKeeps ==
    ASSUME TypeOK, TypeOK', PlacesInv, Fewer, fed' = fed
    PROVE  PlacesInv'
<1> SUFFICES ASSUME NEW s \in Samples
             PROVE  Places(s)' <= 1 /\ (s > fed => Places(s)' = 0)
  BY DEF PlacesInv
<1>1. Places(s)' \in Nat /\ Places(s) \in Nat
  BY CountsType DEF Places, SampleCounts, One
<1> QED
  BY <1>1 DEF PlacesInv, Fewer

LEMMA FeedPlaces == TypeOK /\ TypeOK' /\ PlacesInv /\ Feed /\ UNCHANGED trainerVars => PlacesInv'
<1> SUFFICES ASSUME TypeOK, TypeOK', PlacesInv, Feed, UNCHANGED trainerVars, NEW s \in Samples
             PROVE  Places(s)' <= 1 /\ (s > fed' => Places(s)' = 0)
  BY DEF PlacesInv
<1> DEFINE n == Burst(fed, MaxPending - Len(pending))
           new == [i \in 1..n |-> FeedItem(fed + i)]
<1>1. n > 0 /\ fed' = fed + n /\ pending' = pending \o new
  BY DEF Feed
<1>2. fed \in Nat /\ fed' \in Nat /\ pending \in Seq(Samples \cup {EndOfStream})
      /\ pending' \in Seq(Samples \cup {EndOfStream})
  BY DEF TypeOK
<1>3. n \in Int
  BY <1>2, Sizes DEF Burst
<1>4. n \in Nat
  BY <1>1, <1>3
<1> HIDE DEF n
<1>5. /\ Len(pending') = Len(pending) + n
      /\ \A i \in 1..Len(pending) : pending'[i] = pending[i]
      /\ \A i \in 1..n : pending'[Len(pending) + i] = FeedItem(fed + i)
  BY <1>1, <1>2, <1>4
<1>6. \A i \in 1..Len(pending') : i > Len(pending) /\ pending'[i] = s => i = Len(pending) + s - fed
  <2> TAKE i \in 1..Len(pending')
  <2> HAVE i > Len(pending) /\ pending'[i] = s
  <2>1. Len(pending) \in Nat /\ s \in 1..Total
    BY <1>2 DEF Samples
  <2>2. i - Len(pending) \in 1..n /\ Len(pending) + (i - Len(pending)) = i
    BY <1>4, <1>5, <2>1
  <2>3. pending'[i] = FeedItem(fed + (i - Len(pending)))
    BY <1>5, <2>2
  <2> QED BY <1>2, <2>1, <2>2, <2>3 DEF FeedItem, EndOfStream
<1>7. /\ Places(s)' = Copies(pending', s) + Copies(cancelQueue, s) + Copies(queue, s)
                      + Copies(batch, s) + One(hand = s) + One(task[s] # "none") + One(s \in trained)
  BY DEF Places, Feed, queueVars, procVars, taskVars, trainerVars
<1>8. SampleCounts(s) /\ Copies(pending', s) \in Nat
  BY CountsType DEF SampleCounts
<1>9. Copies(pending', s) = Cardinality(PlacesIn(pending', s))
      /\ Copies(pending, s) = Cardinality(PlacesIn(pending, s))
  BY <1>2, CopiesType
<1>10. CASE s <= fed
  <2>1. PlacesIn(pending', s) = PlacesIn(pending, s)
    <3>1. \A i \in 1..Len(pending') : pending'[i] = s => i \in 1..Len(pending)
      BY <1>2, <1>4, <1>5, <1>6, <1>10 DEF Samples
    <3> QED BY <1>2, <1>4, <1>5, <3>1 DEF PlacesIn
  <2>2. Places(s)' = Places(s)
    BY <1>7, <1>9, <2>1 DEF Places
  <2> QED BY <1>1, <1>2, <1>4, <1>10, <2>2 DEF PlacesInv, Samples
<1>11. CASE s > fed
  <2>1. Places(s) = 0
    BY <1>11 DEF PlacesInv
  <2>2. /\ Copies(pending, s) = 0 /\ Copies(cancelQueue, s) + Copies(queue, s) + Copies(batch, s)
             + One(hand = s) + One(task[s] # "none") + One(s \in trained) = 0
    BY <1>8, <2>1 DEF Places, SampleCounts, One
  <2>3. Places(s)' = Copies(pending', s)
    BY <1>7, <1>8, <2>2 DEF SampleCounts, One
  <2>4. ~In(s, pending)
    BY <1>2, <2>2, CopiesType
  <2>5. PlacesIn(pending', s) \subseteq {Len(pending) + s - fed}
    BY <1>2, <1>4, <1>5, <1>6, <2>4 DEF PlacesIn, In
  <2>6. Copies(pending', s) <= 1
    <3>1. IsFiniteSet({Len(pending) + s - fed}) /\ Cardinality({Len(pending) + s - fed}) = 1
      BY FS_Singleton
    <3>2. PlacesIn(pending', s) \in SUBSET {Len(pending) + s - fed}
      BY <2>5
    <3>3. Cardinality(PlacesIn(pending', s)) <= 1
      BY <3>1, <3>2, FS_Subset
    <3> QED BY <1>9, <3>3
  <2>7. ASSUME s > fed' PROVE Copies(pending', s) = 0
    <3>1. Len(pending) + s - fed \notin 1..Len(pending')
      BY <1>1, <1>2, <1>4, <1>5, <2>7 DEF Samples
    <3>2. PlacesIn(pending', s) = {}
      BY <2>5, <3>1 DEF PlacesIn
    <3> QED BY <1>9, <3>2, FS_EmptySet
  <2> QED BY <2>3, <2>6, <2>7
<1> QED
  BY <1>2, <1>10, <1>11 DEF Samples

LEMMA ProcessorPlaces == TypeOK /\ TypeOK' /\ Processor /\ UNCHANGED trainerVars => Fewer
<1> SUFFICES ASSUME TypeOK, TypeOK', Processor, UNCHANGED trainerVars, NEW s \in Samples
             PROVE  Places(s)' <= Places(s)
  BY DEF Fewer
<1>1. SampleCounts(s) /\ SampleCounts(s)'
  BY CountsType
<1>2. UNCHANGED <<queue, batch, trained>> /\ s # EndOfStream
  BY DEF Processor, ProcTop, ProcFetchWait, ProcSetPaused, ProcDrain, ProcReap, ProcIdle, ProcSubmit,
         ProcWoken, queueVars, trainerVars, Samples, EndOfStream
<1>3. CASE FetchPending /\ UNCHANGED task
  <2>1. pending \in Seq(Samples \cup {EndOfStream}) /\ pending # <<>>
    BY <1>3 DEF TypeOK, FetchPending
  <2>2. Copies(pending, s) = Copies(pending', s) + One(hand' = s)
    BY <1>3, <2>1, CopiesTail DEF FetchPending, Dispatch
  <2>3. UNCHANGED cancelQueue
    BY <1>3 DEF FetchPending
  <2> QED BY <1>1, <1>2, <1>3, <2>2, <2>3 DEF Places, SampleCounts, One
<1>4. CASE FetchCancelled /\ UNCHANGED task
  <2>1. cancelQueue \in Seq(Samples) /\ cancelQueue # <<>>
    BY <1>4 DEF TypeOK, FetchCancelled
  <2>2. Copies(cancelQueue, s) = Copies(cancelQueue', s) + One(hand' = s)
    BY <1>4, <2>1, CopiesTail DEF FetchCancelled, Dispatch
  <2>3. UNCHANGED pending
    BY <1>4 DEF FetchCancelled, feedVars
  <2> QED BY <1>1, <1>2, <1>4, <2>2, <2>3 DEF Places, SampleCounts, One
<1>5. CASE ProcSubmit /\ ~paused
  <2>1. UNCHANGED <<pending, cancelQueue>> /\ task' = [task EXCEPT ![hand] = "new"] /\ hand' = EndOfStream
    BY <1>5 DEF ProcSubmit, feedVars
  <2>2. One(hand' = s) + One(task'[s] # "none") <= One(hand = s) + One(task[s] # "none")
    <3>1. /\ task \in [Samples -> {"none", "new", "gen", "put"}]
          /\ hand \in Samples \cup {EndOfStream}
      BY DEF TypeOK
    <3>2. s = hand => task'[s] # "none" /\ hand' # s
      BY <1>2, <2>1, <3>1
    <3>3. s # hand => task'[s] = task[s] /\ hand' # s
      BY <1>2, <2>1, <3>1
    <3> QED BY <3>2, <3>3 DEF One
  <2>3. /\ One(hand' = s) \in Nat /\ One(task'[s] # "none") \in Nat
        /\ One(hand = s) \in Nat /\ One(task[s] # "none") \in Nat /\ One(s \in trained) \in Nat
    BY DEF One
  <2> QED BY <1>1, <1>2, <2>1, <2>2, <2>3 DEF Places, SampleCounts
<1>6. CASE UNCHANGED <<pending, cancelQueue, task, hand>>
  BY <1>1, <1>2, <1>6 DEF Places, SampleCounts, One
<1> QED
  BY <1>3, <1>4, <1>5, <1>6 DEF Processor, ProcTop, ProcFetchWait, ProcSetPaused, ProcDrain, ProcReap,
     ProcIdle, ProcSubmit, ProcWoken, feedVars, taskVars

LEMMA TaskPlaces ==
    ASSUME TypeOK, TypeOK', NEW t \in Samples, Task(t) \/ TaskFail(t), UNCHANGED trainerVars
    PROVE  Fewer
<1> SUFFICES ASSUME NEW s \in Samples
             PROVE  Places(s)' <= Places(s)
  BY DEF Fewer
<1>1. SampleCounts(s) /\ SampleCounts(s)'
  BY CountsType
<1>2. UNCHANGED <<pending, hand, batch, trained>>
  BY DEF Task, TaskStart, TaskCut, TaskGenerated, TaskPut, TaskFail, TaskFrame, feedVars, procVars,
         trainerVars
<1>3. CASE TaskCut(t)
  <2>1. Copies(cancelQueue', s) = Copies(cancelQueue, s) + One(t = s)
    <3>1. cancelQueue \in Seq(Samples) /\ cancelQueue' = Append(cancelQueue, t)
      BY <1>3 DEF TypeOK, TaskCut
    <3> QED BY <3>1, CopiesAppend
  <2>2. UNCHANGED queue
    BY <1>3 DEF TaskCut, queueVars
  <2>3. One(task'[s] # "none") = One(task[s] # "none") - One(t = s)
    <3>1. /\ task \in [Samples -> {"none", "new", "gen", "put"}]
          /\ task[t] # "none" /\ task' = [task EXCEPT ![t] = "none"]
      BY <1>3 DEF TypeOK, TaskCut
    <3>2. t = s => task[s] # "none" /\ task'[s] = "none"
      BY <3>1
    <3>3. t # s => task'[s] = task[s]
      BY <3>1
    <3> QED BY <3>2, <3>3 DEF One
  <2> QED BY <1>1, <1>2, <2>1, <2>2, <2>3 DEF Places, SampleCounts, One
<1>4. CASE TaskPut(t)
  <2>1. Copies(queue', s) <= Copies(queue, s) + One(t = s)
    BY <1>4, PutCopies, TypeParts DEF TaskPut
  <2>2. UNCHANGED cancelQueue
    BY <1>4 DEF TaskPut
  <2>3. One(task'[s] # "none") = One(task[s] # "none") - One(t = s)
    <3>1. /\ task \in [Samples -> {"none", "new", "gen", "put"}]
          /\ task[t] # "none" /\ task' = [task EXCEPT ![t] = "none"]
      BY <1>4 DEF TypeOK, TaskPut
    <3>2. t = s => task[s] # "none" /\ task'[s] = "none"
      BY <3>1
    <3>3. t # s => task'[s] = task[s]
      BY <3>1
    <3> QED BY <3>2, <3>3 DEF One
  <2> QED BY <1>1, <1>2, <2>1, <2>2, <2>3 DEF Places, SampleCounts, One
<1>5. CASE TaskStart(t) \/ TaskGenerated(t) \/ TaskFail(t)
  <2>1. UNCHANGED <<queue, cancelQueue>>
    BY <1>5 DEF TaskStart, TaskGenerated, TaskFail, queueVars
  <2>2. task'[s] # "none" => task[s] # "none"
    BY <1>5 DEF TaskStart, TaskGenerated, TaskFail, TypeOK
  <2> QED BY <1>1, <1>2, <2>1, <2>2 DEF Places, SampleCounts, One
<1> QED
  BY <1>3, <1>4, <1>5 DEF Task

LEMMA TrainerPlaces ==
    TypeOK /\ TypeOK' /\ (Trainer \/ DriverClear) => Fewer
<1> SUFFICES ASSUME TypeOK, TypeOK', Trainer \/ DriverClear, NEW s \in Samples
             PROVE  Places(s)' <= Places(s)
  BY DEF Fewer
<1>1. SampleCounts(s) /\ SampleCounts(s)'
  BY CountsType
<1>2. UNCHANGED <<pending, cancelQueue, hand, task>>
  BY DEF Trainer, DriverClear, GetWait, GetSample, GetEnd, Train, WaitValid, WaitFailed, SyncBegin,
         SyncEnd, LastValid, Log, rollVars, feedVars, procVars, taskVars
<1>3. Copies(<<>>, s) = 0
  BY CopiesEmpty
<1>4. CASE GetSample
  <2>1. queue \in Seq(Samples \cup {EndOfStream}) /\ queue # <<>> /\ queue' = Tail(queue)
    BY <1>4 DEF GetSample, MQ!Take, TypeOK
  <2>2. Copies(queue, s) = Copies(queue', s) + One(Head(queue) = s)
    BY <2>1, CopiesTail
  <2>3. batch \in Seq(Samples) /\ Head(queue) \in Samples /\ batch' = Append(batch, Head(queue))
    BY <1>4, <2>1, HeadTail DEF TypeOK, GetSample
  <2>4. Copies(batch', s) = Copies(batch, s) + One(Head(queue) = s)
    BY <2>3, CopiesAppend
  <2>5. UNCHANGED trained
    BY <1>4 DEF GetSample
  <2> QED BY <1>1, <1>2, <2>2, <2>4, <2>5 DEF Places, SampleCounts, One
<1>5. CASE GetEnd
  <2>1. queue \in Seq(Samples \cup {EndOfStream}) /\ queue # <<>> /\ queue' = Tail(queue)
    BY <1>5 DEF GetEnd, MQ!Take, TypeOK
  <2>2. Copies(queue, s) = Copies(queue', s) + One(Head(queue) = s)
    BY <2>1, CopiesTail
  <2>3. batch' = <<>> /\ UNCHANGED trained
    BY <1>5 DEF GetEnd
  <2> QED BY <1>1, <1>2, <1>3, <2>2, <2>3 DEF Places, SampleCounts, One
<1>6. CASE Train
  <2>1. UNCHANGED queue /\ batch' = <<>>
    BY <1>6 DEF Train, queueVars
  <2>2. s \in trained' /\ s \notin trained => In(s, batch)
    BY <1>6 DEF Train, In
  <2>3. In(s, batch) => Copies(batch, s) >= 1
    <3>1. batch \in Seq(Samples)
      BY DEF TypeOK
    <3>2. Copies(batch, s) \in Nat /\ (Copies(batch, s) = 0 <=> ~In(s, batch))
      BY <3>1, CopiesType
    <3> QED BY <3>2
  <2> QED BY <1>1, <1>2, <1>3, <2>1, <2>2, <2>3 DEF Places, SampleCounts, One
<1>7. CASE DriverClear
  BY <1>1, <1>2, <1>3, <1>7 DEF DriverClear, MQ!ClearQueue, Places, SampleCounts, One
<1>8. CASE GetWait \/ WaitValid \/ WaitFailed \/ SyncBegin \/ SyncEnd \/ LastValid \/ Log
  <2>1. UNCHANGED <<queue, batch, trained>>
    BY <1>8 DEF GetWait, WaitValid, WaitFailed, SyncBegin, SyncEnd, LastValid, Log, MQ!Wait,
       MQ!UpdateParamVersion, MQ!GetValidate, queueVars, trainerVars
  <2> QED BY <1>1, <1>2, <2>1 DEF Places, SampleCounts, One
<1> QED
  BY <1>4, <1>5, <1>6, <1>7, <1>8 DEF Trainer

LEMMA OtherPlaces ==
    TypeOK /\ TypeOK' /\ UNCHANGED trainerVars
    /\ (MainPutEnd \/ MainStop \/ Monitor \/ Pause \/ Update \/ ValidationDone \/ Resume) => Fewer
<1> SUFFICES ASSUME TypeOK, TypeOK', UNCHANGED trainerVars,
                    MainPutEnd \/ MainStop \/ Monitor \/ Pause \/ Update \/ ValidationDone \/ Resume,
                    NEW s \in Samples
             PROVE  Places(s)' <= Places(s)
  BY DEF Fewer
<1>1. SampleCounts(s) /\ SampleCounts(s)'
  BY CountsType
<1>2. UNCHANGED <<pending, cancelQueue, hand, task, batch, trained>>
  BY DEF MainPutEnd, MainStop, Monitor, MonitorCheck, MonitorPoll, MonitorUnpause, Pause, PauseArrive,
         PauseStart, PauseGathered, PauseEnd, Update, UpdateArrive, UpdateStart, UpdateCount,
         UpdatePublish, UpdateSpawnValidation, UpdateFrame, ValidationDone, Resume, ResumeArrive,
         ResumeServers, ResumeRun, feedVars, taskVars, procVars, trainerVars
<1>3. Copies(queue', s) <= Copies(queue, s)
  <2>1. CASE MainPutEnd
    <3>1. Copies(queue', s) <= Copies(queue, s) + One(EndOfStream = s)
      BY <2>1, PutCopies, TypeParts DEF MainPutEnd
    <3> QED BY <1>1, <3>1 DEF One, SampleCounts, Samples, EndOfStream
  <2>2. CASE ~MainPutEnd
    <3>1. UNCHANGED queue
      BY <2>2 DEF MainStop, Monitor, MonitorCheck, MonitorPoll, MonitorUnpause, Pause, PauseArrive,
         PauseStart, PauseGathered, PauseEnd, Update, UpdateArrive, UpdateStart, UpdateCount,
         UpdatePublish, UpdateSpawnValidation, UpdateFrame, ValidationDone, Resume, ResumeArrive,
         ResumeServers, ResumeRun, MQ!PutValidate, queueVars
    <3> QED BY <1>1, <3>1 DEF SampleCounts
  <2> QED BY <2>1, <2>2
<1> QED BY <1>1, <1>2, <1>3 DEF Places, SampleCounts, One

LEMMA NextPlaces == TypeInv /\ PlacesInv /\ [Next]_vars => PlacesInv'
<1> SUFFICES ASSUME TypeInv, PlacesInv, [Next]_vars PROVE PlacesInv'
  OBVIOUS
<1>1. TypeOK /\ TypeOK'
  BY NextTypes DEF TypeInv
<1>2. CASE Feed /\ UNCHANGED trainerVars
  BY <1>1, <1>2, FeedPlaces
<1>3. CASE UNCHANGED vars
  BY <1>3 DEF vars, rollVars, trainerVars, queueVars, feedVars, procVars, taskVars, PlacesInv, Places
<1>4. ASSUME Fewer, fed' = fed PROVE PlacesInv'
  BY <1>1, <1>4, FewerKeeps
<1>5. CASE Processor /\ UNCHANGED trainerVars
  <2>1. fed' = fed
    BY <1>5 DEF Processor, ProcTop, ProcFetchWait, FetchCancelled, FetchPending, ProcSetPaused, ProcDrain,
       ProcReap, ProcIdle, ProcSubmit, ProcWoken, feedVars
  <2> QED BY <1>1, <1>4, <1>5, <2>1, ProcessorPlaces
<1>6. CASE Trainer \/ DriverClear
  <2>1. fed' = fed
    BY <1>6 DEF Trainer, DriverClear, GetWait, GetSample, GetEnd, Train, WaitValid, WaitFailed,
       SyncBegin, SyncEnd, LastValid, Log, rollVars, feedVars
  <2> QED BY <1>1, <1>4, <1>6, <2>1, TrainerPlaces
<1>7. ASSUME NEW t \in Samples, Task(t) \/ TaskFail(t), UNCHANGED trainerVars PROVE PlacesInv'
  <2>1. fed' = fed
    BY <1>7 DEF Task, TaskStart, TaskCut, TaskGenerated, TaskPut, TaskFail, TaskFrame, feedVars
  <2> QED BY <1>1, <1>4, <1>7, <2>1, TaskPlaces
<1>8. CASE /\ UNCHANGED trainerVars
           /\ MainPutEnd \/ MainStop \/ Monitor \/ Pause \/ Update \/ ValidationDone \/ Resume
  <2>1. fed' = fed
    BY <1>8 DEF MainPutEnd, MainStop, Monitor, MonitorCheck, MonitorPoll, MonitorUnpause, Pause,
         PauseArrive,
         PauseStart, PauseGathered, PauseEnd, Update, UpdateArrive, UpdateStart, UpdateCount,
         UpdatePublish, UpdateSpawnValidation, UpdateFrame, ValidationDone, Resume, ResumeArrive,
         ResumeServers, ResumeRun, feedVars
  <2> QED BY <1>1, <1>4, <1>8, <2>1, OtherPlaces
<1> QED
  BY <1>2, <1>3, <1>5, <1>6, <1>7, <1>8 DEF Next, Rollout, RollNext, Terminated

LEMMA InitPlaces == Init => PlacesInv
<1> SUFFICES ASSUME Init, NEW s \in Samples
             PROVE  Places(s) <= 1 /\ (s > fed => Places(s) = 0)
  BY DEF PlacesInv
<1>1. TypeOK
  BY InitType
<1>2. fed \in Nat /\ Len(pending) = fed /\ \A i \in 1..fed : pending[i] = FeedItem(i)
  BY <1>1 DEF Init, RollInit, TypeOK
<1>3. PlacesIn(pending, s) \subseteq {s} /\ (s > fed => PlacesIn(pending, s) = {})
  BY <1>2 DEF PlacesIn, FeedItem, EndOfStream, Samples
<1>4. Copies(pending, s) <= 1 /\ (s > fed => Copies(pending, s) = 0) /\ Copies(pending, s) \in Nat
  <2>1. Copies(pending, s) = Cardinality(PlacesIn(pending, s)) /\ Copies(pending, s) \in Nat
    BY <1>1, CopiesType DEF TypeOK
  <2>2. IsFiniteSet({s}) /\ Cardinality({s}) = 1 /\ Cardinality({}) = 0
    BY FS_Singleton, FS_EmptySet
  <2>3. PlacesIn(pending, s) \in SUBSET {s}
    BY <1>3
  <2>4. Cardinality(PlacesIn(pending, s)) <= 1
    BY <2>2, <2>3, FS_Subset
  <2> QED BY <1>3, <2>1, <2>2, <2>4
<1>5. Places(s) = Copies(pending, s)
  <2>1. /\ cancelQueue = <<>> /\ queue = <<>> /\ batch = <<>> /\ hand # s /\ task[s] = "none"
        /\ s \notin trained
    BY DEF Init, RollInit, EndOfStream, Samples
  <2>2. Copies(<<>>, s) = 0
    BY CopiesEmpty
  <2> QED BY <1>4, <2>1, <2>2 DEF Places, One
<1> QED BY <1>4, <1>5

\* No sample is in two places.
THEOREM NoSampleTwice == Spec => []NoDuplicates
<1>1. Init => TypeInv /\ PlacesInv
  BY InitType, InitQuiesce, InitPlaces DEF TypeInv
<1>2. PlacesInv => NoDuplicates
  BY DEF PlacesInv, NoDuplicates
<1> QED BY <1>1, <1>2, NextTypes, NextPlaces, PTL DEF Spec

(***************************************************************************)
(* PART TWO.  The staleness of samples.                                    *)
(*                                                                         *)
(* staleness_samples covers what is in flight, no batch is more than a     *)
(* bounded number of versions old, and without a staleness threshold every *)
(* batch is on policy.                                                     *)
(*                                                                         *)
(* StalenessCovers needs what update_param_version has counted when it     *)
(* waits for the size of the message queue (CoverInv): it holds the lock,  *)
(* so that nothing is submitted between its two counts.                    *)
(*                                                                         *)
(* VersionLagBound speaks of a full batch; what makes it inductive is the  *)
(* same bound for every sample the trainer has or is about to get, with    *)
(* the versions that pass until it is trained on (LagInv).  A training     *)
(* step moves every sample Required places forward, so that the sum stays  *)
(* the same.  A sample that is put has at most MaxRequired - 1 samples of  *)
(* the queue and an unfinished batch in front of it, and was stamped at    *)
(* most Slack versions ago (PutInv), which follows from how the versions   *)
(* of trainer and rollouter go together (CallInv).                         *)
(*                                                                         *)
(* OnPolicy is about staleness_threshold = 0.  Then the samples the        *)
(* trainer has used of a version and those outstanding are together at     *)
(* most what the version is trained on (RoomInv), so that nothing is       *)
(* outstanding when its last step is over, and the rollouter is blocked    *)
(* until update_param_version has counted.  After the loop the processor   *)
(* has ended, and what pause() has quiesced stays so (EndInv, QuietInv).   *)
(***************************************************************************)

-----------------------------------------------------------------------------
(* StalenessCovers.                                                        *)

\* The samples in the message queue, and those with the generation
Ready == Len(queue) - Copies(queue, EndOfStream)
Flight == Cardinality(Live) + Len(cancelQueue)

LEMMA QueueCopies ==
    \A q \in Seq(Samples \cup {EndOfStream}) : \A s :
        Copies(q, s) \in Nat /\ Len(q) \in Nat /\ Copies(q, s) <= Len(q)
<1> SUFFICES ASSUME NEW q \in Seq(Samples \cup {EndOfStream}), NEW s
             PROVE  Copies(q, s) \in Nat /\ Len(q) \in Nat /\ Copies(q, s) <= Len(q)
  OBVIOUS
<1>1. Copies(q, s) \in Nat /\ Copies(q, s) <= Len(q)
  BY CopiesType
<1>2. Len(q) \in Nat
  OBVIOUS
<1> QED BY <1>1, <1>2

LEMMA LiveFiniteNext == IsFiniteSet(Live') /\ Cardinality(Live') \in Nat
<1>1. IsFiniteSet(1..Total)
  BY Sizes, FS_Interval
<1>2. Live' \in SUBSET (1..Total)
  BY DEF Live, Samples
<1> QED BY <1>1, <1>2, FS_Subset, FS_CardinalityType

Counts ==
    /\ Ready \in Nat /\ Flight \in Nat
    /\ Len(queue) \in Nat /\ Len(cancelQueue) \in Nat /\ Cardinality(Live) \in Nat
    /\ Outstanding = One(hand # EndOfStream) + Flight + Ready /\ Outstanding \in Nat

LEMMA CountTypes == (TypeOK => Counts) /\ (TypeOK' => Counts')
<1>1. ASSUME TypeOK PROVE Counts
  <2>1. queue \in Seq(Samples \cup {EndOfStream}) /\ cancelQueue \in Seq(Samples)
    BY <1>1 DEF TypeOK
  <2>2. Len(cancelQueue) \in Nat
    BY <2>1
  <2>3. Len(queue) \in Nat /\ Copies(queue, EndOfStream) \in Nat /\ Copies(queue, EndOfStream) <= Len(queue)
    BY <2>1, QueueCopies
  <2>4. Cardinality(Live) \in Nat
    BY LiveFinite
  <2>5. Ready \in Nat /\ Flight \in Nat
    BY <2>2, <2>3, <2>4 DEF Ready, Flight
  <2>6. One(hand # EndOfStream) \in Nat
    BY DEF One
  <2> QED BY <2>2, <2>3, <2>4, <2>5, <2>6 DEF Counts, Outstanding, Ready, Flight
<1>2. ASSUME TypeOK' PROVE Counts'
  <2>1. queue' \in Seq(Samples \cup {EndOfStream}) /\ cancelQueue' \in Seq(Samples)
    BY <1>2 DEF TypeOK
  <2>2. Len(cancelQueue') \in Nat
    BY <2>1
  <2>3. /\ Len(queue') \in Nat /\ Copies(queue', EndOfStream) \in Nat
        /\ Copies(queue', EndOfStream) <= Len(queue')
    BY <2>1, QueueCopies
  <2>4. Cardinality(Live)' \in Nat
    BY LiveFiniteNext
  <2>5. Ready' \in Nat /\ Flight' \in Nat
    BY <2>2, <2>3, <2>4 DEF Ready, Flight
  <2>6. One(hand' # EndOfStream) \in Nat
    BY DEF One
  <2> QED BY <2>2, <2>3, <2>4, <2>5, <2>6 DEF Counts, Outstanding, Ready, Flight
<1> QED BY <1>1, <1>2

LEMMA PutReady ==
    ASSUME QueueTypes, NEW item \in Samples \cup {EndOfStream}, MQ!PutSample(item)
    PROVE  Len(queue') - Copies(queue', EndOfStream)
             <= Len(queue) - Copies(queue, EndOfStream) + One(item # EndOfStream)
<1> DEFINE kept == IF MQ!QueueFull THEN Tail(queue) ELSE queue
           Held(q) == Len(q) - Copies(q, EndOfStream)
<1>1. queue \in Seq(Samples \cup {EndOfStream})
  BY DEF QueueTypes
<1>2. MQ!QueueFull => queue # <<>>
  BY <1>1, Sizes DEF MQ!QueueFull
<1>3. kept \in Seq(Samples \cup {EndOfStream})
  BY <1>1, <1>2, HeadTail
<1>4. Held(kept) <= Held(queue)
  <2>1. CASE MQ!QueueFull
    <3>1. Copies(queue, EndOfStream) = Copies(Tail(queue), EndOfStream) + One(Head(queue) = EndOfStream)
      BY <1>1, <1>2, <2>1, CopiesTail
    <3>2. Copies(Tail(queue), EndOfStream) \in Nat
      BY <1>3, <2>1, CopiesType
    <3>3. Len(Tail(queue)) = Len(queue) - 1 /\ Len(queue) \in Nat
      BY <1>1, <1>2, <2>1
    <3> QED BY <2>1, <3>1, <3>2, <3>3 DEF One
  <2>2. CASE ~MQ!QueueFull
    <3>1. Copies(queue, EndOfStream) \in Nat /\ Len(queue) \in Nat
      BY <1>1, CopiesType
    <3> QED BY <2>2, <3>1
  <2> QED BY <2>1, <2>2
<1>5. queue' = Append(kept, item)
  BY DEF MQ!PutSample
<1>6. Copies(kept, EndOfStream) \in Nat /\ Copies(queue, EndOfStream) \in Nat
      /\ Len(kept) \in Nat /\ Len(queue) \in Nat
  BY <1>1, <1>3, QueueCopies
<1> HIDE DEF kept
<1>7. Copies(queue', EndOfStream) = Copies(kept, EndOfStream) + One(item = EndOfStream)
  BY <1>3, <1>5, CopiesAppend
<1>8. Len(queue') = Len(kept) + 1
  BY <1>3, <1>5
<1> QED BY <1>4, <1>6, <1>7, <1>8 DEF One

LEMMA TakeReady ==
    ASSUME QueueTypes, MQ!Take("trainer")
    PROVE  Ready' = Ready - One(Head(queue) # EndOfStream)
<1>1. queue \in Seq(Samples \cup {EndOfStream}) /\ queue # <<>> /\ queue' = Tail(queue)
  BY DEF QueueTypes, MQ!Take
<1>2. Copies(queue, EndOfStream) = Copies(queue', EndOfStream) + One(Head(queue) = EndOfStream)
  BY <1>1, CopiesTail
<1>3. Copies(queue, EndOfStream) \in Nat /\ Copies(queue', EndOfStream) \in Nat
  BY <1>1, HeadTail, QueueCopies
<1>4. Len(queue') = Len(queue) - 1 /\ Len(queue) \in Nat
  BY <1>1
<1> QED BY <1>2, <1>3, <1>4 DEF Ready, One

\* How many tasks live when one starts, goes on or ends
LEMMA LiveSteps ==
    ASSUME TaskTypes, NEW s \in Samples, NEW st \in {"none", "new", "gen", "put"},
           task' = [task EXCEPT ![s] = st]
    PROVE  /\ task[s] # "none" /\ st = "none" => Cardinality(Live') = Cardinality(Live) - 1
           /\ task[s] # "none" /\ st # "none" => Live' = Live
           /\ Cardinality(Live') <= Cardinality(Live) + 1
<1>1. task \in [Samples -> {"none", "new", "gen", "put"}]
  BY DEF TaskTypes
<1>2. IsFiniteSet(Live) /\ Cardinality(Live) \in Nat
  BY LiveFinite
<1>3. st = "none" => Live' = Live \ {s}
  BY <1>1 DEF Live
<1>4. st # "none" => Live' = Live \cup {s}
  BY <1>1 DEF Live
<1>5. s \in Live <=> task[s] # "none"
  BY DEF Live
<1>6. Cardinality(Live \ {s}) = IF s \in Live THEN Cardinality(Live) - 1 ELSE Cardinality(Live)
  BY <1>2, FS_RemoveElement
<1>7. Cardinality(Live \cup {s}) = IF s \in Live THEN Cardinality(Live) ELSE Cardinality(Live) + 1
  BY <1>2, FS_AddElement
<1>8. task[s] # "none" /\ st = "none" => Cardinality(Live') = Cardinality(Live) - 1
  BY <1>3, <1>5, <1>6
<1>9. task[s] # "none" /\ st # "none" => Live' = Live
  BY <1>4, <1>5
<1>10. Cardinality(Live') <= Cardinality(Live) + 1
  <2>1. CASE st = "none"
    <3>1. Cardinality(Live') = Cardinality(Live \ {s})
      BY <1>3, <2>1
    <3> QED BY <1>2, <1>6, <3>1
  <2>2. CASE st # "none"
    <3>1. Cardinality(Live') = Cardinality(Live \cup {s})
      BY <1>4, <2>2
    <3> QED BY <1>2, <1>7, <3>1
  <2> QED BY <2>1, <2>2
<1> QED BY <1>8, <1>9, <1>10

\* What is outstanding grows when the processor takes up a new sample only.
Settled == Outstanding' <= Outstanding /\ Flight' <= Flight
FetchesNew ==
    /\ FetchPending /\ UNCHANGED <<task, queue>> /\ procPc \in {"top", "fetchWait"}
    /\ Outstanding' <= Outstanding + 1 /\ Flight' = Flight
Submits ==
    /\ procPc = "submit" /\ Holds("processor") /\ UNCHANGED staleness
    /\ Outstanding' <= Outstanding

LEMMA ProcessorCount ==
    TypeOK /\ TypeOK' /\ Processor =>
        \/ Settled /\ UNCHANGED staleness
        \/ FetchesNew
        \/ Submits
<1> SUFFICES ASSUME TypeOK, TypeOK', Processor
             PROVE  (Settled /\ UNCHANGED staleness) \/ FetchesNew \/ Submits
  OBVIOUS
<1>1. /\ Ready \in Nat /\ Flight \in Nat /\ Ready' \in Nat /\ Flight' \in Nat
      /\ Outstanding = One(hand # EndOfStream) + Flight + Ready
      /\ Outstanding' = One(hand' # EndOfStream) + Flight' + Ready'
      /\ Cardinality(Live) \in Nat
  BY CountTypes DEF Counts
<1>2. UNCHANGED queue /\ Ready' = Ready
  BY DEF Processor, ProcTop, ProcFetchWait, ProcSetPaused, ProcDrain, ProcReap, ProcIdle, ProcSubmit,
         ProcWoken, queueVars, Ready
<1>3. CASE FetchPending /\ UNCHANGED task /\ procPc \in {"top", "fetchWait"}
  <2>1. Flight' = Flight
    BY <1>3 DEF FetchPending, Flight, Live
  <2> QED BY <1>1, <1>2, <1>3, <2>1 DEF FetchesNew, One
<1>4. CASE FetchCancelled /\ UNCHANGED task
  <2>1. cancelQueue \in Seq(Samples) /\ cancelQueue # <<>> /\ cancelQueue' = Tail(cancelQueue)
    BY <1>4 DEF TypeOK, FetchCancelled
  <2>2. Len(cancelQueue') = Len(cancelQueue) - 1 /\ Len(cancelQueue) \in Nat
    BY <2>1
  <2>3. Live' = Live
    BY <1>4 DEF Live
  <2>4. Flight' = Flight - 1
    BY <1>1, <2>2, <2>3 DEF Flight
  <2>5. UNCHANGED staleness
    BY <1>4 DEF FetchCancelled
  <2> QED BY <1>1, <1>2, <2>4, <2>5 DEF Settled, One
<1>5. CASE ProcSubmit /\ ~paused
  <2>1. /\ task' = [task EXCEPT ![hand] = "new"] /\ hand' = EndOfStream
        /\ UNCHANGED <<cancelQueue, staleness>>
        /\ procPc = "submit" /\ Holds("processor")
    BY <1>5 DEF ProcSubmit
  <2>2. hand \in Samples \cup {EndOfStream} /\ TaskTypes
    BY TypeParts DEF FeedTypes
  <2>3. CASE hand \in Samples
    <3>1. Cardinality(Live') <= Cardinality(Live) + 1
      BY <2>1, <2>2, <2>3, LiveSteps
    <3>2. Flight' <= Flight + 1
      <4>1. Cardinality(Live') \in Nat /\ Len(cancelQueue) \in Nat
        BY CountTypes DEF Counts
      <4> QED BY <1>1, <2>1, <3>1, <4>1 DEF Flight
    <3>3. hand # EndOfStream
      BY <2>3 DEF Samples, EndOfStream
    <3>4. hand' = EndOfStream
      BY <2>1
    <3>5. One(hand' # EndOfStream) = 0 /\ One(hand # EndOfStream) = 1
      BY <3>3, <3>4 DEF One
    <3>6. Outstanding' <= Outstanding
      BY <1>1, <1>2, <3>2, <3>5
    <3> QED BY <2>1, <3>6 DEF Submits
  <2>4. CASE hand = EndOfStream
    <3>1. task' = task
      BY <2>1, <2>2, <2>4 DEF TaskTypes, Samples, EndOfStream
    <3>2. Flight' = Flight
      BY <2>1, <3>1 DEF Flight, Live
    <3> QED BY <1>1, <1>2, <2>1, <2>4, <3>2 DEF Submits, One
  <2> QED BY <2>2, <2>3, <2>4
<1>6. CASE UNCHANGED <<cancelQueue, task, hand, staleness>>
  <2>1. Flight' = Flight
    BY <1>6 DEF Flight, Live
  <2> QED BY <1>1, <1>2, <1>6, <2>1 DEF Settled
<1> QED
  BY <1>3, <1>4, <1>5, <1>6 DEF Processor, ProcTop, ProcFetchWait, ProcSetPaused, ProcDrain, ProcReap,
     ProcIdle, ProcSubmit, ProcWoken, feedVars, taskVars

LEMMA TaskCount ==
    ASSUME TypeOK, TypeOK', NEW s \in Samples, Task(s) \/ TaskFail(s)
    PROVE  Settled /\ UNCHANGED staleness
<1>1. /\ Ready \in Nat /\ Flight \in Nat /\ Ready' \in Nat /\ Flight' \in Nat
      /\ Outstanding = One(hand # EndOfStream) + Flight + Ready
      /\ Outstanding' = One(hand' # EndOfStream) + Flight' + Ready'
      /\ Cardinality(Live) \in Nat /\ Len(cancelQueue) \in Nat
  BY CountTypes DEF Counts
<1>2. UNCHANGED <<hand, staleness>>
  BY DEF Task, TaskStart, TaskCut, TaskGenerated, TaskPut, TaskFail, TaskFrame, procVars
<1>3. TaskTypes /\ QueueTypes
  BY TypeParts
<1>4. CASE TaskCut(s) \/ TaskPut(s) \/ TaskFail(s)
  <2>1. task[s] # "none" /\ task' = [task EXCEPT ![s] = "none"]
    BY <1>4 DEF TaskCut, TaskPut, TaskFail
  <2>2. Cardinality(Live') = Cardinality(Live) - 1
    BY <1>3, <2>1, LiveSteps
  <2>3. Len(cancelQueue') = IF TaskCut(s) THEN Len(cancelQueue) + 1 ELSE Len(cancelQueue)
    <3>1. cancelQueue \in Seq(Samples)
      BY DEF TypeOK
    <3>2. CASE TaskCut(s)
      BY <3>1, <3>2 DEF TaskCut
    <3>3. CASE ~TaskCut(s)
      BY <1>4, <3>3 DEF TaskPut, TaskFail
    <3> QED BY <3>2, <3>3
  <2>4. Ready' <= Ready + (IF TaskPut(s) THEN 1 ELSE 0)
    <3>1. CASE TaskPut(s)
      <4>1. One(s # EndOfStream) = 1
        BY DEF One, Samples, EndOfStream
      <4>2. MQ!PutSample(s)
        BY <3>1 DEF TaskPut
      <4> QED BY <1>3, <3>1, <4>1, <4>2, PutReady DEF Ready
    <3>2. CASE ~TaskPut(s)
      <4>1. UNCHANGED queue
        BY <1>4, <3>2 DEF TaskCut, TaskFail, queueVars
      <4> QED BY <1>1, <3>2, <4>1 DEF Ready
    <3> QED BY <3>1, <3>2
  <2>5. TaskCut(s) => ~TaskPut(s)
    BY <1>3 DEF TaskCut, TaskPut
  <2>6. Flight' = Flight - 1 + (IF TaskCut(s) THEN 1 ELSE 0)
    BY <1>1, <2>2, <2>3 DEF Flight
  <2>7. One(hand' # EndOfStream) = One(hand # EndOfStream) /\ One(hand # EndOfStream) \in Nat
    BY <1>2 DEF One
  <2>8. Outstanding' <= Outstanding /\ Flight' <= Flight
    BY <1>1, <2>4, <2>5, <2>6, <2>7
  <2> QED BY <1>2, <2>8 DEF Settled
<1>5. CASE TaskStart(s) \/ TaskGenerated(s)
  <2>1. task[s] # "none" /\ \E st \in {"gen", "put"} : task' = [task EXCEPT ![s] = st]
    BY <1>5 DEF TaskStart, TaskGenerated
  <2>2. Live' = Live
    BY <1>3, <2>1, LiveSteps
  <2>3. UNCHANGED <<cancelQueue, queue>>
    BY <1>5 DEF TaskStart, TaskGenerated, queueVars
  <2> QED BY <1>1, <1>2, <2>2, <2>3 DEF Settled, Flight, Ready
<1> QED BY <1>4, <1>5 DEF Task

LEMMA TrainerCount ==
    TypeOK /\ TypeOK' /\ (Trainer \/ DriverClear) =>
        /\ Settled /\ UNCHANGED <<staleness, hand, cancelQueue, task, snapshot>>
        /\ GetSample => Outstanding' = Outstanding - 1
<1> SUFFICES ASSUME TypeOK, TypeOK', Trainer \/ DriverClear
             PROVE  /\ Settled /\ UNCHANGED <<staleness, hand, cancelQueue, task, snapshot>>
                    /\ GetSample => Outstanding' = Outstanding - 1
  OBVIOUS
<1>1. /\ Ready \in Nat /\ Flight \in Nat /\ Ready' \in Nat /\ Flight' \in Nat
      /\ Outstanding = One(hand # EndOfStream) + Flight + Ready
      /\ Outstanding' = One(hand' # EndOfStream) + Flight' + Ready'
  BY CountTypes DEF Counts
<1>2. UNCHANGED <<hand, staleness, task, cancelQueue, snapshot>>
  BY DEF Trainer, DriverClear, GetWait, GetSample, GetEnd, Train, WaitValid, WaitFailed, SyncBegin,
         SyncEnd, LastValid, Log, rollVars, callVars, taskVars, procVars
<1>3. Flight' = Flight
  BY <1>2 DEF Flight, Live
<1>4. Ready' <= Ready /\ (GetSample => Ready' = Ready - 1)
  <2>1. CASE GetSample \/ GetEnd
    <3>1. MQ!Take("trainer") /\ QueueTypes
      BY <2>1, TypeParts DEF GetSample, GetEnd
    <3>2. Ready' = Ready - One(Head(queue) # EndOfStream)
      BY <3>1, TakeReady
    <3> QED BY <1>1, <3>2 DEF One, GetSample
  <2>2. CASE ~(GetSample \/ GetEnd)
    <3>1. UNCHANGED queue \/ queue' = <<>>
      BY <2>2 DEF Trainer, DriverClear, GetWait, Train, WaitValid, WaitFailed, SyncBegin,
         SyncEnd, LastValid, Log, MQ!Wait, MQ!UpdateParamVersion, MQ!GetValidate, MQ!ClearQueue, queueVars
    <3>2. queue' = <<>> => Ready' = 0
      BY CopiesEmpty DEF Ready
    <3> QED BY <1>1, <2>2, <3>1, <3>2 DEF Ready
  <2> QED BY <2>1, <2>2
<1>5. One(hand' # EndOfStream) = One(hand # EndOfStream) /\ One(hand # EndOfStream) \in Nat
  BY <1>2 DEF One
<1>6. Outstanding' <= Outstanding /\ Flight' <= Flight
  BY <1>1, <1>3, <1>4, <1>5
<1>7. GetSample => Outstanding' = Outstanding - 1
  BY <1>1, <1>3, <1>4, <1>5
<1> QED BY <1>2, <1>6, <1>7 DEF Settled

LEMMA OtherCount ==
    /\ TypeOK /\ TypeOK'
    /\ Feed \/ MainPutEnd \/ MainStop \/ Monitor \/ Pause \/ Update \/ ValidationDone \/ Resume
    => /\ Settled /\ UNCHANGED <<hand, cancelQueue, task>>
       /\ UNCHANGED staleness \/ (Update /\ UpdateCount)
       /\ ~MainPutEnd => UNCHANGED queue
<1> SUFFICES ASSUME TypeOK, TypeOK',
                    Feed \/ MainPutEnd \/ MainStop \/ Monitor \/ Pause \/ Update \/ ValidationDone \/ Resume
             PROVE  /\ Settled /\ UNCHANGED <<hand, cancelQueue, task>>
                    /\ UNCHANGED staleness \/ (Update /\ UpdateCount)
                    /\ ~MainPutEnd => UNCHANGED queue
  OBVIOUS
<1>1. /\ Ready \in Nat /\ Flight \in Nat /\ Ready' \in Nat /\ Flight' \in Nat
      /\ Outstanding = One(hand # EndOfStream) + Flight + Ready
      /\ Outstanding' = One(hand' # EndOfStream) + Flight' + Ready'
  BY CountTypes DEF Counts
<1>2. UNCHANGED <<hand, cancelQueue, task>>
  BY DEF Feed, MainPutEnd, MainStop, Monitor, MonitorCheck, MonitorPoll, MonitorUnpause, Pause, PauseArrive,
         PauseStart, PauseGathered, PauseEnd, Update, UpdateArrive, UpdateStart, UpdateCount,
         UpdatePublish, UpdateSpawnValidation, UpdateFrame, ValidationDone, Resume, ResumeArrive,
         ResumeServers, ResumeRun, taskVars, procVars
<1>3. UNCHANGED staleness \/ (Update /\ UpdateCount)
  BY DEF Feed, MainPutEnd, MainStop, Monitor, MonitorCheck, MonitorPoll, MonitorUnpause, Pause, PauseArrive,
         PauseStart, PauseGathered, PauseEnd, Update, UpdateArrive, UpdateStart, UpdateCount,
         UpdatePublish, UpdateSpawnValidation, UpdateFrame, ValidationDone, Resume, ResumeArrive,
         ResumeServers, ResumeRun
<1>4. ~MainPutEnd => UNCHANGED queue
  BY DEF Feed, MainStop, Monitor, MonitorCheck, MonitorPoll, MonitorUnpause, Pause, PauseArrive,
         PauseStart, PauseGathered, PauseEnd, Update, UpdateArrive, UpdateStart, UpdateCount,
         UpdatePublish, UpdateSpawnValidation, UpdateFrame, ValidationDone, Resume, ResumeArrive,
         ResumeServers, ResumeRun, MQ!PutValidate, queueVars
<1>5. Ready' <= Ready
  <2>1. CASE MainPutEnd
    <3>1. MQ!PutSample(EndOfStream) /\ QueueTypes
      BY <2>1, TypeParts DEF MainPutEnd
    <3>2. Ready' <= Ready + One(EndOfStream # EndOfStream)
      BY <3>1, PutReady DEF Ready
    <3> QED BY <1>1, <3>2 DEF One
  <2>2. CASE ~MainPutEnd
    BY <1>1, <1>4, <2>2 DEF Ready
  <2> QED BY <2>1, <2>2
<1>6. Flight' = Flight
  BY <1>2 DEF Flight, Live
<1>7. One(hand' # EndOfStream) = One(hand # EndOfStream) /\ One(hand # EndOfStream) \in Nat
  BY <1>2 DEF One
<1>8. Flight' <= Flight
  BY <1>1, <1>6
<1>9. Outstanding' <= Outstanding
  BY <1>1, <1>5, <1>6, <1>7
<1> QED BY <1>2, <1>3, <1>4, <1>8, <1>9 DEF Settled

\* StalenessCovers is inductive with what update_param_version counted while
\* it waits for the size of the message queue.
CoverInv == StalenessCovers /\ (updatePc = "count" => Flight <= snapshot)

\* Every step but a fetch, a submission and the two counting steps of
\* update_param_version lets both parts be.
LEMMA SettledCovers ==
    ASSUME TypeOK, TypeOK', CoverInv, Settled, UNCHANGED <<staleness, snapshot>>,
           updatePc' = updatePc \/ updatePc' # "count"
    PROVE  CoverInv'
<1>1. /\ Outstanding \in Nat /\ Outstanding' \in Nat /\ Flight \in Nat /\ Flight' \in Nat
      /\ staleness \in Nat /\ snapshot \in Nat
  BY CountTypes DEF Counts, TypeOK
<1>2. Outstanding' <= staleness' + 1
  BY <1>1 DEF CoverInv, StalenessCovers, Settled
<1>3. updatePc' = "count" => Flight' <= snapshot'
  BY <1>1 DEF CoverInv, Settled
<1> QED BY <1>2, <1>3 DEF CoverInv, StalenessCovers

LEMMA UpdateCovers == TypeOK /\ TypeOK' /\ CoverInv /\ Update => CoverInv'
<1> SUFFICES ASSUME TypeOK, TypeOK', CoverInv, Update PROVE CoverInv'
  OBVIOUS
<1>1. /\ Outstanding \in Nat /\ Outstanding' \in Nat /\ Flight \in Nat /\ Flight' \in Nat
      /\ staleness \in Nat /\ snapshot \in Nat /\ finished \in Nat /\ Len(queue) \in Nat
      /\ Cardinality(Live) \in Nat /\ Len(cancelQueue) \in Nat
      /\ Outstanding = One(hand # EndOfStream) + Flight + Ready /\ Ready \in Nat
  BY CountTypes DEF Counts, TypeOK
<1>2. Settled
  BY OtherCount
<1>3. CASE UpdateArrive \/ UpdatePublish \/ UpdateSpawnValidation
  <2>1. UNCHANGED <<staleness, snapshot>> /\ updatePc' # "count"
    BY <1>3 DEF UpdateArrive, UpdatePublish, UpdateSpawnValidation
  <2> QED BY <1>2, <2>1, SettledCovers
<1>4. CASE UpdateStart
  <2>1. snapshot' = Cardinality(Live) + finished + Len(cancelQueue) /\ UNCHANGED staleness
    BY <1>4 DEF UpdateStart, ActiveCount
  <2>2. Flight' <= snapshot'
    BY <1>1, <1>2, <2>1 DEF Settled, Flight
  <2>3. Outstanding' <= staleness' + 1
    BY <1>1, <1>2, <2>1 DEF Settled, CoverInv, StalenessCovers
  <2> QED BY <2>2, <2>3 DEF CoverInv, StalenessCovers
<1>5. CASE UpdateCount
  <2>1. staleness' = snapshot + Len(queue) /\ updatePc = "count" /\ updatePc' # "count"
    BY <1>5 DEF UpdateCount
  <2>2. Flight <= snapshot
    BY <2>1 DEF CoverInv
  <2>3. Ready <= Len(queue) /\ One(hand # EndOfStream) \in {0, 1}
    <3>1. Copies(queue, EndOfStream) \in Nat
      BY QueueCopies DEF TypeOK
    <3> QED BY <1>1, <3>1 DEF Ready, One
  <2>4. Outstanding' <= staleness' + 1
    BY <1>1, <1>2, <2>1, <2>2, <2>3 DEF Settled
  <2> QED BY <2>1, <2>4 DEF CoverInv, StalenessCovers
<1> QED BY <1>3, <1>4, <1>5 DEF Update

LEMMA NextCovers == TypeInv /\ CoverInv /\ [Next]_vars => CoverInv'
<1> SUFFICES ASSUME TypeInv, CoverInv, [Next]_vars PROVE CoverInv'
  OBVIOUS
<1>1. TypeOK /\ TypeOK' /\ LockInv
  BY NextTypes DEF TypeInv, QuiesceInv
<1>2. CASE Processor
  <2>1. UNCHANGED <<updatePc, snapshot>>
    BY <1>2 DEF Processor, ProcTop, ProcFetchWait, ProcSetPaused, ProcDrain, ProcReap, ProcIdle,
       ProcSubmit, ProcWoken, callVars
  <2>2. /\ Outstanding \in Nat /\ Outstanding' \in Nat /\ Flight \in Nat /\ Flight' \in Nat
        /\ staleness \in Nat
    BY <1>1, CountTypes DEF Counts, TypeOK
  <2>3. CASE Settled /\ UNCHANGED staleness
    BY <1>1, <2>1, <2>3, SettledCovers
  <2>4. CASE FetchesNew
    <3>1. staleness' = staleness + 1 /\ Outstanding' <= Outstanding + 1 /\ Flight' = Flight
      BY <2>4 DEF FetchesNew, FetchPending
    <3>2. Outstanding' <= staleness' + 1
      BY <2>2, <3>1 DEF CoverInv, StalenessCovers
    <3> QED BY <2>1, <3>1, <3>2 DEF CoverInv, StalenessCovers
  <2>5. CASE Submits
    <3>1. updatePc # "count"
      BY <1>1, <2>5 DEF Submits, LockInv, Holds
    <3>2. Outstanding' <= staleness' + 1
      BY <2>2, <2>5 DEF Submits, CoverInv, StalenessCovers
    <3> QED BY <2>1, <3>1, <3>2 DEF CoverInv, StalenessCovers
  <2> QED BY <1>1, <1>2, <2>3, <2>4, <2>5, ProcessorCount
<1>3. ASSUME NEW s \in Samples, Task(s) \/ TaskFail(s) PROVE CoverInv'
  <2>1. UNCHANGED <<updatePc, snapshot>>
    BY <1>3 DEF Task, TaskStart, TaskCut, TaskGenerated, TaskPut, TaskFail, TaskFrame, callVars
  <2> QED BY <1>1, <1>3, <2>1, TaskCount, SettledCovers
<1>4. CASE Trainer \/ DriverClear
  <2>1. updatePc' = updatePc \/ updatePc' # "count"
    BY <1>4 DEF Trainer, DriverClear, GetWait, GetSample, GetEnd, Train, WaitValid, WaitFailed, SyncBegin,
       SyncEnd, LastValid, Log, rollVars, callVars
  <2> QED BY <1>1, <1>4, <2>1, TrainerCount, SettledCovers
<1>5. CASE Update
  BY <1>1, <1>5, UpdateCovers
<1>6. CASE Feed \/ MainPutEnd \/ MainStop \/ Monitor \/ Pause \/ ValidationDone \/ Resume
  <2>1. UNCHANGED <<updatePc, snapshot, staleness>>
    BY <1>6 DEF Feed, MainPutEnd, MainStop, Monitor, MonitorCheck, MonitorPoll, MonitorUnpause, Pause,
       PauseArrive, PauseStart, PauseGathered, PauseEnd, ValidationDone, Resume, ResumeArrive,
       ResumeServers, ResumeRun, callVars
  <2> QED BY <1>1, <1>6, <2>1, OtherCount, SettledCovers
<1>7. CASE UNCHANGED vars
  <2>1. UNCHANGED <<hand, task, cancelQueue, queue, staleness, snapshot, updatePc>>
    BY <1>7 DEF vars, rollVars, queueVars, procVars, taskVars, callVars
  <2>2. UNCHANGED Outstanding /\ UNCHANGED Flight
    BY <2>1 DEF Outstanding, Flight, Live
  <2> QED BY <2>1, <2>2 DEF CoverInv, StalenessCovers
<1> QED
  BY <1>2, <1>3, <1>4, <1>5, <1>6, <1>7 DEF Next, Rollout, RollNext, Terminated

LEMMA InitCovers == Init => CoverInv
<1> SUFFICES ASSUME Init PROVE CoverInv
  OBVIOUS
<1>1. hand = EndOfStream /\ Live = {} /\ cancelQueue = <<>> /\ queue = <<>> /\ staleness = 0
      /\ updatePc # "count"
  BY DEF Init, RollInit, Live
<1>2. Cardinality(Live) = 0 /\ Copies(queue, EndOfStream) = 0 /\ Len(queue) = 0 /\ Len(cancelQueue) = 0
  BY <1>1, FS_EmptySet, CopiesEmpty
<1>3. One(hand # EndOfStream) = 0
  BY <1>1 DEF One
<1>4. Outstanding = 0
  BY <1>2, <1>3 DEF Outstanding
<1> QED BY <1>1, <1>4 DEF CoverInv, StalenessCovers

\* staleness_samples, which throttles the rollouter, misses at most the one
\* sample the processor holds: update_param_version counts what is in flight
\* with the lock held, so that nothing is submitted between its two counts.
THEOREM StalenessIsCovered == Spec => []StalenessCovers
<1>1. Init => TypeInv /\ CoverInv
  BY InitType, InitQuiesce, InitCovers DEF TypeInv
<1>2. CoverInv => StalenessCovers
  BY DEF CoverInv
<1> QED BY <1>1, <1>2, NextTypes, NextCovers, PTL DEF Spec

-----------------------------------------------------------------------------
(* VersionLagBound.                                                        *)

\* Where the trainer is between two synchronizations and in one.
Fetching == {"log", "get", "train"}
Syncing == {"waitValid", "pausing", "transfer"}

\* How the versions of the trainer and of the rollouter go together: the
\* rollouter is behind from the end of a training version until the call of
\* update_param_version has taken the lock.
CallInv ==
    /\ pausePc # "done" => trainerPc = "pausing"
    /\ updatePc \in {"called", "lock"} => version + 1 = updateArg.version
    /\ updatePc \notin {"called", "lock"} => version = updateArg.version
    /\ trainerPc \in Fetching \cup {"lastValid"} => updateArg.version = trainerVersion
    /\ trainerPc \in Syncing => updateArg.version + 1 = trainerVersion
    /\ trainerPc \in {"pausing", "transfer"} => updatePc = "done" /\ resumePc = "done"

\* The batch is open only between two training steps of the loop.
BatchInv ==
    /\ batch # <<>> => trainerPc \in {"get", "train"}
    /\ trainerPc \in {"get", "train"} => phase = "loop"
    /\ phase = "loop" => trainerPc \in Fetching \cup Syncing \cup {"failed"}
    /\ IF trainerPc = "train" THEN Len(batch) = Required ELSE Len(batch) < Required
    /\ trainerPc \in Syncing => localStep = 1

\* The message queue never holds more than its size.
QueueInv == Len(queue) <= MaxRequired

\* The calls leave the trainer alone, and the trainer starts them.
LEMMA NextCalls == TypeOK /\ TypeOK' /\ CallInv /\ [Next]_vars => CallInv'
<1> SUFFICES ASSUME TypeOK, TypeOK', CallInv, [Next]_vars PROVE CallInv'
  OBVIOUS
<1>1. /\ version \in Nat /\ trainerVersion \in Nat /\ updateArg \in [version : Nat, validate : BOOLEAN]
      /\ updateArg.version \in Nat
  BY DEF TypeOK
<1>2. ASSUME UNCHANGED <<pausePc, updatePc, resumePc, updateArg, version, trainerPc, trainerVersion>>
      PROVE  CallInv'
  BY <1>2 DEF CallInv
<1>3. CASE Pause /\ UNCHANGED trainerVars
  <2>1. pausePc # "done" /\ UNCHANGED <<updatePc, resumePc, updateArg, version, trainerPc, trainerVersion>>
    BY <1>3 DEF Pause, PauseArrive, PauseStart, PauseGathered, PauseEnd, flagVars, trainerVars
  <2> QED BY <2>1 DEF CallInv
<1>4. CASE Update /\ UNCHANGED trainerVars
  <2>1. UNCHANGED <<pausePc, resumePc, updateArg, trainerPc, trainerVersion>>
    BY <1>4 DEF Update, UpdateArrive, UpdateStart, UpdateCount, UpdatePublish, UpdateSpawnValidation,
       UpdateFrame, trainerVars
  <2>2. \/ updatePc = "called" /\ updatePc' = "lock" /\ version' = version
        \/ updatePc = "lock" /\ updatePc' = "count" /\ version' = updateArg.version
        \/ /\ updatePc \in {"count", "publish"} /\ updatePc' \in {"publish", "done", "failed"}
           /\ version' = version
    BY <1>4 DEF Update, UpdateArrive, UpdateStart, UpdateCount, UpdatePublish, UpdateSpawnValidation
  <2> QED BY <1>1, <2>1, <2>2 DEF CallInv
<1>5. CASE Resume /\ UNCHANGED trainerVars
  <2>1. resumePc # "done" /\ UNCHANGED <<pausePc, updatePc, updateArg, version, trainerPc, trainerVersion>>
    BY <1>5 DEF Resume, ResumeArrive, ResumeServers, ResumeRun, flagVars, trainerVars
  <2> QED BY <2>1 DEF CallInv
<1>6. CASE Trainer \/ DriverClear
  <2>1. UNCHANGED version
    BY <1>6 DEF Trainer, DriverClear, GetWait, GetSample, GetEnd, Train, WaitValid, WaitFailed, SyncBegin,
       SyncEnd, LastValid, Log, rollVars, flagVars
  <2>2. CASE WaitValid
    <3>1. /\ trainerPc = "waitValid" /\ trainerPc' = "pausing" /\ updatePc = "done" /\ resumePc = "done"
          /\ UNCHANGED <<updatePc, resumePc, updateArg, trainerVersion>>
      BY <2>2 DEF WaitValid, LastCallsDone
    <3> QED BY <2>1, <3>1 DEF CallInv, Fetching, Syncing
  <2>3. CASE SyncEnd
    <3>1. /\ trainerPc = "transfer" /\ trainerPc' \in {"lastValid", "log"}
          /\ updatePc' = "called" /\ updateArg'.version = trainerVersion
          /\ UNCHANGED <<pausePc, trainerVersion>>
      BY <2>3 DEF SyncEnd
    <3>2. version + 1 = trainerVersion /\ pausePc = "done"
      BY <3>1 DEF CallInv, Syncing
    <3> QED BY <2>1, <3>1, <3>2 DEF CallInv, Fetching, Syncing
  <2>4. CASE Train \/ Log
    <3>1. /\ UNCHANGED <<pausePc, updatePc, resumePc, updateArg>>
          /\ trainerPc \in Fetching
          /\ \/ trainerPc' \in {"log", "get", "done"} /\ trainerVersion' = trainerVersion
             \/ trainerPc' = "waitValid" /\ trainerVersion' = trainerVersion + 1
      BY <2>4 DEF Train, Log, BeginSync, rollVars, callVars, Fetching
    <3> QED BY <1>1, <2>1, <3>1 DEF CallInv, Fetching, Syncing
  <2>5. CASE GetWait \/ GetSample \/ GetEnd \/ WaitFailed \/ SyncBegin \/ LastValid \/ DriverClear
    <3>1. /\ UNCHANGED <<pausePc, updatePc, resumePc, updateArg, trainerVersion>>
          /\ \/ trainerPc \in Fetching \cup {"lastValid"} /\ trainerPc' \in Fetching \cup {"lastValid"}
             \/ trainerPc \in Syncing \cup {"lastValid"} /\ trainerPc' = "failed" /\ trainerPc # "pausing"
             \/ trainerPc = "pausing" /\ pausePc = "done" /\ trainerPc' = "transfer"
             \/ trainerPc = "done" /\ trainerPc' = "cleared"
      BY <2>5 DEF GetWait, GetSample, GetEnd, WaitFailed, SyncBegin, LastValid, DriverClear,
         rollVars, callVars, trainerVars, Fetching, Syncing
    <3> QED BY <2>1, <3>1 DEF CallInv, Fetching, Syncing
  <2> QED BY <1>6, <2>2, <2>3, <2>4, <2>5 DEF Trainer
<1>7. CASE /\ UNCHANGED trainerVars
           /\ Feed \/ Processor \/ MainPutEnd \/ MainStop \/ Monitor \/ ValidationDone
  <2>1. UNCHANGED <<pausePc, updatePc, resumePc, updateArg, version>>
    BY <1>7 DEF Feed, Processor, ProcTop, ProcFetchWait, ProcSetPaused, ProcDrain, ProcReap, ProcIdle,
       ProcSubmit, ProcWoken, MainPutEnd, MainStop, Monitor, MonitorCheck, MonitorPoll, MonitorUnpause,
       ValidationDone, UpdateFrame, callVars, flagVars
  <2> QED BY <1>2, <1>7, <2>1 DEF trainerVars
<1>8. CASE UNCHANGED trainerVars /\ \E s \in Samples : Task(s) \/ TaskFail(s)
  <2>1. UNCHANGED <<pausePc, updatePc, resumePc, updateArg, version>>
    BY <1>8 DEF Task, TaskStart, TaskCut, TaskGenerated, TaskPut, TaskFail, TaskFrame, callVars, flagVars
  <2> QED BY <1>2, <1>8, <2>1 DEF trainerVars
<1>9. CASE UNCHANGED vars
  BY <1>2, <1>9 DEF vars, rollVars, callVars, flagVars, trainerVars
<1> QED
  BY <1>3, <1>4, <1>5, <1>6, <1>7, <1>8, <1>9 DEF Next, Rollout, RollNext, Terminated

LEMMA NextBatch == TypeOK /\ TypeOK' /\ BatchInv /\ [Next]_vars => BatchInv'
<1> SUFFICES ASSUME TypeOK, TypeOK', BatchInv, [Next]_vars PROVE BatchInv'
  OBVIOUS
<1>1. batch \in Seq(Samples) /\ Len(batch) \in Nat
  BY DEF TypeOK
<1>2. ASSUME UNCHANGED trainerVars PROVE BatchInv'
  BY <1>2 DEF BatchInv, trainerVars
<1>3. CASE GetSample
  <2>1. batch' = Append(batch, Head(queue)) /\ trainerPc = "get" /\ UNCHANGED phase
        /\ trainerPc' = IF Len(batch) + 1 = Required THEN "train" ELSE "get"
    BY <1>3 DEF GetSample
  <2>2. Len(batch') = Len(batch) + 1
    <3>1. Head(queue) \in Samples
      BY <1>3, HeadTail DEF TypeOK, GetSample, MQ!Take
    <3> QED BY <1>1, <2>1, <3>1
  <2> QED BY <1>1, <2>1, <2>2, Sizes DEF BatchInv, Fetching, Syncing
<1>4. CASE GetEnd \/ Train
  <2>1. batch' = <<>> /\ Len(batch') = 0 /\ trainerPc \in {"get", "train"}
    BY <1>4 DEF GetEnd, Train
  <2>2. \/ trainerPc' = "lastValid" /\ phase' = "final"
        \/ trainerPc' = "log" /\ UNCHANGED phase
        \/ trainerPc' = "waitValid" /\ localStep' = 1 /\ UNCHANGED phase
    BY <1>4 DEF GetEnd, Train, BeginSync
  <2> QED BY <2>1, <2>2, Sizes DEF BatchInv, Fetching, Syncing
<1>5. CASE WaitValid \/ WaitFailed \/ SyncBegin \/ SyncEnd \/ LastValid \/ Log \/ DriverClear
  <2>1. UNCHANGED batch /\ batch = <<>> /\ Len(batch) = 0
    BY <1>5 DEF BatchInv, WaitValid, WaitFailed, SyncBegin, SyncEnd, LastValid, Log, DriverClear
  <2>2. \/ /\ trainerPc \in Syncing \cup {"lastValid"} /\ UNCHANGED <<localStep, phase>>
           /\ trainerPc' \in {"pausing", "transfer"} => trainerPc \in Syncing
           /\ \/ trainerPc' \in {"pausing", "transfer", "failed"}
              \/ trainerPc' = "log" /\ trainerPc \in Syncing
              \/ trainerPc' \in {"log", "lastValid"} /\ phase # "loop"
        \/ trainerPc = "log" /\ phase = "loop" /\ phase' = "loop" /\ trainerPc' = "get"
        \/ trainerPc = "log" /\ phase' # "loop" /\ trainerPc' = "waitValid" /\ localStep' = 1
        \/ phase' # "loop" /\ trainerPc' \in {"done", "cleared"}
    BY <1>5 DEF BatchInv, WaitValid, WaitFailed, SyncBegin, SyncEnd, LastValid, Log, DriverClear, BeginSync,
       Fetching, Syncing
  <2> QED BY <2>1, <2>2, Sizes DEF BatchInv, Fetching, Syncing
<1>6. CASE GetWait
  BY <1>2, <1>6 DEF GetWait
<1> QED
  BY <1>2, <1>3, <1>4, <1>5, <1>6 DEF Next, Rollout, Trainer, Terminated, vars

LEMMA PutLength ==
    ASSUME QueueTypes, QueueInv, NEW item \in Samples \cup {EndOfStream}, MQ!PutSample(item)
    PROVE  QueueInv'
<1> DEFINE kept == IF MQ!QueueFull THEN Tail(queue) ELSE queue
<1>1. queue \in Seq(Samples \cup {EndOfStream}) /\ Len(queue) \in Nat
  BY DEF QueueTypes
<1>2. kept \in Seq(Samples \cup {EndOfStream}) /\ Len(kept) < MaxRequired
  <2>1. CASE MQ!QueueFull
    <3>1. queue # <<>>
      BY <1>1, <2>1, Sizes DEF MQ!QueueFull
    <3>2. Len(Tail(queue)) = Len(queue) - 1
      BY <1>1, <3>1
    <3> QED BY <1>1, <2>1, <3>1, <3>2, HeadTail, Sizes DEF QueueInv
  <2>2. CASE ~MQ!QueueFull
    BY <1>1, <2>2, Sizes DEF MQ!QueueFull
  <2> QED BY <2>1, <2>2
<1>3. queue' = Append(kept, item)
  BY DEF MQ!PutSample
<1> HIDE DEF kept
<1>4. Len(queue') = Len(kept) + 1 /\ Len(kept) \in Nat
  BY <1>2, <1>3
<1> QED BY <1>2, <1>4, Sizes DEF QueueInv

LEMMA NextLength == TypeOK /\ QueueInv /\ [Next]_vars => QueueInv'
<1> SUFFICES ASSUME TypeOK, QueueInv, [Next]_vars PROVE QueueInv'
  OBVIOUS
<1>1. QueueTypes /\ queue \in Seq(Samples \cup {EndOfStream}) /\ Len(queue) \in Nat
  BY TypeParts DEF QueueTypes
<1>2. CASE UNCHANGED queue
  BY <1>2 DEF QueueInv
<1>3. ASSUME NEW item \in Samples \cup {EndOfStream}, MQ!PutSample(item) PROVE QueueInv'
  BY <1>1, <1>3, PutLength
<1>4. CASE MQ!Take("trainer")
  <2>1. queue # <<>> /\ queue' = Tail(queue)
    BY <1>4 DEF MQ!Take
  <2>2. Len(queue') = Len(queue) - 1
    BY <1>1, <2>1
  <2> QED BY <1>1, <2>2, Sizes DEF QueueInv
<1>5. CASE MQ!ClearQueue
  BY <1>5, Sizes DEF QueueInv, MQ!ClearQueue
<1>6. ASSUME NEW s \in Samples, Task(s) \/ TaskFail(s) PROVE QueueInv'
  <2>1. UNCHANGED queue \/ MQ!PutSample(s)
    BY <1>6 DEF Task, TaskStart, TaskCut, TaskGenerated, TaskPut, TaskFail, queueVars
  <2> QED BY <1>2, <1>3, <2>1
<1>7. CASE Trainer \/ DriverClear
  <2>1. UNCHANGED queue \/ MQ!Take("trainer") \/ MQ!ClearQueue
    BY <1>7 DEF Trainer, DriverClear, GetWait, GetSample, GetEnd, Train, WaitValid, WaitFailed, SyncBegin,
       SyncEnd, LastValid, Log, MQ!Wait, MQ!UpdateParamVersion, MQ!GetValidate, queueVars
  <2> QED BY <1>2, <1>4, <1>5, <2>1
<1>8. CASE MainPutEnd
  BY <1>3, <1>8 DEF MainPutEnd
<1>9. CASE Feed \/ Processor \/ MainStop \/ Monitor \/ Pause \/ Update \/ ValidationDone \/ Resume
  <2>1. UNCHANGED queue
    BY <1>9 DEF Feed, Processor, ProcTop, ProcFetchWait, ProcSetPaused, ProcDrain, ProcReap, ProcIdle,
       ProcSubmit, ProcWoken, MainStop, Monitor, MonitorCheck, MonitorPoll, MonitorUnpause, Pause,
       PauseArrive, PauseStart, PauseGathered, PauseEnd, Update, UpdateArrive, UpdateStart, UpdateCount,
       UpdatePublish, UpdateSpawnValidation, UpdateFrame, ValidationDone, Resume, ResumeArrive,
       ResumeServers, ResumeRun, MQ!PutValidate, queueVars
  <2> QED BY <1>2, <2>1
<1> QED
  BY <1>2, <1>6, <1>7, <1>8, <1>9 DEF Next, Rollout, RollNext, Terminated, vars, queueVars

\* How many versions behind the trainer a sample is that waits to be put: two
\* while the trainer has begun a version and pause() has not quiesced the
\* tasks, else one.
Slack ==
    IF trainerPc = "waitValid" \/ (trainerPc = "pausing" /\ pausePc \in {"called", "lock", "gather"})
      THEN 2 ELSE 1
PutInv ==
    phase = "loop" /\ trainerPc # "failed" =>
        \A s \in Samples : task[s] = "put" => trainerVersion <= stamp[s] + Slack

LEMMA NextPut ==
    TypeOK /\ TypeOK' /\ CallInv /\ BatchInv /\ PutInv /\ [Next]_vars => PutInv'
<1> SUFFICES ASSUME TypeOK, TypeOK', CallInv, BatchInv, PutInv, [Next]_vars, phase' = "loop",
                    trainerPc' # "failed", NEW s \in Samples, task'[s] = "put"
             PROVE  trainerVersion' <= stamp'[s] + Slack'
  BY DEF PutInv
<1>1. /\ version \in Nat /\ trainerVersion \in Nat /\ trainerVersion' \in Nat
      /\ updateArg.version \in Nat /\ stamp \in [Samples -> Nat]
      /\ stamp[s] \in Nat /\ stamp'[s] \in Nat
      /\ task \in [Samples -> {"none", "new", "gen", "put"}]
  BY DEF TypeOK
<1>2. Slack \in {1, 2} /\ Slack' \in {1, 2}
  BY DEF Slack
<1>3. ASSUME task[s] = "put", phase = "loop", trainerPc # "failed"
      PROVE  trainerVersion <= stamp[s] + Slack
  BY <1>3 DEF PutInv
<1>4. ASSUME UNCHANGED <<phase, trainerPc, trainerVersion>>, stamp'[s] = stamp[s], Slack' = Slack,
             task[s] = "put"
      PROVE  trainerVersion' <= stamp'[s] + Slack'
  BY <1>3, <1>4
<1>5. ASSUME NEW t \in Samples, Task(t) \/ TaskFail(t), UNCHANGED trainerVars
      PROVE  trainerVersion' <= stamp'[s] + Slack'
  <2>1. UNCHANGED <<phase, trainerPc, trainerVersion, pausePc>>
    BY <1>5 DEF Task, TaskStart, TaskCut, TaskGenerated, TaskPut, TaskFail, TaskFrame, callVars, trainerVars
  <2>2. Slack' = Slack
    BY <2>1 DEF Slack
  <2>3. CASE TaskGenerated(t) /\ s = t
    <3>1. stamp'[s] = version
      BY <1>1, <2>3 DEF TaskGenerated
    <3>2. trainerPc \in Fetching \cup Syncing
      BY <2>1 DEF BatchInv
    <3>3. updateArg.version <= version + 1 /\ (updatePc = "done" => updateArg.version = version)
      <4>1. CASE updatePc \in {"called", "lock"}
        BY <1>1, <4>1 DEF CallInv
      <4>2. CASE updatePc \notin {"called", "lock"}
        BY <1>1, <4>2 DEF CallInv
      <4> QED BY <4>1, <4>2
    <3>4. trainerVersion <= version + Slack
      <4>1. CASE trainerPc \in Fetching
        BY <1>1, <1>2, <3>3, <4>1 DEF CallInv
      <4>2. CASE trainerPc = "waitValid"
        BY <1>1, <3>3, <4>2 DEF CallInv, Syncing, Slack
      <4>3. CASE trainerPc \in {"pausing", "transfer"}
        BY <1>1, <1>2, <3>3, <4>3 DEF CallInv, Syncing
      <4> QED BY <3>2, <4>1, <4>2, <4>3 DEF Syncing
    <3> QED BY <2>1, <2>2, <3>1, <3>4
  <2>4. CASE ~(TaskGenerated(t) /\ s = t)
    <3>1. stamp'[s] = stamp[s] /\ task[s] = "put"
      BY <1>1, <1>5, <2>4 DEF Task, TaskStart, TaskCut, TaskGenerated, TaskPut, TaskFail
    <3> QED BY <1>4, <2>1, <2>2, <3>1
  <2> QED BY <2>3, <2>4
<1>6. CASE UNCHANGED trainerVars /\ Pause
  <2>1. UNCHANGED <<phase, trainerPc, trainerVersion, stamp, task>>
    BY <1>6 DEF Pause, PauseArrive, PauseStart, PauseGathered, PauseEnd, trainerVars, taskVars
  <2>2. ~PauseGathered
    BY <2>1 DEF PauseGathered, Live
  <2>3. Slack' = Slack
    BY <1>6, <2>1, <2>2 DEF Pause, PauseArrive, PauseStart, PauseEnd, Slack
  <2> QED BY <1>4, <2>1, <2>3
<1>7. CASE Trainer \/ DriverClear
  <2>1. UNCHANGED <<stamp, task>>
    BY <1>7 DEF Trainer, DriverClear, GetWait, GetSample, GetEnd, Train, WaitValid, WaitFailed, SyncBegin,
       SyncEnd, LastValid, Log, rollVars, taskVars
  <2>2. phase = "loop" /\ trainerPc # "failed"
    BY <1>7 DEF Trainer, DriverClear, GetWait, GetSample, GetEnd, Train, WaitValid, WaitFailed, SyncBegin,
       SyncEnd, LastValid, Log, trainerVars
  <2>3. trainerVersion <= stamp[s] + Slack
    BY <1>3, <2>1, <2>2
  <2>4. \/ trainerVersion' = trainerVersion /\ Slack' >= Slack
        \/ trainerVersion' = trainerVersion + 1 /\ Slack = 1 /\ Slack' = 2
    <3>1. CASE Train
      BY <3>1 DEF Train, BeginSync, Slack
    <3>2. CASE WaitValid
      BY <3>2 DEF WaitValid, Slack
    <3>3. CASE SyncBegin
      BY <3>3 DEF SyncBegin, Slack
    <3>4. CASE GetWait \/ GetSample \/ GetEnd \/ WaitFailed \/ SyncEnd \/ LastValid \/ DriverClear
      <4>1. trainerVersion' = trainerVersion /\ trainerPc \notin {"waitValid", "pausing"}
        BY <3>4 DEF GetWait, GetSample, GetEnd, WaitFailed, SyncEnd, LastValid, DriverClear, trainerVars
      <4> QED BY <1>2, <4>1 DEF Slack
    <3>5. CASE Log
      <4>1. trainerVersion' = trainerVersion /\ trainerPc \notin {"waitValid", "pausing"}
        BY <2>2, <3>5 DEF Log
      <4> QED BY <1>2, <4>1 DEF Slack
    <3> QED BY <1>7, <3>1, <3>2, <3>3, <3>4, <3>5 DEF Trainer
  <2> QED BY <1>1, <1>2, <2>1, <2>3, <2>4
<1>8. CASE UNCHANGED trainerVars /\ Processor
  <2>1. UNCHANGED <<phase, trainerPc, trainerVersion, pausePc, stamp>> /\ Slack' = Slack
    BY <1>8 DEF Processor, ProcTop, ProcFetchWait, ProcSetPaused, ProcDrain, ProcReap, ProcIdle,
       ProcSubmit, ProcWoken, trainerVars, taskVars, callVars, Slack
  <2>2. task[s] = "put"
    <3>1. task' = task \/ task' = [task EXCEPT ![hand] = "new"]
      BY <1>8 DEF Processor, ProcTop, ProcFetchWait, ProcSetPaused, ProcDrain, ProcReap, ProcIdle,
         ProcSubmit, ProcWoken, taskVars
    <3> QED BY <1>1, <3>1
  <2> QED BY <1>4, <2>1, <2>2
<1>9. CASE \/ /\ UNCHANGED trainerVars
              /\ Feed \/ MainPutEnd \/ MainStop \/ Monitor \/ Update \/ ValidationDone \/ Resume
           \/ UNCHANGED vars
  <2>1. UNCHANGED <<phase, trainerPc, trainerVersion, pausePc, stamp, task>>
    BY <1>9 DEF Feed, MainPutEnd, MainStop, Monitor, MonitorCheck, MonitorPoll, MonitorUnpause,
       Update, UpdateArrive, UpdateStart, UpdateCount, UpdatePublish, UpdateSpawnValidation, UpdateFrame,
       ValidationDone, Resume, ResumeArrive, ResumeServers, ResumeRun, callVars, taskVars, trainerVars,
       vars, rollVars
  <2>2. Slack' = Slack
    BY <2>1 DEF Slack
  <2> QED BY <1>4, <2>1, <2>2
<1> QED
  BY <1>5, <1>6, <1>7, <1>8, <1>9 DEF Next, Rollout, RollNext, Terminated

LEMMA DivMono ==
    ASSUME NEW a \in Nat, NEW b \in Nat \ {0}, NEW c \in Nat, a <= c
    PROVE  a \div b \in Nat /\ a \div b <= c \div b
OBVIOUS

LEMMA DivAdd ==
    ASSUME NEW a \in Nat, NEW b \in Nat \ {0}
    PROVE  (a + b) \div b = a \div b + 1 /\ (a < b => a \div b = 0)
OBVIOUS

LEMMA DivDiv ==
    ASSUME NEW a \in Nat, NEW b \in Nat \ {0}, NEW c \in Nat \ {0}
    PROVE  (a \div b) \div c = a \div (b * c)
OBVIOUS

\* What the trainer is going to train on if nothing else is put, and after how
\* many more versions it takes the p-th of these samples.
Row == batch \o queue
VersionsTo(p) == (localStep - 1 + (p - 1) \div Required) \div Trigger
Bound == (MaxRequired - 1) \div (Required * Trigger) + 2

\* A sample is never so old that it would be trained on more than Bound versions
\* late, even if it has to wait for all those in front of it.
Going == phase = "loop" /\ trainerPc # "failed"
LagInv ==
    Going =>
        \A p \in 1..Len(Row) :
            Row[p] # EndOfStream => trainerVersion + VersionsTo(p) <= stamp[Row[p]] + Bound

LEMMA VersionsToType ==
    ASSUME NEW n \in 1..Trigger, NEW p \in Nat \ {0}, NEW r \in Nat \ {0}, p <= r
    PROVE  /\ (n - 1 + (p - 1) \div Required) \div Trigger \in Nat
           /\ (n - 1 + (p - 1) \div Required) \div Trigger
                <= (n - 1 + (r - 1) \div Required) \div Trigger
<1>1. (p - 1) \div Required \in Nat /\ (r - 1) \div Required \in Nat
      /\ (p - 1) \div Required <= (r - 1) \div Required
  BY Sizes, DivMono
<1> DEFINE a == n - 1 + (p - 1) \div Required
           c == n - 1 + (r - 1) \div Required
<1>2. a \in Nat /\ c \in Nat /\ a <= c
  BY <1>1, Sizes
<1> HIDE DEF a, c
<1>3. a \div Trigger \in Nat /\ a \div Trigger <= c \div Trigger
  BY <1>2, Sizes, DivMono
<1> QED BY <1>3 DEF a, c

\* A training step moves every sample Required places forward.
LEMMA VersionsToTrain ==
    ASSUME NEW n \in 1..Trigger, NEW p \in Nat \ {0}
    PROVE  LET x == (p - 1) \div Required
               y == (p + Required - 1) \div Required
           IN  /\ n < Trigger => (n - 1 + y) \div Trigger = (n + x) \div Trigger
               /\ n = Trigger => (n - 1 + y) \div Trigger = x \div Trigger + 1
<1> DEFINE x == (p - 1) \div Required
           y == (p + Required - 1) \div Required
<1>1. x \in Nat /\ y = x + 1
  <2>1. p - 1 \in Nat /\ p + Required - 1 = p - 1 + Required
    BY Sizes
  <2>2. x \in Nat
    BY <2>1, Sizes, DivMono
  <2>3. (p - 1 + Required) \div Required = x + 1
    BY <2>1, Sizes, DivAdd
  <2>4. y = (p - 1 + Required) \div Required
    BY <2>1
  <2> QED BY <2>2, <2>3, <2>4
<1> HIDE DEF x, y
<1>2. n - 1 + y = n + x
  BY <1>1
<1>3. n = Trigger => (x + Trigger) \div Trigger = x \div Trigger + 1
  BY <1>1, Sizes, DivAdd
<1>4. n = Trigger => n + x = x + Trigger
  BY <1>1, Sizes
<1> QED BY <1>2, <1>3, <1>4 DEF x, y

\* Where a sample put last stands, at most.
LEMMA VersionsToLast ==
    ASSUME NEW n \in 1..Trigger, NEW len \in 0..Required, NEW p \in Nat \ {0}, p <= len + MaxRequired
    PROVE  /\ (n - 1 + (p - 1) \div Required) \div Trigger <= Bound - 1
           /\ n = 1 /\ len = 0 => (n - 1 + (p - 1) \div Required) \div Trigger <= Bound - 2
<1> DEFINE m == (MaxRequired - 1) \div Required
           x == (p - 1) \div Required
<1>1. m \in Nat /\ Bound = m \div Trigger + 2 /\ m \div Trigger \in Nat
  <2>1. MaxRequired - 1 \in Nat
    BY Sizes
  <2>2. m \in Nat
    BY <2>1, Sizes, DivMono
  <2>3. m \div Trigger = (MaxRequired - 1) \div (Required * Trigger)
    BY <2>1, Sizes, DivDiv
  <2>4. m \div Trigger \in Nat
    BY <2>2, Sizes, DivMono
  <2> HIDE DEF m
  <2> QED BY <2>2, <2>3, <2>4 DEF Bound
<1>2. x \in Nat /\ x <= m + 1
  <2>1. p - 1 \in Nat /\ MaxRequired - 1 + Required \in Nat /\ p - 1 <= MaxRequired - 1 + Required
    BY Sizes
  <2>2. x \in Nat /\ x <= (MaxRequired - 1 + Required) \div Required
    BY <2>1, Sizes, DivMono
  <2>3. (MaxRequired - 1 + Required) \div Required = m + 1
    <3>1. MaxRequired - 1 \in Nat
      BY Sizes
    <3> QED BY <3>1, Sizes, DivAdd
  <2> QED BY <2>2, <2>3
<1>3. len = 0 => x <= m
  <2>1. ASSUME len = 0 PROVE x <= m
    <3>1. p - 1 \in Nat /\ MaxRequired - 1 \in Nat /\ p - 1 <= MaxRequired - 1
      BY <2>1, Sizes
    <3> QED BY <3>1, Sizes, DivMono
  <2> QED BY <2>1
<1> HIDE DEF m, x
<1>4. (n - 1 + x) \div Trigger <= m \div Trigger + 1
  <2>1. n - 1 + x \in Nat /\ m + Trigger \in Nat /\ n - 1 + x <= m + Trigger
    BY <1>1, <1>2, Sizes
  <2>2. (n - 1 + x) \div Trigger <= (m + Trigger) \div Trigger
    BY <2>1, Sizes, DivMono
  <2>3. (m + Trigger) \div Trigger = m \div Trigger + 1
    BY <1>1, Sizes, DivAdd
  <2> QED BY <2>2, <2>3
<1>5. n = 1 /\ len = 0 => (n - 1 + x) \div Trigger <= m \div Trigger
  <2>1. ASSUME n = 1, len = 0 PROVE (n - 1 + x) \div Trigger <= m \div Trigger
    <3>1. n - 1 + x = x /\ x <= m
      BY <1>2, <1>3, <2>1
    <3>2. x \div Trigger <= m \div Trigger
      BY <1>1, <1>2, <3>1, Sizes, DivMono
    <3> QED BY <3>1, <3>2
  <2> QED BY <2>1
<1>6. (n - 1 + x) \div Trigger \in Nat
  BY <1>2, Sizes, DivMono
<1> QED BY <1>1, <1>4, <1>5, <1>6 DEF x

LEMMA ConcatParts ==
    ASSUME NEW S, NEW b \in Seq(S), NEW c \in Seq(S)
    PROVE  /\ Len(b \o c) = Len(b) + Len(c)
           /\ \A p \in 1..Len(b \o c) : (b \o c)[p] = IF p <= Len(b) THEN b[p] ELSE c[p - Len(b)]
OBVIOUS

\* What is left of q when its first k items go
KeptOf(kept, q, k) ==
    k \in {0, 1} /\ Len(kept) = Len(q) - k /\ \A i \in 1..Len(kept) : kept[i] = q[i + k]
\* Every item of new but the last stands no farther back in it than in old.
NoFarther(new, old, item) ==
    \A p \in 1..Len(new) :
        \/ p = Len(new) /\ new[p] = item
        \/ \E r \in 1..Len(old) : r >= p /\ old[r] = new[p]

LEMMA RowPut ==
    ASSUME NEW S, NEW b \in Seq(S), NEW q \in Seq(S), NEW item \in S,
           NEW kept \in Seq(S), NEW k, KeptOf(kept, q, k)
    PROVE  NoFarther(b \o Append(kept, item), b \o q, item)
<1> DEFINE last == Append(kept, item)
           new == b \o last
           old == b \o q
<1>1. Len(q) \in Nat /\ Len(b) \in Nat /\ Len(kept) \in Nat /\ k \in {0, 1}
      /\ Len(kept) = Len(q) - k
  BY DEF KeptOf
<1>2. \A i \in 1..Len(kept) : kept[i] = q[i + k]
  BY DEF KeptOf
<1>3. last \in Seq(S) /\ Len(last) = Len(kept) + 1 /\ last[Len(kept) + 1] = item
      /\ \A i \in 1..Len(kept) : last[i] = kept[i]
  BY <1>1
<1>3a. last \in Seq(S)
  BY <1>3
<1> HIDE DEF last
<1>4. /\ Len(new) = Len(b) + Len(last)
      /\ \A p \in 1..Len(new) : new[p] = IF p <= Len(b) THEN b[p] ELSE last[p - Len(b)]
  BY <1>3a, ConcatParts
<1>5. /\ Len(old) = Len(b) + Len(q)
      /\ \A p \in 1..Len(old) : old[p] = IF p <= Len(b) THEN b[p] ELSE q[p - Len(b)]
  OBVIOUS
<1> HIDE DEF new, old
<1> SUFFICES ASSUME NEW p \in 1..Len(new)
             PROVE  \/ p = Len(new) /\ new[p] = item
                    \/ \E r \in 1..Len(old) : r >= p /\ old[r] = new[p]
  BY DEF new, old, last, NoFarther
<1>6. CASE p <= Len(b)
  <2>1. p \in 1..Len(old) /\ old[p] = new[p]
    BY <1>1, <1>4, <1>5, <1>6
  <2> QED BY <2>1
<1>7. CASE p > Len(b) /\ p < Len(new)
  <2>1. p + k \in 1..Len(old) /\ p + k >= p /\ p + k > Len(b)
    BY <1>1, <1>3, <1>4, <1>5, <1>7
  <2>2. old[p + k] = q[p + k - Len(b)]
    BY <1>1, <1>5, <2>1
  <2>3. new[p] = last[p - Len(b)] /\ p - Len(b) \in 1..Len(kept)
    BY <1>1, <1>3, <1>4, <1>7
  <2>4. new[p] = q[p - Len(b) + k]
    BY <1>2, <1>3, <2>3
  <2>5. p - Len(b) + k = p + k - Len(b)
    BY <1>1
  <2> QED BY <2>1, <2>2, <2>4, <2>5
<1>8. CASE p = Len(new)
  <2>1. p > Len(b) /\ p - Len(b) = Len(kept) + 1
    BY <1>1, <1>3, <1>4, <1>8
  <2> QED BY <1>3, <1>4, <1>8, <2>1
<1>9. p \in Int /\ Len(new) \in Int /\ p <= Len(new) /\ Len(b) \in Int
  BY <1>1, <1>3, <1>4
<1> QED BY <1>6, <1>7, <1>8, <1>9

LEMMA RowAt ==
    ASSUME NEW S, NEW b \in Seq(S), NEW q \in Seq(S), NEW p \in 1..Len(q)
    PROVE  (b \o q)[Len(b) + p] = q[p]
OBVIOUS

LEMMA RowTail ==
    ASSUME NEW S, NEW b \in Seq(S), NEW q \in Seq(S), q # <<>>
    PROVE  Append(b, Head(q)) \o Tail(q) = b \o q
<1> DEFINE new == Append(b, Head(q)) \o Tail(q)
<1>1. Head(q) \in S /\ Tail(q) \in Seq(S) /\ Len(Tail(q)) = Len(q) - 1 /\ Head(q) = q[1]
      /\ Len(q) \in Nat /\ Len(q) > 0 /\ Len(b) \in Nat
      /\ \A i \in 1..Len(q) - 1 : Tail(q)[i] = q[i + 1]
  OBVIOUS
<1>2. Append(b, Head(q)) \in Seq(S) /\ Len(Append(b, Head(q))) = Len(b) + 1
  BY <1>1
<1>3. new \in Seq(S) /\ Len(new) = Len(b) + Len(q)
  BY <1>1, <1>2
<1>4. (b \o q) \in Seq(S) /\ Len(b \o q) = Len(b) + Len(q)
  OBVIOUS
<1>5. \A p \in 1..(Len(b) + Len(q)) : new[p] = (b \o q)[p]
  <2> SUFFICES ASSUME NEW p \in 1..(Len(b) + Len(q)) PROVE new[p] = (b \o q)[p]
    OBVIOUS
  <2>1. CASE p <= Len(b)
    BY <1>1, <2>1
  <2>2. CASE p = Len(b) + 1
    BY <1>1, <2>2
  <2>3. CASE p > Len(b) + 1
    <3>1. new[p] = Tail(q)[p - (Len(b) + 1)]
      BY <1>1, <1>2, <2>3
    <3>2. (b \o q)[p] = q[p - Len(b)]
      BY <1>1, <2>3
    <3>3. p - (Len(b) + 1) \in 1..Len(q) - 1 /\ p - (Len(b) + 1) + 1 = p - Len(b)
      BY <1>1, <2>3
    <3> QED BY <1>1, <3>1, <3>2, <3>3
  <2> QED BY <1>1, <2>1, <2>2, <2>3
<1> HIDE DEF new
<1>6. new = b \o q
  BY <1>3, <1>4, <1>5, SeqEqual
<1> QED BY <1>6 DEF new

RowType ==
    /\ Row \in Seq(Samples \cup {EndOfStream})
    /\ batch \in Seq(Samples \cup {EndOfStream}) /\ queue \in Seq(Samples \cup {EndOfStream})
    /\ Len(batch) \in Nat /\ Len(queue) \in Nat /\ Len(Row) = Len(batch) + Len(queue)
    /\ \A p \in 1..Len(Row) :
          /\ VersionsTo(p) \in Nat
          /\ Row[p] # EndOfStream => Row[p] \in Samples /\ stamp[Row[p]] \in Nat

LEMMA RowTypes == (TypeOK => RowType) /\ (TypeOK' => RowType')
<1>1. ASSUME NEW b \in Seq(Samples), NEW q \in Seq(Samples \cup {EndOfStream})
      PROVE  /\ b \in Seq(Samples \cup {EndOfStream}) /\ b \o q \in Seq(Samples \cup {EndOfStream})
             /\ Len(b) \in Nat /\ Len(q) \in Nat /\ Len(b \o q) = Len(b) + Len(q)
             /\ \A p \in 1..Len(b \o q) : (b \o q)[p] \in Samples \cup {EndOfStream} /\ p \in Nat \ {0}
  <2>1. b \in Seq(Samples \cup {EndOfStream})
    BY SeqMonotonic
  <2> QED BY <2>1
<1>2. \A n \in 1..Trigger, p \in Nat \ {0} : (n - 1 + (p - 1) \div Required) \div Trigger \in Nat
  BY VersionsToType
<1>3. ASSUME TypeOK PROVE RowType
  <2>1. /\ batch \in Seq(Samples) /\ queue \in Seq(Samples \cup {EndOfStream})
        /\ localStep \in 1..Trigger /\ stamp \in [Samples -> Nat]
    BY <1>3 DEF TypeOK
  <2> QED BY <1>1, <1>2, <2>1 DEF RowType, Row, VersionsTo
<1>4. ASSUME TypeOK' PROVE RowType'
  <2>1. /\ batch' \in Seq(Samples) /\ queue' \in Seq(Samples \cup {EndOfStream})
        /\ localStep' \in 1..Trigger /\ stamp' \in [Samples -> Nat]
    BY <1>4 DEF TypeOK
  <2> QED BY <1>1, <1>2, <2>1 DEF RowType, Row, VersionsTo
<1> QED BY <1>3, <1>4

LEMMA BoundType == Bound \in Nat
<1>1. MaxRequired - 1 \in Nat /\ Required * Trigger \in Nat \ {0}
  BY Sizes
<1> QED BY <1>1, DivMono DEF Bound

\* A step that leaves the samples no worse placed keeps the bound.
LEMMA LagKept ==
    ASSUME TypeOK, TypeOK', LagInv, Going' => Going,
           Going' =>
             \A p \in 1..Len(Row') : Row'[p] # EndOfStream =>
                \E r \in 1..Len(Row) :
                   /\ Row[r] = Row'[p]
                   /\ trainerVersion' + VersionsTo(p)' <= trainerVersion + VersionsTo(r)
                   /\ stamp'[Row[r]] = stamp[Row[r]]
    PROVE  LagInv'
<1> SUFFICES ASSUME Going', NEW p \in 1..Len(Row'), Row'[p] # EndOfStream
             PROVE  trainerVersion' + VersionsTo(p)' <= stamp'[Row'[p]] + Bound
  BY DEF LagInv, Bound
<1>1. PICK r \in 1..Len(Row) :
         /\ Row[r] = Row'[p]
         /\ trainerVersion' + VersionsTo(p)' <= trainerVersion + VersionsTo(r)
         /\ stamp'[Row[r]] = stamp[Row[r]]
  OBVIOUS
<1>2. trainerVersion + VersionsTo(r) <= stamp[Row[r]] + Bound
  BY <1>1 DEF LagInv
<1>3. VersionsTo(r) \in Nat /\ VersionsTo(p)' \in Nat /\ stamp[Row[r]] \in Nat
  BY <1>1, RowTypes DEF RowType
<1>4. trainerVersion \in Nat /\ trainerVersion' \in Nat
  BY DEF TypeOK
<1> QED BY <1>1, <1>2, <1>3, <1>4, BoundType

\* No sample the trainer has or is about to get is being generated.
LEMMA StampsKept ==
    ASSUME TypeOK, PlacesInv, NEW t \in Samples, task[t] # "none",
           NEW p \in 1..Len(Row)
    PROVE  Row[p] # t
<1> SUFFICES ASSUME Row[p] = t PROVE FALSE
  OBVIOUS
<1>1. RowType /\ SampleCounts(t)
  BY RowTypes, CountsType
<1>2. In(t, batch) \/ In(t, queue)
  <2>1. CASE p <= Len(batch)
    BY <1>1, <2>1 DEF RowType, Row, In
  <2>2. CASE p > Len(batch)
    <3>1. p - Len(batch) \in 1..Len(queue) /\ queue[p - Len(batch)] = t
      BY <1>1, <2>2 DEF RowType, Row
    <3> QED BY <3>1 DEF In
  <2> QED BY <1>1, <2>1, <2>2 DEF RowType
<1>3. Copies(batch, t) # 0 \/ Copies(queue, t) # 0
  BY <1>1, <1>2, CopiesType DEF RowType
<1>4. Places(t) >= 2
  BY <1>1, <1>3 DEF Places, SampleCounts, One
<1>5. Places(t) <= 1 /\ Places(t) \in Nat
  BY <1>1 DEF PlacesInv, Places, SampleCounts, One
<1> QED BY <1>4, <1>5

\* A sample put last is in time, whatever is in front of it.
LEMMA LastInTime ==
    ASSUME TypeOK, BatchInv, PutInv, Going, NEW s \in Samples, task[s] = "put",
           NEW p \in Nat \ {0}, p <= Len(batch) + MaxRequired
    PROVE  trainerVersion + VersionsTo(p) <= stamp[s] + Bound
<1>1. trainerVersion \in Nat /\ stamp[s] \in Nat /\ localStep \in 1..Trigger /\ Len(batch) \in Nat
  BY DEF TypeOK
<1>2. trainerVersion <= stamp[s] + Slack
  BY DEF PutInv, Going
<1>3. Len(batch) \in 0..Required
  BY <1>1, Sizes DEF BatchInv
<1>4. VersionsTo(p) <= Bound - 1 /\ (localStep = 1 /\ Len(batch) = 0 => VersionsTo(p) <= Bound - 2)
  BY <1>1, <1>3, VersionsToLast DEF VersionsTo
<1>5. Slack = 2 => localStep = 1 /\ Len(batch) = 0
  BY DEF Slack, BatchInv, Syncing
<1>6. VersionsTo(p) \in Nat
  BY <1>1, VersionsToType DEF VersionsTo
<1>7. Slack \in {1, 2}
  BY DEF Slack
<1> HIDE DEF VersionsTo
<1>8. CASE Slack = 1
  BY <1>1, <1>2, <1>4, <1>6, <1>8, BoundType
<1>9. CASE Slack = 2
  BY <1>1, <1>2, <1>4, <1>5, <1>6, <1>9, BoundType
<1> QED BY <1>7, <1>8, <1>9

LEMMA PutLag ==
    ASSUME TypeOK, TypeOK', LagInv, QueueInv, BatchInv, PutInv, UNCHANGED trainerVars, UNCHANGED stamp,
           NEW item \in Samples \cup {EndOfStream}, MQ!PutSample(item),
           item # EndOfStream => task[item] = "put"
    PROVE  LagInv'
<1> SUFFICES ASSUME Going, NEW p \in 1..Len(Row'), Row'[p] # EndOfStream
             PROVE  trainerVersion + VersionsTo(p) <= stamp[Row'[p]] + Bound
  <2>1. UNCHANGED <<phase, trainerPc, trainerVersion, localStep>>
    BY DEF trainerVars
  <2>2. \A p \in 1..Len(Row') : VersionsTo(p)' = VersionsTo(p)
    BY <2>1 DEF VersionsTo
  <2> QED BY <2>1, <2>2 DEF LagInv, Bound, Going
<1>1. RowType /\ RowType' /\ batch' = batch
  BY RowTypes DEF trainerVars
<1>2. queue' = Append(IF MQ!QueueFull THEN Tail(queue) ELSE queue, item)
  BY DEF MQ!PutSample
<1>3. MQ!QueueFull \in BOOLEAN /\ (MQ!QueueFull => queue # <<>>)
  BY <1>1, Sizes DEF MQ!QueueFull, RowType
<1>4. \/ p = Len(Row') /\ Row'[p] = item
      \/ \E r \in 1..Len(Row) : r >= p /\ Row[r] = Row'[p]
  <2> DEFINE kept == IF MQ!QueueFull THEN Tail(queue) ELSE queue
             k == IF MQ!QueueFull THEN 1 ELSE 0
  <2>1. batch \in Seq(Samples \cup {EndOfStream}) /\ queue \in Seq(Samples \cup {EndOfStream})
    BY <1>1 DEF RowType
  <2>2. kept \in Seq(Samples \cup {EndOfStream}) /\ k \in {0, 1} /\ Len(kept) = Len(queue) - k
        /\ \A i \in 1..Len(kept) : kept[i] = queue[i + k]
    <3>1. CASE MQ!QueueFull
      <4>1. /\ Tail(queue) \in Seq(Samples \cup {EndOfStream}) /\ Len(Tail(queue)) = Len(queue) - 1
            /\ \A i \in 1..Len(Tail(queue)) : Tail(queue)[i] = queue[i + 1]
        BY <1>3, <2>1, <3>1
      <4> QED BY <3>1, <4>1
    <3>2. CASE ~MQ!QueueFull
      <4>1. Len(queue) = Len(queue) - 0 /\ \A i \in 1..Len(queue) : queue[i] = queue[i + 0]
        BY <2>1
      <4> QED BY <2>1, <3>2, <4>1
    <3> QED BY <3>1, <3>2
  <2>3. Row' = batch \o Append(kept, item)
    BY <1>1, <1>2 DEF Row
  <2> HIDE DEF kept, k
  <2>4. KeptOf(kept, queue, k)
    BY <2>2 DEF KeptOf
  <2>5. NoFarther(batch \o Append(kept, item), batch \o queue, item)
    BY <2>1, <2>2, <2>4, RowPut
  <2> QED BY <2>3, <2>5 DEF NoFarther, Row
<1>5. localStep \in 1..Trigger /\ trainerVersion \in Nat
  BY DEF TypeOK
<1>6. CASE p = Len(Row') /\ Row'[p] = item
  <2>1. Len(queue') <= MaxRequired
    BY TypeParts, PutLength DEF QueueInv
  <2>2. p \in Nat \ {0} /\ p <= Len(batch) + MaxRequired
    BY <1>1, <1>6, <2>1, Sizes DEF RowType
  <2>3. item \in Samples /\ task[item] = "put"
    BY <1>6
  <2> QED BY <1>6, <2>2, <2>3, LastInTime
<1>7. ASSUME NEW r \in 1..Len(Row), r >= p, Row[r] = Row'[p]
      PROVE  trainerVersion + VersionsTo(p) <= stamp[Row'[p]] + Bound
  <2>1. p \in Nat \ {0} /\ r \in Nat \ {0} /\ p <= r
    BY <1>1, <1>7 DEF RowType
  <2>2. VersionsTo(p) \in Nat /\ VersionsTo(r) \in Nat /\ VersionsTo(p) <= VersionsTo(r)
    BY <1>5, <2>1, VersionsToType DEF VersionsTo
  <2>3. trainerVersion + VersionsTo(r) <= stamp[Row[r]] + Bound /\ stamp[Row[r]] \in Nat
    BY <1>1, <1>7 DEF LagInv, RowType
  <2> QED BY <1>5, <1>7, <2>2, <2>3, BoundType
<1> QED BY <1>4, <1>6, <1>7

LEMMA TrainLag ==
    ASSUME TypeOK, TypeOK', LagInv, BatchInv, Train PROVE LagInv'
<1>1. RowType /\ RowType' /\ localStep \in 1..Trigger /\ trainerVersion \in Nat
  BY RowTypes DEF TypeOK
<1>2. batch' = <<>> /\ UNCHANGED <<queue, stamp, phase>> /\ Len(batch) = Required
  BY DEF Train, BatchInv, queueVars, rollVars, taskVars
<1>3. Row' = queue
  <2>1. Row' = <<>> \o queue
    BY <1>2 DEF Row
  <2> QED BY <1>1, <2>1 DEF RowType
<1>4. ASSUME NEW p \in 1..Len(Row')
      PROVE  /\ p + Required \in 1..Len(Row) /\ Row[p + Required] = Row'[p]
             /\ trainerVersion' + VersionsTo(p)' <= trainerVersion + VersionsTo(p + Required)
  <2>1. p \in 1..Len(queue) /\ p \in Nat \ {0}
    BY <1>1, <1>3 DEF RowType
  <2>2. p + Required \in 1..Len(Row) /\ p + Required > Len(batch) /\ p + Required - Len(batch) = p
    BY <1>1, <1>2, <2>1, Sizes DEF RowType
  <2>3. Row[p + Required] = queue[p]
    <3>1. (batch \o queue)[Len(batch) + p] = queue[p]
      BY <1>1, <2>1, RowAt DEF RowType
    <3>2. Len(batch) + p = p + Required
      BY <1>2, <2>1, Sizes
    <3> QED BY <3>1, <3>2 DEF Row
  <2> DEFINE x == (p - 1) \div Required
             y == (p + Required - 1) \div Required
  <2>4. /\ localStep < Trigger => (localStep - 1 + y) \div Trigger = (localStep + x) \div Trigger
        /\ localStep = Trigger => (localStep - 1 + y) \div Trigger = x \div Trigger + 1
    BY <1>1, <2>1, VersionsToTrain
  <2>5. VersionsTo(p + Required) = (localStep - 1 + y) \div Trigger
    BY <1>1, <2>1, Sizes DEF VersionsTo
  <2>6. VersionsTo(p)' = (localStep' - 1 + x) \div Trigger
    BY DEF VersionsTo
  <2>7. x \in Nat
    BY <2>1, Sizes, DivMono
  <2>8. VersionsTo(p + Required) \in Nat /\ VersionsTo(p)' \in Nat
    BY <1>1, <2>2 DEF RowType
  <2> HIDE DEF x, y
  <2>9. CASE localStep < Trigger
    <3>1. localStep' = localStep + 1 /\ trainerVersion' = trainerVersion
      BY <2>9 DEF Train
    <3>2. localStep' - 1 + x = localStep + x
      BY <1>1, <2>7, <3>1
    <3> QED BY <1>1, <1>3, <2>2, <2>3, <2>4, <2>5, <2>6, <2>8, <2>9, <3>1, <3>2
  <2>10. CASE localStep = Trigger
    <3>1. localStep' = 1 /\ trainerVersion' = trainerVersion + 1
      BY <2>10, Sizes DEF Train, BeginSync
    <3>2. localStep' - 1 + x = x
      BY <2>7, <3>1
    <3> QED BY <1>1, <1>3, <2>2, <2>3, <2>4, <2>5, <2>6, <2>8, <2>10, <3>1, <3>2
  <2> QED BY <1>1, <2>9, <2>10, Sizes
<1>5. Going' => Going
  BY DEF Going, Train
<1> QED BY <1>2, <1>4, <1>5, LagKept

LEMMA NextLag ==
    /\ TypeOK /\ TypeOK' /\ PlacesInv /\ QueueInv /\ BatchInv /\ PutInv /\ LagInv
    /\ [Next]_vars
    => LagInv'
<1> SUFFICES ASSUME TypeOK, TypeOK', PlacesInv, QueueInv, BatchInv, PutInv, LagInv, [Next]_vars
             PROVE  LagInv'
  OBVIOUS
<1>1. RowType /\ RowType'
  BY RowTypes
<1>2. ASSUME Going' => Going, Row' = Row,
             Going' => trainerVersion' = trainerVersion /\ localStep' = localStep,
             \A p \in 1..Len(Row) : Row[p] # EndOfStream => stamp'[Row[p]] = stamp[Row[p]]
      PROVE  LagInv'
  <2>1. ASSUME Going', NEW p \in 1..Len(Row'), Row'[p] # EndOfStream
        PROVE  /\ Row[p] = Row'[p] /\ stamp'[Row[p]] = stamp[Row[p]] /\ p \in 1..Len(Row)
               /\ trainerVersion' + VersionsTo(p)' <= trainerVersion + VersionsTo(p)
    <3>1. VersionsTo(p)' = VersionsTo(p) /\ VersionsTo(p) \in Nat /\ trainerVersion \in Nat
      BY <1>1, <1>2, <2>1 DEF VersionsTo, RowType, TypeOK
    <3> QED BY <1>2, <2>1, <3>1
  <2> QED BY <1>2, <2>1, LagKept
<1>3. ASSUME UNCHANGED <<queue, batch, phase, trainerPc, trainerVersion, localStep, stamp>> PROVE LagInv'
  BY <1>2, <1>3 DEF Row, Going
<1>4. ASSUME NEW s \in Samples, Task(s) \/ TaskFail(s), UNCHANGED trainerVars PROVE LagInv'
  <2>1. CASE TaskPut(s)
    <3>1. MQ!PutSample(s) /\ UNCHANGED stamp /\ task[s] = "put"
      BY <2>1 DEF TaskPut
    <3> QED BY <1>4, <3>1, PutLag
  <2>2. CASE TaskGenerated(s)
    <3>1. UNCHANGED <<queue, batch, phase, trainerPc, trainerVersion, localStep>> /\ task[s] # "none"
          /\ stamp' = [stamp EXCEPT ![s] = version]
      BY <1>4, <2>2 DEF TaskGenerated, queueVars, trainerVars
    <3>2. \A p \in 1..Len(Row) : Row[p] # s
      BY <3>1, StampsKept
    <3>3. \A p \in 1..Len(Row) : Row[p] # EndOfStream => Row[p] \in Samples
      BY <1>1 DEF RowType
    <3>4. \A p \in 1..Len(Row) : Row[p] # EndOfStream => stamp'[Row[p]] = stamp[Row[p]]
      BY <3>1, <3>2, <3>3 DEF TypeOK
    <3> QED BY <1>2, <3>1, <3>4 DEF Row, Going
  <2>3. CASE TaskStart(s) \/ TaskCut(s) \/ TaskFail(s)
    BY <1>3, <1>4, <2>3 DEF TaskStart, TaskCut, TaskFail, queueVars, trainerVars
  <2> QED BY <1>4, <2>1, <2>2, <2>3 DEF Task
<1>5. CASE Train
  BY <1>5, TrainLag
<1>6. CASE GetSample
  <2>1. /\ queue # <<>> /\ queue' = Tail(queue) /\ batch' = Append(batch, Head(queue))
        /\ UNCHANGED <<phase, trainerVersion, localStep, stamp>> /\ trainerPc # "failed"
    BY <1>6 DEF GetSample, MQ!Take, rollVars, taskVars
  <2>2. Row' = Row
    BY <1>1, <2>1, RowTail DEF Row, RowType
  <2> QED BY <1>2, <2>1, <2>2 DEF Going
<1>7. CASE GetEnd \/ WaitFailed
  <2>1. ~Going'
    BY <1>7 DEF GetEnd, WaitFailed, Going
  <2> QED BY <2>1 DEF LagInv
<1>8. CASE Log \/ LastValid \/ WaitValid \/ SyncBegin \/ SyncEnd \/ GetWait
  <2>1. UNCHANGED <<queue, batch, stamp>>
    BY <1>8 DEF Log, LastValid, WaitValid, SyncBegin, SyncEnd, GetWait, rollVars, taskVars, queueVars,
       trainerVars, MQ!Wait, MQ!UpdateParamVersion, MQ!GetValidate
  <2>2. /\ phase' = "loop" => phase = "loop" /\ UNCHANGED <<trainerVersion, localStep>>
        /\ trainerPc # "failed"
    BY <1>8 DEF Log, LastValid, WaitValid, SyncBegin, SyncEnd, GetWait, trainerVars
  <2> QED BY <1>2, <2>1, <2>2 DEF Row, Going
<1>9. CASE DriverClear
  <2>1. ~Going'
    BY <1>9 DEF DriverClear, BatchInv, Going, Fetching, Syncing
  <2> QED BY <2>1 DEF LagInv
<1>10. CASE MainPutEnd /\ UNCHANGED trainerVars
  <2>1. MQ!PutSample(EndOfStream) /\ UNCHANGED stamp
    BY <1>10 DEF MainPutEnd, taskVars
  <2> QED BY <1>10, <2>1, PutLag
<1>11. CASE \/ /\ UNCHANGED trainerVars
               /\ Feed \/ Processor \/ MainStop \/ Monitor \/ Pause \/ Update \/ ValidationDone \/ Resume
            \/ UNCHANGED vars
  <2>1. UNCHANGED <<queue, batch, phase, trainerPc, trainerVersion, localStep, stamp>>
    BY <1>11 DEF Feed, Processor, ProcTop, ProcFetchWait, ProcSetPaused, ProcDrain, ProcReap, ProcIdle,
       ProcSubmit, ProcWoken, MainStop, Monitor, MonitorCheck, MonitorPoll, MonitorUnpause, Pause,
       PauseArrive, PauseStart, PauseGathered, PauseEnd, Update, UpdateArrive, UpdateStart, UpdateCount,
       UpdatePublish, UpdateSpawnValidation, UpdateFrame, ValidationDone, Resume, ResumeArrive,
       ResumeServers, ResumeRun, MQ!PutValidate, queueVars, taskVars, trainerVars, vars, rollVars
  <2> QED BY <1>3, <2>1
<1> QED
  BY <1>4, <1>5, <1>6, <1>7, <1>8, <1>9, <1>10, <1>11 DEF Next, Rollout, RollNext, Trainer, Terminated

\* Everything the bound rests on.
LagParts == PlacesInv /\ CallInv /\ BatchInv /\ QueueInv /\ PutInv /\ LagInv

LEMMA InitLag == Init => CallInv /\ BatchInv /\ QueueInv /\ PutInv /\ LagInv
<1> SUFFICES ASSUME Init PROVE CallInv /\ BatchInv /\ QueueInv /\ PutInv /\ LagInv
  OBVIOUS
<1>1. CallInv
  BY DEF Init, RollInit, CallInv, Fetching, Syncing
<1>2. BatchInv /\ QueueInv
  BY Sizes DEF Init, BatchInv, QueueInv, Fetching, Syncing
<1>3. PutInv
  BY DEF Init, RollInit, PutInv
<1>4. Row = <<>>
  <2>1. Row = <<>> \o <<>> /\ <<>> \in Seq({})
    BY DEF Init, Row
  <2> QED BY <2>1
<1>5. LagInv
  BY <1>4 DEF LagInv
<1> QED BY <1>1, <1>2, <1>3, <1>5

LEMMA NextLagParts == TypeInv /\ LagParts /\ [Next]_vars => LagParts'
<1> SUFFICES ASSUME TypeInv, LagParts, [Next]_vars PROVE LagParts'
  OBVIOUS
<1>1. TypeOK /\ TypeOK'
  BY NextTypes DEF TypeInv
<1> QED
  BY <1>1, NextPlaces, NextCalls, NextBatch, NextLength, NextPut, NextLag DEF LagParts

LEMMA LagFollows == TypeOK /\ LagParts => VersionLagBound
<1> SUFFICES ASSUME TypeOK, LagParts, trainerPc = "train", NEW i \in 1..Len(batch)
             PROVE  trainerVersion - stamp[batch[i]] <= Bound
  BY DEF VersionLagBound, Lags, Bound
<1>1. RowType /\ batch[i] \in Samples /\ localStep \in 1..Trigger
  BY RowTypes DEF TypeOK
<1>2. i \in 1..Len(Row) /\ Row[i] = batch[i] /\ batch[i] # EndOfStream
  <2>1. i \in 1..Len(Row) /\ Row[i] = batch[i]
    BY <1>1, ConcatParts DEF RowType, Row
  <2> QED BY <1>1, <2>1 DEF Samples, EndOfStream
<1>3. Going
  BY DEF LagParts, BatchInv, Going
<1>4. trainerVersion + VersionsTo(i) <= stamp[batch[i]] + Bound
  BY <1>2, <1>3 DEF LagParts, LagInv
<1>5. VersionsTo(i) \in Nat /\ stamp[batch[i]] \in Nat
  BY <1>1, <1>2 DEF RowType
<1>6. trainerVersion \in Nat
  BY DEF TypeOK
<1> QED BY <1>4, <1>5, <1>6, BoundType

\* No batch is more than ceil(1 + staleness_threshold) + 1 versions old,
\* whatever the sizes, the order of the coroutines and the drops of the queue.
THEOREM LagIsBounded == Spec => []VersionLagBound
<1>1. Init => TypeInv /\ LagParts
  BY InitType, InitQuiesce, InitPlaces, InitLag DEF TypeInv, LagParts
<1>2. TypeInv /\ LagParts => VersionLagBound
  BY LagFollows DEF TypeInv
<1> QED BY <1>1, <1>2, NextTypes, NextLagParts, PTL DEF Spec

-----------------------------------------------------------------------------
(* OnPolicy.                                                               *)

\* Without a staleness threshold the rollouter may be ahead by what the next
\* version of the parameters is trained on, and no more.
LEMMA SynchronousSize == ASSUME ThetaNum = 0 PROVE MaxRequired = Required * Trigger
<1>1. Required \in Nat /\ Trigger \in Nat /\ ThetaDen \in Nat \ {0}
  BY SizeAssumption
<1> DEFINE n == Required * Trigger
<1>2. n \in Nat
  BY <1>1
<1>3. Required * (ThetaDen + ThetaNum) * Trigger = n * ThetaDen
  BY <1>1
<1> HIDE DEF n
<1>4. (n * ThetaDen) \div ThetaDen = n
  BY <1>1, <1>2
<1> QED BY <1>3, <1>4 DEF MaxRequired, n

\* The end of the stream is only signalled when the processor has ended.
EndInv ==
    /\ Copies(queue, EndOfStream) # 0 \/ phase # "loop" => mainPc # "streaming"
    /\ mainPc # "streaming" => procPc \in {"exited", "dead"}

LEMMA NextEnd == TypeOK /\ TypeOK' /\ EndInv /\ [Next]_vars => EndInv'
<1> SUFFICES ASSUME TypeOK, TypeOK', EndInv, [Next]_vars PROVE EndInv'
  OBVIOUS
<1>1. QueueTypes /\ queue \in Seq(Samples \cup {EndOfStream})
      /\ Copies(queue, EndOfStream) \in Nat /\ Copies(queue', EndOfStream) \in Nat
  BY TypeParts, QueueCopies DEF QueueTypes, TypeOK
<1>2. ASSUME UNCHANGED <<queue, phase, mainPc, procPc>> PROVE EndInv'
  BY <1>2 DEF EndInv
<1>3. ASSUME NEW s \in Samples, Task(s) \/ TaskFail(s), UNCHANGED trainerVars PROVE EndInv'
  <2>1. UNCHANGED <<phase, mainPc, procPc>>
    BY <1>3 DEF Task, TaskStart, TaskCut, TaskGenerated, TaskPut, TaskFail, TaskFrame, procVars, trainerVars
  <2>2. UNCHANGED queue \/ MQ!PutSample(s)
    BY <1>3 DEF Task, TaskStart, TaskCut, TaskGenerated, TaskPut, TaskFail, queueVars
  <2>3. Copies(queue', EndOfStream) <= Copies(queue, EndOfStream)
    <3>1. One(s = EndOfStream) = 0
      BY DEF One, Samples, EndOfStream
    <3>2. CASE MQ!PutSample(s)
      <4>1. Copies(queue', EndOfStream) <= Copies(queue, EndOfStream) + One(s = EndOfStream)
        BY <1>1, <3>2, PutCopies
      <4> QED BY <1>1, <3>1, <4>1
    <3>3. CASE UNCHANGED queue
      BY <1>1, <3>3
    <3> QED BY <2>2, <3>2, <3>3
  <2> QED BY <1>1, <2>1, <2>3 DEF EndInv
<1>4. CASE MainPutEnd /\ UNCHANGED trainerVars
  BY <1>4 DEF MainPutEnd, EndInv, procVars
<1>5. CASE MainStop /\ UNCHANGED trainerVars
  BY <1>5 DEF MainStop, EndInv, procVars, queueVars, trainerVars
<1>6. CASE UNCHANGED trainerVars /\ (Processor \/ Monitor \/ Resume)
  <2>1. UNCHANGED <<queue, mainPc, phase>>
    BY <1>6 DEF Processor, ProcTop, ProcFetchWait, ProcSetPaused, ProcDrain, ProcReap, ProcIdle,
       ProcSubmit, ProcWoken, Monitor, MonitorCheck, MonitorPoll, MonitorUnpause, Resume, ResumeArrive,
       ResumeServers, ResumeRun, queueVars, trainerVars
  <2>2. procPc \in {"exited", "dead"} => procPc' = procPc
    BY <1>6 DEF Processor, ProcTop, ProcFetchWait, ProcSetPaused, ProcDrain, ProcReap, ProcIdle,
       ProcSubmit, ProcWoken, Monitor, MonitorCheck, MonitorPoll, MonitorUnpause, Resume, ResumeArrive,
       ResumeServers, ResumeRun, procVars, Notified
  <2> QED BY <2>1, <2>2 DEF EndInv
<1>7. CASE Trainer \/ DriverClear
  <2>1. UNCHANGED <<mainPc, procPc>>
    BY <1>7 DEF Trainer, DriverClear, GetWait, GetSample, GetEnd, Train, WaitValid, WaitFailed, SyncBegin,
       SyncEnd, LastValid, Log, rollVars, procVars
  <2>2. CASE MQ!Take("trainer")
    <3>1. queue # <<>> /\ queue' = Tail(queue)
      BY <2>2 DEF MQ!Take
    <3>2. Copies(queue, EndOfStream) = Copies(queue', EndOfStream) + One(Head(queue) = EndOfStream)
      BY <1>1, <3>1, CopiesTail
    <3>3. One(Head(queue) = EndOfStream) \in Nat
          /\ (Head(queue) = EndOfStream => One(Head(queue) = EndOfStream) = 1)
      BY DEF One
    <3>4. Copies(queue', EndOfStream) # 0 => Copies(queue, EndOfStream) # 0
      BY <1>1, <3>2, <3>3
    <3>5. Head(queue) = EndOfStream => Copies(queue, EndOfStream) # 0
      BY <1>1, <3>2, <3>3
    <3>6. phase' = phase \/ Head(queue) = EndOfStream \/ phase # "loop"
      BY <1>7, <2>2 DEF Trainer, DriverClear, GetWait, GetSample, GetEnd, Train, WaitValid, WaitFailed,
         SyncBegin, SyncEnd, LastValid, Log, trainerVars
    <3> QED BY <2>1, <3>4, <3>5, <3>6 DEF EndInv
  <2>3. CASE ~MQ!Take("trainer")
    <3>1. UNCHANGED queue \/ queue' = <<>>
      BY <1>7, <2>3 DEF Trainer, DriverClear, GetWait, GetSample, GetEnd, Train, WaitValid, WaitFailed,
         SyncBegin, SyncEnd, LastValid, Log, queueVars, MQ!Wait, MQ!UpdateParamVersion, MQ!GetValidate,
         MQ!ClearQueue
    <3>2. phase' # "loop" => phase # "loop"
      BY <1>7, <2>3 DEF Trainer, DriverClear, GetWait, GetSample, GetEnd, Train, WaitValid, WaitFailed,
         SyncBegin, SyncEnd, LastValid, Log, trainerVars
    <3>3. Copies(queue', EndOfStream) # 0 => Copies(queue, EndOfStream) # 0
      BY <3>1, CopiesEmpty
    <3> QED BY <2>1, <3>2, <3>3 DEF EndInv
  <2> QED BY <2>2, <2>3
<1>8. CASE \/ UNCHANGED trainerVars /\ (Feed \/ Pause \/ Update \/ ValidationDone)
           \/ UNCHANGED vars
  <2>1. UNCHANGED <<queue, phase, mainPc, procPc>>
    BY <1>8 DEF Feed, Pause, PauseArrive, PauseStart, PauseGathered, PauseEnd, Update, UpdateArrive,
       UpdateStart, UpdateCount, UpdatePublish, UpdateSpawnValidation, UpdateFrame, ValidationDone,
       MQ!PutValidate, queueVars, procVars, trainerVars, vars, rollVars
  <2> QED BY <1>2, <2>1
<1> QED
  BY <1>3, <1>4, <1>5, <1>6, <1>7, <1>8 DEF Next, Rollout, RollNext, Terminated

\* The samples of the version being trained that the trainer has taken
Used == (localStep - 1) * Required + Len(batch)
\* update_param_version has counted what is outstanding.
Counted == updatePc \in {"publish", "done", "failed"}
\* pause() has quiesced the tasks and the weights have not arrived.
Quiet == (trainerPc = "pausing" /\ pausePc \in {"flush", "done"}) \/ trainerPc = "transfer"
\* From the last training step of a version until the samples of the next one
\* may be fetched, the rollouter has nothing to do.
Blocked == trainerPc \in Syncing \/ (trainerPc \in Fetching /\ ~Counted)

RoomInv ==
    Going =>
        /\ Blocked => Outstanding = 0 /\ staleness >= MaxRequired
        /\ trainerPc \in Fetching /\ Counted =>
              Used + Outstanding <= staleness /\ Used + Outstanding <= MaxRequired
        /\ trainerPc \in Fetching /\ ~Counted =>
              Used = 0 /\ finished = 0 /\ (updatePc = "count" => snapshot = 0)
        /\ trainerPc \in Syncing => Counted
        /\ Quiet => finished = 0
        /\ procPc = "fetchWait" => staleness < MaxRequired

LEMMA NoneOutstanding ==
    ASSUME TypeOK, Outstanding = 0
    PROVE  /\ Live = {} /\ hand = EndOfStream /\ cancelQueue = <<>>
           /\ Len(queue) = Copies(queue, EndOfStream)
<1>1. /\ Ready \in Nat /\ Flight \in Nat /\ Cardinality(Live) \in Nat /\ Len(cancelQueue) \in Nat
      /\ Outstanding = One(hand # EndOfStream) + Flight + Ready /\ Len(queue) \in Nat
  BY CountTypes DEF Counts
<1>2. One(hand # EndOfStream) \in Nat /\ (hand # EndOfStream => One(hand # EndOfStream) = 1)
  BY DEF One
<1>3. Flight = 0 /\ Ready = 0 /\ hand = EndOfStream
  BY <1>1, <1>2
<1>4. Cardinality(Live) = 0 /\ Len(cancelQueue) = 0
  BY <1>1, <1>3 DEF Flight
<1>5. Live = {}
  BY <1>4, LiveFinite, FS_EmptySet
<1>6. cancelQueue = <<>>
  BY <1>4 DEF TypeOK
<1>7. Copies(queue, EndOfStream) \in Nat
  BY QueueCopies DEF TypeOK
<1>8. Len(queue) = Copies(queue, EndOfStream)
  BY <1>1, <1>3, <1>7 DEF Ready
<1> QED BY <1>3, <1>5, <1>6, <1>8

UsedType == Used \in Nat /\ staleness \in Nat /\ Outstanding \in Nat /\ finished \in Nat
LEMMA UsedTypes == (TypeOK => UsedType) /\ (TypeOK' => UsedType')
<1>1. \A n \in 1..Trigger, k \in Nat : (n - 1) * Required + k \in Nat
  BY Sizes
<1>2. ASSUME TypeOK PROVE UsedType
  <2>1. localStep \in 1..Trigger /\ Len(batch) \in Nat /\ staleness \in Nat /\ finished \in Nat
    BY <1>2 DEF TypeOK
  <2> QED BY <1>1, <1>2, <2>1, CountTypes DEF UsedType, Used, Counts
<1>3. ASSUME TypeOK' PROVE UsedType'
  <2>1. localStep' \in 1..Trigger /\ Len(batch') \in Nat /\ staleness' \in Nat /\ finished' \in Nat
    BY <1>3 DEF TypeOK
  <2> QED BY <1>1, <1>3, <2>1, CountTypes DEF UsedType, Used, Counts
<1> QED BY <1>2, <1>3

LEMMA RoomLeft ==
    \A used, out, next, stale, later, max \in Nat :
        /\ used + out <= stale /\ used + out <= max
        /\ (next <= out /\ later = stale) \/ (next <= out + 1 /\ later = stale + 1 /\ stale < max)
        => used + next <= later /\ used + next <= max
OBVIOUS

\* Every step of the rollouter outside pause() and update_param_version either
\* leaves what is outstanding, or fetches a sample while there is room.
LEMMA RollRoom ==
    ASSUME TypeOK, TypeOK', RoomInv, UNCHANGED <<trainerVars, updatePc, pausePc, snapshot>>,
           \/ /\ Outstanding' <= Outstanding /\ staleness' = staleness
              /\ procPc' = "fetchWait" => procPc = "fetchWait" \/ staleness < MaxRequired
           \/ /\ Outstanding' <= Outstanding + 1 /\ staleness' = staleness + 1
              /\ Going => staleness < MaxRequired
              /\ procPc' # "fetchWait",
           finished' \in {finished, 0} \/ Live # {}
    PROVE  RoomInv'
<1>1. UNCHANGED <<trainerPc, phase, batch, localStep>>
  BY DEF trainerVars
<1>2. (Going' <=> Going) /\ (Blocked' <=> Blocked) /\ (Counted' <=> Counted) /\ (Quiet' <=> Quiet) /\ Used' = Used
  BY <1>1 DEF Going, Blocked, Counted, Quiet, Used
<1> SUFFICES ASSUME Going PROVE RoomInv'
  BY <1>2 DEF RoomInv
<1>3. UsedType /\ UsedType' /\ MaxRequired \in Nat
  BY UsedTypes, Sizes
<1>4. Blocked => finished' \in {finished, 0}
  BY NoneOutstanding DEF RoomInv
<1>5. Quiet => Blocked
  BY DEF Quiet, Blocked, Syncing
<1>6. trainerPc \in Fetching /\ ~Counted => Blocked
  BY DEF Blocked
<1>7. (Blocked => Outstanding' = 0 /\ staleness' >= MaxRequired)
  BY <1>3 DEF RoomInv, UsedType
<1>8. trainerPc \in Fetching /\ Counted => Used + Outstanding' <= staleness' /\ Used + Outstanding' <= MaxRequired
  <2> SUFFICES ASSUME trainerPc \in Fetching, Counted
               PROVE  Used + Outstanding' <= staleness' /\ Used + Outstanding' <= MaxRequired
    OBVIOUS
  <2>1. Used + Outstanding <= staleness /\ Used + Outstanding <= MaxRequired
    BY DEF RoomInv
  <2>2. Used \in Nat /\ Outstanding \in Nat /\ staleness \in Nat /\ Outstanding' \in Nat /\ staleness' \in Nat
    BY <1>3 DEF UsedType
  <2>3. \/ Outstanding' <= Outstanding /\ staleness' = staleness
        \/ Outstanding' <= Outstanding + 1 /\ staleness' = staleness + 1 /\ staleness < MaxRequired
    OBVIOUS
  <2>4. MaxRequired \in Nat
    BY <1>3
  <2> QED BY <2>1, <2>2, <2>3, <2>4, RoomLeft
<1>9. trainerPc \in Fetching /\ ~Counted => Used = 0 /\ finished' = 0 /\ (updatePc = "count" => snapshot' = 0)
  BY <1>4, <1>6 DEF RoomInv
<1>10. (trainerPc \in Syncing => Counted) /\ (Quiet => finished' = 0)
  BY <1>4, <1>5 DEF RoomInv
<1>11. procPc' = "fetchWait" => staleness' < MaxRequired
  BY DEF RoomInv
<1> QED BY <1>1, <1>2, <1>7, <1>8, <1>9, <1>10, <1>11 DEF RoomInv

LEMMA ProcessorRoom ==
    ASSUME TypeOK, TypeOK', RoomInv, Processor, UNCHANGED trainerVars
    PROVE  RoomInv'
<1>1. UNCHANGED <<updatePc, pausePc, snapshot>> /\ finished' \in {finished, 0}
  BY DEF Processor, ProcTop, ProcFetchWait, ProcSetPaused, ProcDrain, ProcReap, ProcIdle,
     ProcSubmit, ProcWoken, callVars, taskVars
<1>2. procPc' = "fetchWait" => staleness < MaxRequired
  <2>1. procPc' = "fetchWait" => ProcTop /\ ~ShouldPause
    BY DEF Processor, ProcTop, ProcFetchWait, ProcSetPaused, ProcDrain, ProcReap, ProcIdle, ProcSubmit,
       ProcWoken, FetchCancelled, FetchPending, Dispatch, EnterDrain, AfterRound
  <2>2. staleness \in Nat /\ MaxRequired \in Nat
    BY Sizes DEF TypeOK
  <2> QED BY <2>1, <2>2 DEF ShouldPause
<1>3. CASE Settled /\ UNCHANGED staleness
  BY <1>1, <1>2, <1>3, RollRoom DEF Settled
<1>4. CASE Submits
  BY <1>1, <1>2, <1>4, RollRoom DEF Submits
<1>5. CASE FetchesNew
  <2>1. staleness' = staleness + 1 /\ Outstanding' <= Outstanding + 1
    BY <1>5 DEF FetchesNew, FetchPending
  <2>2. procPc' # "fetchWait"
    BY <1>5 DEF FetchesNew, FetchPending, Dispatch, EnterDrain
  <2>3. Going => staleness < MaxRequired
    <3>1. CASE procPc = "fetchWait"
      BY <3>1 DEF RoomInv
    <3>2. CASE procPc = "top"
      <4>1. ~ShouldPause
        <5>1. ProcTop
          BY <3>2 DEF Processor, ProcTop, ProcFetchWait, ProcSetPaused, ProcDrain, ProcReap, ProcIdle,
             ProcSubmit, ProcWoken
        <5>2. procPc' # "setPaused"
          BY <1>5 DEF FetchesNew, FetchPending, Dispatch, EnterDrain
        <5> QED BY <5>1, <5>2 DEF ProcTop
      <4>2. staleness \in Nat /\ MaxRequired \in Nat
        BY Sizes DEF TypeOK
      <4> QED BY <4>1, <4>2 DEF ShouldPause
    <3> QED BY <1>5, <3>1, <3>2 DEF FetchesNew
  <2> QED BY <1>1, <2>1, <2>2, <2>3, RollRoom
<1> QED BY <1>3, <1>4, <1>5, ProcessorCount

LEMMA OtherRoom ==
    ASSUME TypeOK, TypeOK', RoomInv, UNCHANGED trainerVars,
           \/ Feed \/ MainPutEnd \/ MainStop \/ Monitor \/ ValidationDone \/ Resume
           \/ \E s \in Samples : Task(s) \/ TaskFail(s)
    PROVE  RoomInv'
<1>1. CASE Feed \/ MainPutEnd \/ MainStop \/ Monitor \/ ValidationDone \/ Resume
  <2>1. UNCHANGED <<updatePc, pausePc, snapshot, finished, staleness>>
    BY <1>1 DEF Feed, MainPutEnd, MainStop, Monitor, MonitorCheck, MonitorPoll, MonitorUnpause,
       ValidationDone, Resume, ResumeArrive, ResumeServers, ResumeRun, UpdateFrame, callVars, taskVars
  <2>2. procPc' = "fetchWait" => procPc = "fetchWait"
    BY <1>1 DEF Feed, MainPutEnd, MainStop, Monitor, MonitorCheck, MonitorPoll, MonitorUnpause,
       ValidationDone, Resume, ResumeArrive, ResumeServers, ResumeRun, UpdateFrame, procVars, Notified
  <2>3. Outstanding' <= Outstanding
    BY <1>1, OtherCount DEF Settled
  <2> QED BY <2>1, <2>2, <2>3, RollRoom
<1>2. ASSUME NEW s \in Samples, Task(s) \/ TaskFail(s) PROVE RoomInv'
  <2>1. UNCHANGED <<updatePc, pausePc, snapshot, staleness, procPc>>
    BY <1>2 DEF Task, TaskStart, TaskCut, TaskGenerated, TaskPut, TaskFail, TaskFrame, callVars, procVars
  <2>2. Live # {}
    <3>1. task[s] # "none"
      BY <1>2 DEF Task, TaskStart, TaskCut, TaskGenerated, TaskPut, TaskFail
    <3> QED BY <3>1 DEF Live
  <2>3. Outstanding' <= Outstanding
    BY <1>2, TaskCount DEF Settled
  <2> QED BY <2>1, <2>2, <2>3, RollRoom
<1> QED BY <1>1, <1>2

LEMMA PauseRoom ==
    ASSUME TypeOK, TypeOK', RoomInv, CallInv, Pause, UNCHANGED trainerVars
    PROVE  RoomInv'
<1>1. UNCHANGED <<trainerPc, phase, batch, localStep, updatePc, snapshot, staleness, procPc>>
  BY DEF Pause, PauseArrive, PauseStart, PauseGathered, PauseEnd, procVars, trainerVars
<1>2. (Going' <=> Going) /\ (Blocked' <=> Blocked) /\ (Counted' <=> Counted) /\ Used' = Used
  BY <1>1 DEF Going, Blocked, Counted, Used
<1> SUFFICES ASSUME Going PROVE RoomInv'
  BY <1>2 DEF RoomInv
<1>3. trainerPc = "pausing"
  BY DEF Pause, PauseArrive, PauseStart, PauseGathered, PauseEnd, CallInv
<1>4. Outstanding' <= Outstanding /\ Outstanding \in Nat /\ Outstanding' \in Nat
  BY OtherCount, CountTypes DEF Settled, Counts
<1>5. Blocked /\ trainerPc \notin Fetching /\ Counted
  BY <1>3 DEF Blocked, Syncing, Fetching, RoomInv
<1>6. Outstanding' = 0 /\ staleness >= MaxRequired
  BY <1>4, <1>5 DEF RoomInv
<1>7. Quiet' => finished' = 0
  <2>1. CASE Quiet
    <3>1. finished = 0
      BY <2>1 DEF RoomInv
    <3>2. finished' \in {finished, 0}
      BY DEF Pause, PauseArrive, PauseStart, PauseGathered, PauseEnd, taskVars
    <3> QED BY <3>1, <3>2
  <2>2. CASE ~Quiet
    BY <1>1, <1>3, <2>2 DEF Quiet, Pause, PauseArrive, PauseStart, PauseGathered, PauseEnd
  <2> QED BY <2>1, <2>2
<1>8. procPc' = "fetchWait" => staleness < MaxRequired
  BY <1>1 DEF RoomInv
<1> QED BY <1>1, <1>2, <1>3, <1>5, <1>6, <1>7, <1>8 DEF RoomInv, Fetching

LEMMA UpdateRoom ==
    ASSUME TypeOK, TypeOK', RoomInv, BatchInv, Update, UNCHANGED trainerVars
    PROVE  RoomInv'
<1>1. UNCHANGED <<trainerPc, phase, batch, localStep, pausePc, finished, procPc>>
  BY DEF Update, UpdateArrive, UpdateStart, UpdateCount, UpdatePublish, UpdateSpawnValidation, UpdateFrame,
     taskVars, procVars, trainerVars
<1>2. (Going' <=> Going) /\ (Quiet' <=> Quiet) /\ Used' = Used
  BY <1>1 DEF Going, Quiet, Used
<1> SUFFICES ASSUME Going PROVE RoomInv'
  BY <1>2 DEF RoomInv
<1>3. trainerPc \in Fetching \cup Syncing
  BY DEF Going, BatchInv
<1>4. Outstanding' <= Outstanding /\ Outstanding \in Nat /\ Outstanding' \in Nat /\ MaxRequired \in Nat
      /\ staleness \in Nat
  BY OtherCount, CountTypes, Sizes DEF Settled, Counts, TypeOK
<1>5. CASE UpdateArrive \/ UpdateStart
  <2>1. ~Counted /\ ~Counted' /\ UNCHANGED staleness
    BY <1>5 DEF UpdateArrive, UpdateStart, Counted
  <2>2. trainerPc \in Fetching /\ trainerPc \notin Syncing /\ Blocked /\ ~Quiet
    BY <1>3, <2>1 DEF RoomInv, Blocked, Fetching, Syncing, Quiet
  <2>3. Outstanding = 0 /\ staleness >= MaxRequired /\ Used = 0 /\ finished = 0
    BY <2>1, <2>2 DEF RoomInv
  <2>4. updatePc' = "count" => snapshot' = 0
    <3>1. CASE UpdateStart
      <4>1. snapshot' = Cardinality(Live) + finished + Len(cancelQueue)
        BY <3>1 DEF UpdateStart, ActiveCount
      <4>2. Cardinality(Live) = 0 /\ Len(cancelQueue) = 0
        BY <2>3, NoneOutstanding, FS_EmptySet
      <4> QED BY <2>3, <4>1, <4>2
    <3>2. CASE UpdateArrive
      BY <3>2 DEF UpdateArrive
    <3> QED BY <1>5, <3>1, <3>2
  <2>5. Outstanding' = 0
    BY <1>4, <2>3
  <2>6. procPc' = "fetchWait" => staleness' < MaxRequired
    BY <1>1, <2>1 DEF RoomInv
  <2> QED BY <1>1, <1>2, <2>1, <2>2, <2>3, <2>4, <2>5, <2>6 DEF RoomInv
<1>6. CASE UpdateCount
  <2>1. ~Counted /\ updatePc = "count" /\ Counted' /\ staleness' = snapshot + Len(queue)
    BY <1>6 DEF UpdateCount, Counted
  <2>2. trainerPc \in Fetching /\ trainerPc \notin Syncing /\ Blocked /\ ~Quiet /\ ~Blocked'
    BY <1>1, <1>3, <2>1 DEF RoomInv, Blocked, Fetching, Syncing, Quiet
  <2>3. Outstanding = 0 /\ staleness >= MaxRequired /\ Used = 0 /\ finished = 0 /\ snapshot = 0
    BY <2>1, <2>2 DEF RoomInv
  <2>4. procPc' # "fetchWait"
    BY <1>1, <1>4, <2>3 DEF RoomInv
  <2>5. staleness' \in Nat /\ Outstanding' = 0
    BY <1>4, <2>3 DEF TypeOK
  <2>6. Used' + Outstanding' <= staleness' /\ Used' + Outstanding' <= MaxRequired
    BY <1>2, <1>4, <2>3, <2>5
  <2> QED BY <1>1, <1>2, <2>1, <2>2, <2>4, <2>6 DEF RoomInv
<1>7. CASE UpdatePublish \/ UpdateSpawnValidation
  <2>1. Counted /\ Counted' /\ UNCHANGED staleness
    BY <1>7 DEF UpdatePublish, UpdateSpawnValidation, Counted
  <2>2. Blocked' <=> Blocked
    BY <1>1, <2>1 DEF Blocked
  <2>3. Blocked' => Outstanding' = 0 /\ staleness' >= MaxRequired
    BY <1>4, <2>1, <2>2 DEF RoomInv
  <2>4. trainerPc \in Fetching => Used + Outstanding' <= staleness /\ Used + Outstanding' <= MaxRequired
    <3> SUFFICES ASSUME trainerPc \in Fetching
                 PROVE  Used + Outstanding' <= staleness /\ Used + Outstanding' <= MaxRequired
      OBVIOUS
    <3>1. Used + Outstanding <= staleness /\ Used + Outstanding <= MaxRequired
      BY <2>1 DEF RoomInv
    <3>2. Used \in Nat
      BY UsedTypes DEF UsedType
    <3> QED BY <1>4, <3>1, <3>2, RoomLeft
  <2>5. (Quiet => finished' = 0) /\ (procPc' = "fetchWait" => staleness' < MaxRequired)
    BY <1>1, <2>1 DEF RoomInv
  <2> QED BY <1>1, <1>2, <2>1, <2>3, <2>4, <2>5 DEF RoomInv
<1> QED BY <1>5, <1>6, <1>7 DEF Update

LEMMA RoomKept ==
    \A used, out, next, stale, max \in Nat :
        used + out <= stale /\ used + out <= max /\ next <= out => used + next <= stale /\ used + next <= max
OBVIOUS

\* What the samples taken grow by, and what they are when the last step starts
LEMMA UsedSteps ==
    /\ \A n \in Nat, k \in Nat : (n - 1) * Required + (k + 1) = (n - 1) * Required + k + 1
    /\ \A n \in Nat : (n - 1) * Required + Required = n * Required
    /\ \A n \in Nat : (n + 1 - 1) * Required + 0 = n * Required
    /\ (1 - 1) * Required + 0 = 0
BY Sizes

LEMMA TrainerRoom ==
    ASSUME TypeOK, TypeOK', RoomInv, BatchInv, Trainer \/ DriverClear, ThetaNum = 0
    PROVE  RoomInv'
<1>1. UNCHANGED <<staleness, snapshot, finished, procPc>> /\ Outstanding' <= Outstanding
  BY TrainerCount DEF Settled, Trainer, DriverClear, GetWait, GetSample, GetEnd, Train, WaitValid, WaitFailed,
     SyncBegin, SyncEnd, LastValid, Log, rollVars, callVars, taskVars, procVars
<1>2. UsedType /\ UsedType' /\ MaxRequired \in Nat
  BY UsedTypes, Sizes
<1>3. /\ Used \in Nat /\ Used' \in Nat /\ Outstanding \in Nat /\ Outstanding' \in Nat
      /\ staleness \in Nat /\ localStep \in Nat /\ localStep \in 1..Trigger /\ batch \in Seq(Samples)
  BY <1>2, Sizes DEF UsedType, TypeOK
<1> SUFFICES ASSUME Going' PROVE RoomInv'
  BY DEF RoomInv
<1>4. CASE GetWait
  BY <1>1, <1>4, RollRoom DEF GetWait, rollVars, callVars
<1>5. CASE GetSample
  <2>1. /\ trainerPc = "get" /\ trainerPc' \in {"get", "train"} /\ batch' = Append(batch, Head(queue))
        /\ UNCHANGED <<phase, localStep, updatePc, pausePc>>
    BY <1>5 DEF GetSample, rollVars, callVars
  <2>2. /\ Going /\ (Counted' <=> Counted) /\ ~Quiet' /\ trainerPc \in Fetching /\ trainerPc' \in Fetching
        /\ trainerPc' \notin Syncing
    BY <2>1 DEF Going, Counted, Quiet, Fetching, Syncing
  <2>3. Outstanding' = Outstanding - 1
    BY <1>5, TrainerCount
  <2>4. Counted
    BY <1>3, <2>2, <2>3 DEF RoomInv, Blocked
  <2>5. Used' = Used + 1
    <3>1. Head(queue) \in Samples
      BY <1>5, HeadTail DEF TypeOK, GetSample, MQ!Take
    <3>2. Len(batch') = Len(batch) + 1 /\ Len(batch) \in Nat
      BY <1>3, <2>1, <3>1
    <3> QED BY <1>3, <2>1, <3>2, UsedSteps DEF Used
  <2>6. Used + Outstanding <= staleness /\ Used + Outstanding <= MaxRequired
    BY <2>2, <2>4 DEF RoomInv
  <2>7. Used' + Outstanding' <= staleness /\ Used' + Outstanding' <= MaxRequired
    <3>1. Used' + Outstanding' = Used + Outstanding
      BY <1>3, <2>3, <2>5
    <3> QED BY <2>6, <3>1
  <2>8. procPc' = "fetchWait" => staleness < MaxRequired
    BY <1>1, <2>2 DEF RoomInv
  <2> QED BY <1>1, <2>2, <2>4, <2>7, <2>8 DEF RoomInv, Blocked
<1>6. CASE Train
  <2>1. /\ trainerPc = "train" /\ batch' = <<>> /\ Len(batch') = 0
        /\ UNCHANGED <<phase, updatePc, pausePc>> /\ Len(batch) = Required
    BY <1>6 DEF Train, BatchInv, rollVars, callVars
  <2>2. Going /\ (Counted' <=> Counted) /\ trainerPc \in Fetching
    BY <2>1 DEF Going, Counted, Fetching
  <2>3. Used = localStep * Required /\ Used # 0
    <3>1. Used = localStep * Required
      BY <1>3, <2>1, UsedSteps DEF Used
    <3>2. localStep * Required # 0
      BY <1>3, Sizes
    <3> QED BY <3>1, <3>2
  <2>4. Counted
    BY <2>2, <2>3 DEF RoomInv
  <2>5. Used + Outstanding <= staleness /\ Used + Outstanding <= MaxRequired
    BY <2>2, <2>4 DEF RoomInv
  <2>6. procPc' = "fetchWait" => staleness < MaxRequired
    BY <1>1, <2>2 DEF RoomInv
  <2>7. CASE localStep < Trigger
    <3>1. localStep' = localStep + 1 /\ trainerPc' = "log"
      BY <1>6, <2>7 DEF Train
    <3>2. Used' = Used
      BY <1>3, <2>1, <2>3, <3>1, UsedSteps DEF Used
    <3>3. Used + Outstanding' <= staleness /\ Used + Outstanding' <= MaxRequired
      BY <1>1, <1>2, <1>3, <2>5, RoomKept
    <3>4. trainerPc' \in Fetching /\ trainerPc' \notin Syncing /\ ~Quiet'
      BY <3>1 DEF Fetching, Syncing, Quiet
    <3> QED BY <1>1, <2>2, <2>4, <2>6, <3>2, <3>3, <3>4 DEF RoomInv, Blocked
  <2>8. CASE localStep = Trigger
    <3>1. trainerPc' = "waitValid"
      BY <1>6, <2>8, Sizes DEF Train, BeginSync
    <3>2. Used = MaxRequired
      <4>1. Trigger * Required = Required * Trigger
        BY Sizes
      <4> QED BY <2>3, <2>8, <4>1, SynchronousSize
    <3>3. Outstanding' = 0 /\ staleness >= MaxRequired
      <4>1. MaxRequired + Outstanding <= staleness /\ MaxRequired + Outstanding <= MaxRequired
        BY <2>5, <3>2
      <4> QED BY <1>1, <1>2, <1>3, <4>1
    <3>4. trainerPc' \notin Fetching /\ ~Quiet'
      BY <3>1 DEF Fetching, Quiet
    <3> QED BY <1>1, <2>2, <2>4, <2>6, <3>3, <3>4 DEF RoomInv
  <2> QED BY <1>3, <2>7, <2>8, Sizes
<1>7. CASE WaitValid \/ SyncBegin
  <2>1. /\ trainerPc \in {"waitValid", "pausing"} /\ trainerPc' \in {"pausing", "transfer"}
        /\ UNCHANGED <<phase, updatePc>> /\ (Quiet' => Quiet)
    BY <1>7 DEF WaitValid, SyncBegin, rollVars, callVars, Quiet
  <2>2. Going /\ (Counted' <=> Counted) /\ trainerPc \in Syncing /\ trainerPc' \in Syncing
        /\ trainerPc' \notin Fetching
    BY <2>1 DEF Going, Counted, Syncing, Fetching
  <2>3. Blocked /\ Counted
    BY <2>2 DEF Blocked, RoomInv
  <2>4. Outstanding' = 0 /\ staleness >= MaxRequired
    BY <1>1, <1>3, <2>2, <2>3 DEF RoomInv
  <2>5. (Quiet' => finished = 0) /\ (procPc' = "fetchWait" => staleness < MaxRequired)
    BY <1>1, <2>1, <2>2 DEF RoomInv
  <2> QED BY <1>1, <2>2, <2>3, <2>4, <2>5 DEF RoomInv
<1>8. CASE SyncEnd
  <2>1. /\ trainerPc = "transfer" /\ UNCHANGED <<phase, localStep, batch>> /\ updatePc' = "called"
        /\ trainerPc' = IF phase = "extra" THEN "lastValid" ELSE "log"
    BY <1>8 DEF SyncEnd
  <2>2. Going /\ trainerPc' = "log" /\ trainerPc \in Syncing /\ Quiet /\ localStep = 1 /\ batch = <<>>
    BY <2>1 DEF Going, Syncing, Quiet, BatchInv
  <2>3. /\ trainerPc' \in Fetching /\ trainerPc' \notin Syncing /\ ~Counted' /\ ~Quiet'
        /\ updatePc' # "count"
    BY <2>1, <2>2 DEF Fetching, Syncing, Counted, Quiet
  <2>4. Outstanding' = 0 /\ staleness >= MaxRequired /\ finished = 0
    <3>1. Outstanding = 0 /\ staleness >= MaxRequired /\ finished = 0
      BY <2>2 DEF RoomInv, Blocked
    <3> QED BY <1>1, <1>3, <3>1
  <2>5. Used' = 0
    <3>1. Len(batch') = 0 /\ localStep' = 1
      BY <2>1, <2>2
    <3> QED BY <3>1, UsedSteps DEF Used
  <2>6. procPc' = "fetchWait" => staleness < MaxRequired
    BY <1>1, <2>2 DEF RoomInv
  <2> QED BY <1>1, <2>3, <2>4, <2>5, <2>6 DEF RoomInv
<1>9. CASE Log
  <2>1. /\ trainerPc = "log" /\ trainerPc' = "get" /\ phase = "loop"
        /\ UNCHANGED <<phase, localStep, batch, updatePc, pausePc>>
    BY <1>9 DEF Log, Going, rollVars, callVars
  <2>2. /\ Going /\ (Counted' <=> Counted) /\ Used' = Used /\ trainerPc \in Fetching /\ trainerPc' \in Fetching
        /\ trainerPc' \notin Syncing /\ ~Quiet'
    BY <2>1 DEF Going, Counted, Used, Fetching, Syncing, Quiet
  <2>3. Counted => Used + Outstanding' <= staleness /\ Used + Outstanding' <= MaxRequired
    <3> SUFFICES ASSUME Counted
                 PROVE  Used + Outstanding' <= staleness /\ Used + Outstanding' <= MaxRequired
      OBVIOUS
    <3>1. Used + Outstanding <= staleness /\ Used + Outstanding <= MaxRequired
      BY <2>2 DEF RoomInv
    <3> QED BY <1>1, <1>2, <1>3, <3>1, RoomKept
  <2>4. ~Counted => Outstanding' = 0 /\ staleness >= MaxRequired
    BY <1>1, <1>3, <2>2 DEF RoomInv, Blocked
  <2>5. ~Counted => Used = 0 /\ finished = 0 /\ (updatePc' = "count" => snapshot = 0)
    BY <2>1, <2>2 DEF RoomInv
  <2>6. procPc' = "fetchWait" => staleness < MaxRequired
    BY <1>1, <2>2 DEF RoomInv
  <2> QED BY <1>1, <2>2, <2>3, <2>4, <2>5, <2>6 DEF RoomInv, Blocked
<1>10. CASE GetEnd \/ WaitFailed \/ LastValid \/ DriverClear
  BY <1>10 DEF GetEnd, WaitFailed, LastValid, DriverClear, Going, BatchInv, Fetching, Syncing
<1> QED BY <1>4, <1>5, <1>6, <1>7, <1>8, <1>9, <1>10 DEF Trainer

LEMMA NextRoom ==
    ASSUME TypeOK, TypeOK', CallInv, BatchInv, RoomInv, [Next]_vars, ThetaNum = 0
    PROVE  RoomInv'
<1>1. CASE UNCHANGED vars
  <2>1. UNCHANGED <<trainerVars, updatePc, pausePc, snapshot, hand, task, cancelQueue, queue, staleness,
                    procPc, finished>>
    BY <1>1 DEF vars, rollVars, queueVars, procVars, taskVars, callVars
  <2>2. Outstanding' = Outstanding /\ Outstanding \in Nat
    BY <2>1, CountTypes DEF Outstanding, Live, Counts
  <2> QED BY <2>1, <2>2, RollRoom
<1> QED
  BY <1>1, ProcessorRoom, OtherRoom, PauseRoom, UpdateRoom, TrainerRoom
     DEF Next, Rollout, RollNext, Terminated

LEMMA InitRoom == Init => RoomInv
<1> SUFFICES ASSUME Init PROVE RoomInv
  OBVIOUS
<1>1. hand = EndOfStream /\ Live = {} /\ cancelQueue = <<>> /\ queue = <<>> /\ staleness = 0
      /\ trainerPc = "log" /\ updatePc = "done" /\ procPc = "top" /\ localStep = 1 /\ batch = <<>>
  BY DEF Init, RollInit, Live
<1>2. Cardinality(Live) = 0 /\ Copies(queue, EndOfStream) = 0 /\ Len(queue) = 0 /\ Len(cancelQueue) = 0
      /\ Len(batch) = 0
  BY <1>1, FS_EmptySet, CopiesEmpty
<1>3. One(hand # EndOfStream) = 0
  BY <1>1 DEF One
<1>4. Outstanding = 0 /\ Used = 0
  BY <1>1, <1>2, <1>3, UsedSteps DEF Outstanding, Used
<1>5. Counted /\ ~Blocked /\ ~Quiet /\ trainerPc \notin Syncing
  BY <1>1 DEF Counted, Blocked, Quiet, Fetching, Syncing
<1> QED BY <1>1, <1>4, <1>5, Sizes DEF RoomInv

LEMMA InitEnd == Init => EndInv
<1> SUFFICES ASSUME Init PROVE EndInv
  OBVIOUS
<1>1. Copies(queue, EndOfStream) = 0
  BY CopiesEmpty DEF Init
<1> QED BY <1>1 DEF Init, RollInit, EndInv

\* Which samples a queue can hold after put_sample, and after get_sample
LEMMA InAfterPut ==
    ASSUME QueueTypes, NEW item \in Samples \cup {EndOfStream}, MQ!PutSample(item), QueueTypes',
           NEW s, In(s, queue'), s # item
    PROVE  In(s, queue)
<1>1. queue \in Seq(Samples \cup {EndOfStream}) /\ queue' \in Seq(Samples \cup {EndOfStream})
  BY DEF QueueTypes
<1>2. Copies(queue', s) # 0 /\ Copies(queue', s) \in Nat
  BY <1>1, CopiesType
<1>3. Copies(queue', s) <= Copies(queue, s) + One(item = s) /\ One(item = s) = 0 /\ Copies(queue, s) \in Nat
  BY <1>1, PutCopies, QueueCopies DEF One
<1>4. Copies(queue, s) # 0
  BY <1>2, <1>3
<1> QED BY <1>1, <1>4, CopiesType

LEMMA InTail ==
    ASSUME NEW S, NEW q \in Seq(S), q # <<>>, NEW s
    PROVE  (In(s, Tail(q)) => In(s, q)) /\ In(Head(q), q)
<1>1. /\ Len(Tail(q)) = Len(q) - 1 /\ Len(q) \in Nat \ {0} /\ Head(q) = q[1]
      /\ \A i \in 1..Len(Tail(q)) : Tail(q)[i] = q[i + 1]
  OBVIOUS
<1>2. ASSUME NEW i \in 1..Len(Tail(q)), Tail(q)[i] = s PROVE In(s, q)
  <2>1. i + 1 \in 1..Len(q) /\ q[i + 1] = s
    BY <1>1, <1>2
  <2> QED BY <2>1 DEF In
<1>3. 1 \in 1..Len(q)
  BY <1>1
<1> QED BY <1>1, <1>2, <1>3 DEF In

LEMMA InAppend ==
    ASSUME NEW S, NEW q \in Seq(S), NEW x \in S, NEW s, In(s, Append(q, x))
    PROVE  In(s, q) \/ s = x
<1>1. Len(Append(q, x)) = Len(q) + 1 /\ Len(q) \in Nat
      /\ \A i \in 1..(Len(q) + 1) : Append(q, x)[i] = IF i \in 1..Len(q) THEN q[i] ELSE x
  OBVIOUS
<1> QED BY <1>1 DEF In

\* Nothing outstanding: the queue holds the end signal at most.
LEMMA NoneReady ==
    ASSUME TypeOK, Outstanding = 0, NEW s \in Samples
    PROVE  ~In(s, queue) /\ task[s] = "none"
<1>1. queue \in Seq(Samples \cup {EndOfStream}) /\ Live = {} /\ Len(queue) = Copies(queue, EndOfStream)
  BY NoneOutstanding DEF TypeOK
<1>2. Cardinality(PlacesIn(queue, EndOfStream)) = Cardinality(1..Len(queue)) /\ IsFiniteSet(1..Len(queue))
  <2>1. Len(queue) \in Nat
    BY <1>1
  <2>2. Cardinality(1..Len(queue)) = Len(queue) /\ IsFiniteSet(1..Len(queue))
    BY <2>1, FS_Interval
  <2> QED BY <1>1, <2>2, CopiesType
<1>3. PlacesIn(queue, EndOfStream) \in SUBSET (1..Len(queue))
  BY DEF PlacesIn
<1>4. PlacesIn(queue, EndOfStream) = 1..Len(queue)
  BY <1>2, <1>3, FS_Subset
<1>5. s # EndOfStream
  BY DEF Samples, EndOfStream
<1> QED BY <1>1, <1>4, <1>5 DEF PlacesIn, In, Live

\* The samples that wait for the trainer, generated
Generated(s) == task[s] = "put" \/ In(s, queue) \/ In(s, batch)

\* While the trainer fetches, they are of the version it trains.
FreshInv ==
    Going /\ trainerPc \in Fetching =>
        \A s \in Samples : Generated(s) => stamp[s] = trainerVersion

\* The tasks stay quiesced after the end of the loop too.
QuietInv == phase # "loop" /\ Quiet => Live = {}

LEMMA FreshKept ==
    ASSUME FreshInv,
           Going' /\ trainerPc' \in Fetching =>
               Going /\ trainerPc \in Fetching /\ trainerVersion' = trainerVersion,
           \A s \in Samples : Generated(s)' => Generated(s) /\ stamp'[s] = stamp[s]
    PROVE  FreshInv'
BY DEF FreshInv

LEMMA TaskFresh ==
    ASSUME TypeOK, TypeOK', CallInv, RoomInv, FreshInv, UNCHANGED trainerVars,
           NEW t \in Samples, Task(t) \/ TaskFail(t)
    PROVE  FreshInv'
<1>1. UNCHANGED <<trainerPc, phase, trainerVersion, batch>>
  BY DEF trainerVars
<1>2. Going' /\ trainerPc' \in Fetching =>
          Going /\ trainerPc \in Fetching /\ trainerVersion' = trainerVersion
  BY <1>1 DEF Going
<1>3. /\ stamp \in [Samples -> Nat] /\ task \in [Samples -> {"none", "new", "gen", "put"}]
      /\ QueueTypes /\ QueueTypes'
  BY TypeParts DEF TypeOK
<1>4. CASE TaskGenerated(t)
  <2>1. task[t] = "gen" /\ stamp' = [stamp EXCEPT ![t] = version] /\ UNCHANGED queue
        /\ task' = [task EXCEPT ![t] = "put"]
    BY <1>4 DEF TaskGenerated, queueVars
  <2>2. SUFFICES ASSUME Going, trainerPc \in Fetching, NEW s \in Samples, Generated(s)'
                 PROVE  stamp'[s] = trainerVersion
    BY <1>1, <1>2 DEF FreshInv
  <2>3. CASE s # t
    <3>1. Generated(s) /\ stamp'[s] = stamp[s]
      BY <1>1, <1>3, <2>1, <2>2, <2>3 DEF Generated
    <3> QED BY <2>2, <3>1 DEF FreshInv
  <2>4. CASE s = t
    <3>1. ~Blocked
      BY <2>1, NoneReady, <2>2 DEF RoomInv
    <3>2. version = trainerVersion
      BY <2>2, <3>1 DEF Blocked, Counted, CallInv
    <3> QED BY <1>3, <2>1, <2>4, <3>2
  <2> QED BY <2>3, <2>4
<1>5. CASE ~TaskGenerated(t)
  <2>1. UNCHANGED stamp /\ \A s \in Samples : task'[s] = "put" => task[s] = "put"
    BY <1>3, <1>5 DEF Task, TaskStart, TaskCut, TaskPut, TaskFail
  <2>2. ASSUME NEW s \in Samples, Generated(s)' PROVE Generated(s)
    <3>1. CASE In(s, queue') /\ TaskPut(t)
      <4>1. MQ!PutSample(t) /\ task[t] = "put"
        BY <3>1 DEF TaskPut
      <4>2. s = t \/ In(s, queue)
        BY <1>3, <3>1, <4>1, InAfterPut
      <4> QED BY <4>1, <4>2 DEF Generated
    <3>2. CASE ~TaskPut(t)
      <4>1. UNCHANGED queue
        BY <1>5, <3>2 DEF Task, TaskStart, TaskCut, TaskFail, queueVars
      <4> QED BY <1>1, <2>1, <2>2, <4>1 DEF Generated
    <3>3. CASE ~In(s, queue')
      BY <1>1, <2>1, <2>2, <3>3 DEF Generated
    <3> QED BY <3>1, <3>2, <3>3
  <2> QED BY <1>2, <2>1, <2>2, FreshKept
<1> QED BY <1>4, <1>5

LEMMA TrainerFresh ==
    ASSUME TypeOK, TypeOK', RoomInv, BatchInv, FreshInv, Trainer \/ DriverClear
    PROVE  FreshInv'
<1>1. UNCHANGED <<task, stamp>>
  BY DEF Trainer, DriverClear, GetWait, GetSample, GetEnd, Train, WaitValid, WaitFailed, SyncBegin,
     SyncEnd, LastValid, Log, rollVars, taskVars
<1>2. queue \in Seq(Samples \cup {EndOfStream}) /\ batch \in Seq(Samples)
  BY DEF TypeOK
<1>3. CASE GetSample
  <2>1. /\ queue # <<>> /\ queue' = Tail(queue) /\ batch' = Append(batch, Head(queue))
        /\ trainerPc = "get" /\ UNCHANGED <<phase, trainerVersion>> /\ trainerPc' \in {"get", "train"}
        /\ Head(queue) # EndOfStream
    BY <1>3 DEF GetSample, MQ!Take
  <2>2. Head(queue) \in Samples
    BY <1>2, <2>1, HeadTail
  <2>3. ASSUME NEW s \in Samples, Generated(s)' PROVE Generated(s)
    <3>1. In(s, queue') => In(s, queue)
      BY <1>2, <2>1, InTail
    <3>2. In(s, batch') => In(s, batch) \/ s = Head(queue)
      BY <1>2, <2>1, <2>2, InAppend
    <3>3. In(Head(queue), queue)
      BY <1>2, <2>1, InTail
    <3> QED BY <1>1, <2>3, <3>1, <3>2, <3>3 DEF Generated
  <2>4. Going' => Going /\ trainerPc \in Fetching
    BY <2>1 DEF Going, Fetching
  <2> QED BY <1>1, <2>1, <2>3, <2>4, FreshKept
<1>4. CASE Train
  <2>1. batch' = <<>> /\ UNCHANGED <<queue, phase>> /\ trainerPc = "train"
        /\ (trainerPc' \in Fetching => trainerVersion' = trainerVersion)
    BY <1>4 DEF Train, BeginSync, queueVars, Fetching
  <2>2. \A s \in Samples : Generated(s)' => Generated(s)
    BY <1>1, <2>1 DEF Generated, In
  <2>3. Going' => Going /\ trainerPc \in Fetching
    BY <2>1 DEF Going, Fetching
  <2> QED BY <1>1, <2>1, <2>2, <2>3, FreshKept
<1>5. CASE SyncEnd
  <2>1. trainerPc = "transfer" /\ UNCHANGED <<queue, batch, phase>>
    BY <1>5 DEF SyncEnd, queueVars
  <2>2. ASSUME Going', NEW s \in Samples PROVE ~Generated(s)'
    <3>1. Going /\ Blocked /\ batch = <<>>
      BY <2>1, <2>2 DEF Going, Blocked, Syncing, BatchInv
    <3>2. ~In(s, queue) /\ task[s] = "none"
      BY <3>1, NoneReady DEF RoomInv
    <3> QED BY <1>1, <2>1, <3>1, <3>2 DEF Generated, In
  <2> QED BY <2>2 DEF FreshInv
<1>6. CASE Log \/ GetWait
  <2>1. UNCHANGED <<queue, batch>> /\ (Going' => Going /\ trainerPc \in Fetching /\ UNCHANGED trainerVersion)
    BY <1>6 DEF Log, GetWait, MQ!Wait, MQ!GetValidate, trainerVars, Going, Fetching
  <2> QED BY <1>1, <2>1, FreshKept DEF Generated
<1>7. CASE WaitValid \/ SyncBegin
  <2>1. trainerPc' \notin Fetching
    BY <1>7 DEF WaitValid, SyncBegin, Fetching
  <2> QED BY <2>1 DEF FreshInv
<1>8. CASE GetEnd \/ WaitFailed \/ LastValid \/ DriverClear
  <2>1. ~Going'
    BY <1>8 DEF GetEnd, WaitFailed, LastValid, DriverClear, Going, BatchInv, Fetching, Syncing
  <2> QED BY <2>1 DEF FreshInv
<1> QED BY <1>3, <1>4, <1>5, <1>6, <1>7, <1>8 DEF Trainer

LEMMA NextFresh ==
    TypeOK /\ TypeOK' /\ CallInv /\ BatchInv /\ RoomInv /\ FreshInv /\ [Next]_vars => FreshInv'
<1> SUFFICES ASSUME TypeOK, TypeOK', CallInv, BatchInv, RoomInv, FreshInv, [Next]_vars
             PROVE  FreshInv'
  OBVIOUS
<1>1. CASE UNCHANGED trainerVars /\ Processor
  <2>1. UNCHANGED <<queue, stamp, batch, trainerPc, phase, trainerVersion>>
        /\ \A s \in Samples : task'[s] = "put" => task[s] = "put"
    BY <1>1 DEF Processor, ProcTop, ProcFetchWait, ProcSetPaused, ProcDrain, ProcReap, ProcIdle, ProcSubmit,
       ProcWoken, queueVars, taskVars, trainerVars, TypeOK
  <2> QED BY <2>1, FreshKept DEF Going, Generated
<1>2. CASE UNCHANGED trainerVars /\ MainPutEnd
  <2>1. UNCHANGED <<stamp, task, batch, trainerPc, phase, trainerVersion>> /\ MQ!PutSample(EndOfStream)
    BY <1>2 DEF MainPutEnd, taskVars, trainerVars
  <2>2. QueueTypes /\ QueueTypes' /\ \A s \in Samples : s # EndOfStream
    BY TypeParts DEF Samples, EndOfStream
  <2>3. \A s \in Samples : In(s, queue') => In(s, queue)
    BY <2>1, <2>2, InAfterPut
  <2> QED BY <2>1, <2>3, FreshKept DEF Going, Generated
<1>3. CASE \/ /\ UNCHANGED trainerVars
              /\ Feed \/ MainStop \/ Monitor \/ Pause \/ Update \/ ValidationDone \/ Resume
           \/ UNCHANGED vars
  <2>1. UNCHANGED <<queue, stamp, task, batch, trainerPc, phase, trainerVersion>>
    BY <1>3 DEF Feed, MainStop, Monitor, MonitorCheck, MonitorPoll, MonitorUnpause, Pause,
       PauseArrive, PauseStart, PauseGathered, PauseEnd, Update, UpdateArrive, UpdateStart, UpdateCount,
       UpdatePublish, UpdateSpawnValidation, UpdateFrame, ValidationDone, Resume, ResumeArrive,
       ResumeServers, ResumeRun, MQ!PutValidate, queueVars, taskVars, trainerVars, vars, rollVars
  <2> QED BY <2>1, FreshKept DEF Going, Generated
<1> QED
  BY <1>1, <1>2, <1>3, TaskFresh, TrainerFresh DEF Next, Rollout, RollNext, Terminated

LEMMA NextQuiet ==
    TypeOK /\ TypeOK' /\ EndInv /\ CallInv /\ QuietInv /\ [Next]_vars => QuietInv'
<1> SUFFICES ASSUME TypeOK, TypeOK', EndInv, CallInv, QuietInv, [Next]_vars, phase' # "loop", Quiet'
             PROVE  Live' = {}
  BY DEF QuietInv
<1>1. CASE Trainer \/ DriverClear
  <2>1. UNCHANGED task
    BY <1>1 DEF Trainer, DriverClear, GetWait, GetSample, GetEnd, Train, WaitValid, WaitFailed, SyncBegin,
       SyncEnd, LastValid, Log, rollVars, taskVars
  <2>2. phase # "loop" /\ Quiet
    BY <1>1 DEF Trainer, DriverClear, GetWait, GetSample, GetEnd, Train, WaitValid, WaitFailed, SyncBegin,
       SyncEnd, LastValid, Log, trainerVars, rollVars, callVars, Quiet, BeginSync
  <2> QED BY <2>1, <2>2 DEF QuietInv, Live
<1>2. CASE Pause /\ UNCHANGED trainerVars
  <2>1. UNCHANGED <<task, phase, trainerPc>>
    BY <1>2 DEF Pause, PauseArrive, PauseStart, PauseGathered, PauseEnd, taskVars, trainerVars
  <2>2. PauseGathered \/ Quiet
    BY <1>2, <2>1 DEF Pause, PauseArrive, PauseStart, PauseGathered, PauseEnd, Quiet
  <2> QED BY <2>1, <2>2 DEF PauseGathered, QuietInv, Live
<1>3. ASSUME UNCHANGED <<phase, trainerPc, pausePc>>, \A s \in Samples : task[s] = "none" => task'[s] = "none"
      PROVE  Live' = {}
  BY <1>3 DEF QuietInv, Quiet, Live
<1>4. CASE Processor /\ UNCHANGED trainerVars
  <2>1. UNCHANGED <<phase, trainerPc, pausePc>>
    BY <1>4 DEF Processor, ProcTop, ProcFetchWait, ProcSetPaused, ProcDrain, ProcReap, ProcIdle, ProcSubmit,
       ProcWoken, callVars, trainerVars
  <2>2. procPc \in {"exited", "dead"}
    BY <2>1 DEF EndInv
  <2>3. FALSE
    BY <1>4, <2>2 DEF Processor, ProcTop, ProcFetchWait, ProcSetPaused, ProcDrain, ProcReap, ProcIdle,
       ProcSubmit, ProcWoken
  <2> QED BY <2>3
<1>5. ASSUME NEW s \in Samples, Task(s) \/ TaskFail(s), UNCHANGED trainerVars PROVE Live' = {}
  <2>1. UNCHANGED <<phase, trainerPc, pausePc>> /\ task[s] # "none"
    BY <1>5 DEF Task, TaskStart, TaskCut, TaskGenerated, TaskPut, TaskFail, TaskFrame, callVars, trainerVars
  <2>2. \A t \in Samples : task[t] = "none" => task'[t] = "none"
    BY <1>5, <2>1 DEF Task, TaskStart, TaskCut, TaskGenerated, TaskPut, TaskFail, TypeOK
  <2> QED BY <1>3, <2>1, <2>2
<1>6. CASE \/ /\ UNCHANGED trainerVars
              /\ Feed \/ MainPutEnd \/ MainStop \/ Monitor \/ Update \/ ValidationDone \/ Resume
           \/ UNCHANGED vars
  <2>1. UNCHANGED <<phase, trainerPc, pausePc, task>>
    BY <1>6 DEF Feed, MainPutEnd, MainStop, Monitor, MonitorCheck, MonitorPoll, MonitorUnpause, Update,
       UpdateArrive, UpdateStart, UpdateCount, UpdatePublish, UpdateSpawnValidation, UpdateFrame,
       ValidationDone, Resume, ResumeArrive, ResumeServers, ResumeRun, taskVars, callVars, trainerVars,
       vars, rollVars
  <2> QED BY <1>3, <2>1
<1> QED
  BY <1>1, <1>2, <1>4, <1>5, <1>6 DEF Next, Rollout, RollNext, Terminated

\* Everything synchronous training rests on.
SyncParts == CallInv /\ BatchInv /\ EndInv /\ RoomInv /\ FreshInv /\ QuietInv

LEMMA SyncFollows == TypeOK /\ SyncParts => OnPolicy
<1> SUFFICES ASSUME TypeOK, SyncParts PROVE OnPolicy
  OBVIOUS
<1>1. ASSUME trainerPc = "train", NEW i \in 1..Len(batch)
      PROVE  trainerVersion - stamp[batch[i]] = 0
  <2>1. batch[i] \in Samples /\ In(batch[i], batch)
    BY DEF TypeOK, In
  <2>2. Going /\ trainerPc \in Fetching
    BY <1>1 DEF SyncParts, BatchInv, Going, Fetching
  <2>3. stamp[batch[i]] = trainerVersion
    BY <2>1, <2>2 DEF SyncParts, FreshInv, Generated
  <2> QED BY <2>3 DEF TypeOK
<1>2. ASSUME trainerPc = "transfer" PROVE Live = {}
  <2>1. CASE phase = "loop"
    <3>1. Going /\ Blocked
      BY <1>2, <2>1 DEF Going, Blocked, Syncing
    <3> QED BY <3>1, NoneOutstanding DEF SyncParts, RoomInv
  <2>2. CASE phase # "loop"
    BY <1>2, <2>2 DEF SyncParts, QuietInv, Quiet
  <2> QED BY <2>1, <2>2
<1> QED BY <1>1, <1>2 DEF OnPolicy, Lags

\* With staleness_threshold = 0 every batch is of the version being trained, and
\* nothing is generated while the weights change.
THEOREM SynchronousIsOnPolicy ==
    ASSUME ThetaNum = 0
    PROVE  Spec => []OnPolicy
<1>1. Init => TypeInv /\ SyncParts
  <2> SUFFICES ASSUME Init PROVE TypeInv /\ SyncParts
    OBVIOUS
  <2>1. TypeInv /\ CallInv /\ BatchInv /\ EndInv /\ RoomInv
    BY InitType, InitQuiesce, InitLag, InitEnd, InitRoom DEF TypeInv
  <2>2. FreshInv /\ QuietInv
    BY DEF Init, RollInit, FreshInv, Generated, In, QuietInv
  <2> QED BY <2>1, <2>2 DEF SyncParts
<1>2. TypeInv /\ SyncParts /\ [Next]_vars => TypeInv' /\ SyncParts'
  <2> SUFFICES ASSUME TypeInv, SyncParts, [Next]_vars PROVE TypeInv' /\ SyncParts'
    OBVIOUS
  <2>1. TypeInv' /\ TypeOK /\ TypeOK'
    BY NextTypes DEF TypeInv
  <2> QED
    BY <2>1, NextCalls, NextBatch, NextEnd, NextRoom, NextFresh, NextQuiet DEF SyncParts
<1>3. TypeInv /\ SyncParts => OnPolicy
  BY SyncFollows DEF TypeInv
<1> QED BY <1>1, <1>2, <1>3, PTL DEF Spec

(***************************************************************************)
(* PART THREE.  Where every sample goes.                                   *)
(*                                                                         *)
(* The fully asynchronous system implements SamplePipeline, and with a     *)
(* staleness threshold of 0 it loses no sample.                            *)
(*                                                                         *)
(* What Stage reads is at one place at a time (PlacesInv), so the places   *)
(* of the code form stages (OneStage), and a step of the system either     *)
(* leaves every stage or moves samples one stage on: one sample when the   *)
(* processor gets it, when its row is put and when the row is dropped, and *)
(* a batch when the trainer steps.  Only the start of a sample has a bound *)
(* to keep: what is rolling or ready is outstanding or in the trainer's    *)
(* batch, and the processor has seen room for the sample (HandInv).        *)
(*                                                                         *)
(* NothingLost needs more.  While no call has raised and the trainer goes  *)
(* on, every sample that was fed is somewhere (KeptInv), because what is   *)
(* put finds room: a generated sample by RoomInv, the end signal because   *)
(* the processor takes "DONE" only when it has seen room (SpareInv).       *)
(* Nothing is cancelled (CutInv): when the servers are, nothing runs, and  *)
(* the monitor cannot let anything run, since its request for the lock is  *)
(* granted before that of pause() (OrderInv).  The processor does not      *)
(* raise over done_tasks (ReapInv), so the end of the stream follows the   *)
(* last sample (LastInv), and what the trainer then leaves is less than a  *)
(* batch (SumInv).                                                         *)
(***************************************************************************)

-----------------------------------------------------------------------------
(* What the processor holds, and when it waits for a sample.               *)

\* The processor holds nothing when it fetches.  While it waits for the feeder
\* there is room for one more sample.
HandInv ==
    /\ procPc \in {"top", "fetchWait", "setPaused", "idle", "idleWait", "idleWoken"} => hand = EndOfStream
    /\ procPc \in {"drain", "drainWait"} /\ drainFor = "pause" => hand = EndOfStream
    /\ procPc = "fetchWait" => Outstanding <= MaxRequired

LEMMA NextHand == TypeOK /\ TypeOK' /\ StalenessCovers /\ HandInv /\ [Next]_vars => HandInv'
<1> SUFFICES ASSUME TypeOK, TypeOK', StalenessCovers, HandInv, [Next]_vars PROVE HandInv'
  OBVIOUS
<1>1. /\ Outstanding \in Nat /\ Outstanding' \in Nat /\ staleness \in Nat /\ MaxRequired \in Nat
      /\ drainFor \in {"pause", "full", "done"}
  BY CountTypes, Sizes DEF Counts, TypeOK
<1>2. ASSUME UNCHANGED <<procPc, hand, drainFor>>, Outstanding' <= Outstanding PROVE HandInv'
  BY <1>1, <1>2 DEF HandInv
<1>3. CASE Processor /\ UNCHANGED trainerVars
  <2>1. procPc' = "fetchWait" => procPc = "top" /\ ~ShouldPause /\ UNCHANGED <<hand, task, cancelQueue, queue, staleness>>
    BY <1>3 DEF Processor, ProcTop, ProcFetchWait, ProcSetPaused, ProcDrain, ProcReap, ProcIdle, ProcSubmit,
       ProcWoken, FetchCancelled, FetchPending, Dispatch, EnterDrain, AfterRound, taskVars, queueVars
  <2>2. procPc' = "fetchWait" => Outstanding' <= MaxRequired
    <3> SUFFICES ASSUME procPc' = "fetchWait" PROVE Outstanding' <= MaxRequired
      OBVIOUS
    <3>1. Outstanding' = Outstanding
      BY <2>1 DEF Outstanding, Live
    <3>2. staleness < MaxRequired
      BY <1>1, <2>1 DEF ShouldPause
    <3>3. Outstanding <= staleness + 1
      BY DEF StalenessCovers
    <3> QED BY <1>1, <3>1, <3>2, <3>3
  <2>3. /\ procPc' \in {"top", "fetchWait", "setPaused", "idle", "idleWait", "idleWoken"} => hand' = EndOfStream
        /\ procPc' \in {"drain", "drainWait"} /\ drainFor' = "pause" => hand' = EndOfStream
    <3>1. CASE ProcTop \/ ProcFetchWait
      BY <3>1, <1>3 DEF ProcTop, ProcFetchWait, HandInv, FetchCancelled, FetchPending, Dispatch, EnterDrain
    <3>2. CASE ProcDrain \/ ProcReap
      BY <1>1, <3>2 DEF ProcDrain, ProcReap, AfterRound, HandInv
    <3>3. CASE ProcSetPaused \/ ProcIdle \/ ProcSubmit \/ ProcWoken
      BY <3>3 DEF ProcSetPaused, ProcIdle, ProcSubmit, ProcWoken, HandInv
    <3> QED BY <1>3, <3>1, <3>2, <3>3 DEF Processor
  <2> QED BY <2>2, <2>3 DEF HandInv
<1>4. CASE UNCHANGED trainerVars /\ (Monitor \/ Resume)
  <2>1. Outstanding' <= Outstanding
    BY <1>4, OtherCount DEF Settled
  <2>2. UNCHANGED <<hand, drainFor>> /\ procPc' \in {procPc, Notified(procPc)}
    BY <1>4 DEF Monitor, MonitorCheck, MonitorPoll, MonitorUnpause, Resume, ResumeArrive, ResumeServers,
       ResumeRun, procVars
  <2> QED BY <1>1, <2>1, <2>2 DEF HandInv, Notified
<1>5. CASE UNCHANGED trainerVars /\ (Feed \/ MainPutEnd \/ MainStop \/ Pause \/ Update \/ ValidationDone)
  <2>1. Outstanding' <= Outstanding
    BY <1>5, OtherCount DEF Settled
  <2>2. UNCHANGED <<hand, drainFor, procPc>>
    BY <1>5 DEF Feed, MainPutEnd, MainStop, Pause, PauseArrive, PauseStart, PauseGathered, PauseEnd, Update,
       UpdateArrive, UpdateStart, UpdateCount, UpdatePublish, UpdateSpawnValidation, UpdateFrame,
       ValidationDone, procVars
  <2> QED BY <1>2, <2>1, <2>2
<1>6. ASSUME NEW s \in Samples, Task(s) \/ TaskFail(s) PROVE HandInv'
  <2>1. Outstanding' <= Outstanding
    BY <1>6, TaskCount DEF Settled
  <2>2. UNCHANGED <<hand, drainFor, procPc>>
    BY <1>6 DEF Task, TaskStart, TaskCut, TaskGenerated, TaskPut, TaskFail, TaskFrame, procVars
  <2> QED BY <1>2, <2>1, <2>2
<1>7. CASE Trainer \/ DriverClear
  <2>1. Outstanding' <= Outstanding
    BY <1>7, TrainerCount DEF Settled
  <2>2. UNCHANGED <<hand, drainFor, procPc>>
    BY <1>7 DEF Trainer, DriverClear, GetWait, GetSample, GetEnd, Train, WaitValid, WaitFailed, SyncBegin,
       SyncEnd, LastValid, Log, rollVars, procVars
  <2> QED BY <1>2, <2>1, <2>2
<1>8. CASE UNCHANGED vars
  <2>1. UNCHANGED <<hand, drainFor, procPc, task, cancelQueue, queue>>
    BY <1>8 DEF vars, rollVars, procVars, taskVars, queueVars
  <2>2. Outstanding' = Outstanding
    BY <2>1 DEF Outstanding, Live
  <2> QED BY <1>1, <1>2, <2>1, <2>2
<1> QED
  BY <1>3, <1>4, <1>5, <1>6, <1>7, <1>8 DEF Next, Rollout, RollNext, Terminated

-----------------------------------------------------------------------------
(* The stage of a sample.                                                  *)

IsReady(s) == In(s, queue) \/ In(s, batch)
IsRolling(s) == hand = s \/ task[s] # "none" \/ In(s, cancelQueue)
IsWaiting(s) == s > fed \/ In(s, pending)

\* A sample is at one stage.
Exclusive(s) ==
    /\ s \in trained => ~IsReady(s) /\ ~IsRolling(s) /\ ~IsWaiting(s)
    /\ IsReady(s) => ~IsRolling(s) /\ ~IsWaiting(s)
    /\ IsRolling(s) => ~IsWaiting(s)
    /\ In(s, queue) => ~In(s, batch)
    /\ task[s] # "none" => hand # s /\ ~In(s, cancelQueue)

LEMMA OneStage == TypeOK /\ PlacesInv => \A s \in Samples : Exclusive(s)
<1> SUFFICES ASSUME TypeOK, PlacesInv, NEW s \in Samples PROVE Exclusive(s)
  OBVIOUS
<1>1. SampleCounts(s)
  BY CountsType
<1>2. /\ Copies(pending, s) = 0 <=> ~In(s, pending)
      /\ Copies(cancelQueue, s) = 0 <=> ~In(s, cancelQueue)
      /\ Copies(queue, s) = 0 <=> ~In(s, queue)
      /\ Copies(batch, s) = 0 <=> ~In(s, batch)
  BY CopiesType DEF TypeOK
<1>3. Places(s) <= 1 /\ (s > fed => Places(s) = 0)
  BY DEF PlacesInv
<1>4. /\ hand = s => One(hand = s) = 1
      /\ task[s] # "none" => One(task[s] # "none") = 1
      /\ s \in trained => One(s \in trained) = 1
      /\ One(hand = s) \in Nat /\ One(task[s] # "none") \in Nat /\ One(s \in trained) \in Nat
  BY DEF One
<1>5. /\ s \in trained => ~IsReady(s) /\ ~IsRolling(s) /\ ~IsWaiting(s)
      /\ IsReady(s) => ~IsRolling(s) /\ ~IsWaiting(s)
      /\ IsRolling(s) => ~IsWaiting(s)
  BY <1>1, <1>2, <1>3, <1>4 DEF IsReady, IsRolling, IsWaiting, Places, SampleCounts
<1>6. In(s, queue) => ~In(s, batch)
  BY <1>1, <1>2, <1>3, <1>4 DEF Places, SampleCounts
<1>7. ASSUME task[s] # "none" PROVE hand # s /\ ~In(s, cancelQueue)
  <2>1. One(task[s] # "none") = 1
    BY <1>7 DEF One
  <2>2. One(hand = s) = 0 /\ Copies(cancelQueue, s) = 0
    BY <1>1, <1>3, <1>4, <2>1 DEF Places, SampleCounts
  <2> QED BY <1>2, <1>4, <2>2
<1> QED BY <1>5, <1>6, <1>7 DEF Exclusive

\* What Stage says is which of the four holds.
LEMMA StageIs ==
    ASSUME NEW s, Exclusive(s)
    PROVE  /\ Stage(s) = "trained" <=> s \in trained
           /\ Stage(s) = "ready" <=> IsReady(s)
           /\ Stage(s) = "rolling" <=> IsRolling(s)
           /\ Stage(s) = "waiting" <=> IsWaiting(s)
BY DEF Stage, Exclusive, IsReady, IsRolling, IsWaiting

LEMMA StageNext ==
    ASSUME NEW s
    PROVE  /\ s \in trained' => Stage(s)' = "trained"
           /\ s \notin trained' /\ IsReady(s)' => Stage(s)' = "ready"
           /\ s \notin trained' /\ ~IsReady(s)' /\ IsRolling(s)' => Stage(s)' = "rolling"
           /\ s \notin trained' /\ ~IsReady(s)' /\ ~IsRolling(s)' /\ ~IsWaiting(s)' => Stage(s)' = "lost"
           /\ /\ (s \in trained)' <=> s \in trained
              /\ IsReady(s)' <=> IsReady(s)
              /\ IsRolling(s)' <=> IsRolling(s)
              /\ IsWaiting(s)' <=> IsWaiting(s)
              => Stage(s)' = Stage(s)
BY DEF Stage, IsReady, IsRolling, IsWaiting

-----------------------------------------------------------------------------
(* The steps of SamplePipeline.                                            *)

\* A step that trains on nothing and begins no version
Frame == UNCHANGED <<trainerVersion, localStep>> /\ (phase' = "extra" <=> phase = "extra")
Abstract == [Pipeline!Next]_(Pipeline!pipeline)

\* The instance counts as we do.
LEMMA SameCardinality == \A S : Pipeline!Cardinality(S) = Cardinality(S)
BY DEF Pipeline!Cardinality, Cardinality

LEMMA StutterStep == ASSUME Frame, \A s \in Samples : Stage(s)' = Stage(s) PROVE Abstract
BY DEF Frame, Abstract, Pipeline!pipeline

LEMMA LoseStep ==
    ASSUME Frame, NEW S \in SUBSET Samples, \A s \in S : Stage(s) \in {"rolling", "ready"},
           \A s \in Samples : Stage(s)' = IF s \in S THEN "lost" ELSE Stage(s)
    PROVE  Abstract
<1>1. CASE S = {}
  BY <1>1, StutterStep
<1>2. CASE S # {}
  <2>1. S \in SUBSET (Pipeline!At("rolling") \cup Pipeline!At("ready"))
    BY DEF Pipeline!At
  <2>2. Pipeline!Move(S, "lost")
    BY DEF Pipeline!Move
  <2>3. Pipeline!Lose
    BY <1>2, <2>1, <2>2 DEF Pipeline!Lose, Frame
  <2> QED BY <2>3 DEF Abstract, Pipeline!Next
<1> QED BY <1>1, <1>2

LEMMA DeliverStep ==
    ASSUME Frame, NEW t \in Samples, Stage(t) = "rolling", NEW S \in SUBSET Samples,
           S = {} \/ \E r \in Samples : S = {r} /\ Stage(r) = "ready",
           \A s \in Samples : Stage(s)' = IF s = t THEN "ready" ELSE IF s \in S THEN "lost" ELSE Stage(s)
    PROVE  Abstract
<1>1. t \in Pipeline!At("rolling") /\ S \in {{}} \cup {{r} : r \in Pipeline!At("ready")}
  BY DEF Pipeline!At
<1>2. Pipeline!Deliver
  BY <1>1 DEF Pipeline!Deliver, Frame
<1> QED BY <1>2 DEF Abstract, Pipeline!Next

LEMMA StartStep ==
    ASSUME Frame, NEW t \in Samples, Stage(t) = "waiting",
           Cardinality(Pipeline!At("rolling") \cup Pipeline!At("ready")) < MaxRequired + Required + 1,
           \A s \in Samples : Stage(s)' = IF s = t THEN "rolling" ELSE Stage(s)
    PROVE  Abstract
<1>1. t \in Pipeline!At("waiting")
  BY DEF Pipeline!At
<1>2. Pipeline!Move({t}, "rolling")
  BY DEF Pipeline!Move
<1>3. \E s \in Pipeline!At("waiting") : Pipeline!Move({s}, "rolling")
  BY <1>1, <1>2
<1>4. Pipeline!StartRollout
  BY <1>3, SameCardinality DEF Pipeline!StartRollout, Frame
<1> QED BY <1>4 DEF Abstract, Pipeline!Next

-----------------------------------------------------------------------------
(* How many samples are rolling or ready.                                  *)

LEMMA IntervalSize == \A n \in Nat : IsFiniteSet(1..n) /\ Cardinality(1..n) = n
BY FS_Interval

LEMMA ElementsBound ==
    ASSUME NEW S, NEW q \in Seq(S), NEW I \in SUBSET (1..Len(q))
    PROVE  /\ IsFiniteSet({q[i] : i \in I})
           /\ Cardinality({q[i] : i \in I}) \in Nat /\ Cardinality({q[i] : i \in I}) <= Cardinality(I)
<1> DEFINE f == [i \in I |-> q[i]]
           T == {q[i] : i \in I}
<1>1. IsFiniteSet(I)
  <2>1. Len(q) \in Nat
    OBVIOUS
  <2>2. IsFiniteSet(1..Len(q))
    BY <2>1, FS_Interval
  <2> QED BY <2>2, FS_Subset
<1>2. f \in Surjection(I, T)
  BY DEF Surjection
<1> HIDE DEF f, T
<1>3. IsFiniteSet(T) /\ Cardinality(T) <= Cardinality(I)
  BY <1>1, <1>2, FS_Surjection
<1>4. Cardinality(T) \in Nat
  BY <1>3, FS_CardinalityType
<1> QED BY <1>3, <1>4 DEF T

LEMMA UnionBound ==
    ASSUME NEW A, IsFiniteSet(A), NEW B, IsFiniteSet(B)
    PROVE  /\ IsFiniteSet(A \cup B) /\ Cardinality(A \cup B) \in Nat
           /\ Cardinality(A \cup B) <= Cardinality(A) + Cardinality(B)
<1>1. IsFiniteSet(A \cup B) /\ Cardinality(A \cup B) = Cardinality(A) + Cardinality(B) - Cardinality(A \cap B)
  BY FS_Union
<1>2. IsFiniteSet(A \cap B)
  BY FS_Intersection
<1>3. /\ Cardinality(A) \in Nat /\ Cardinality(B) \in Nat /\ Cardinality(A \cap B) \in Nat
      /\ Cardinality(A \cup B) \in Nat
  BY <1>1, <1>2, FS_CardinalityType
<1> QED BY <1>1, <1>3

InFlight == Pipeline!At("rolling") \cup Pipeline!At("ready")

LEMMA InFlightBound ==
    ASSUME TypeOK
    PROVE  /\ IsFiniteSet(InFlight) /\ Cardinality(InFlight) \in Nat
           /\ Cardinality(InFlight) <= Outstanding + Len(batch)
<1>1. queue \in Seq(Samples \cup {EndOfStream}) /\ cancelQueue \in Seq(Samples) /\ batch \in Seq(Samples)
      /\ Len(queue) \in Nat /\ Len(cancelQueue) \in Nat /\ Len(batch) \in Nat
  BY DEF TypeOK
<1> DEFINE ends == PlacesIn(queue, EndOfStream)
           inHand == {hand} \ {EndOfStream}
           cancelled == {cancelQueue[i] : i \in 1..Len(cancelQueue)}
           queued == {queue[i] : i \in (1..Len(queue)) \ ends}
           taken == {batch[i] : i \in 1..Len(batch)}
<1>2. IsFiniteSet(inHand) /\ Cardinality(inHand) = One(hand # EndOfStream) /\ One(hand # EndOfStream) \in Nat
  <2>1. CASE hand = EndOfStream
    BY <2>1, FS_EmptySet DEF One
  <2>2. CASE hand # EndOfStream
    <3>1. inHand = {hand}
      BY <2>2
    <3> QED BY <2>2, <3>1, FS_Singleton DEF One
  <2> QED BY <2>1, <2>2
<1>3. IsFiniteSet(cancelled) /\ Cardinality(cancelled) \in Nat /\ Cardinality(cancelled) <= Len(cancelQueue)
  <2>1. Cardinality(1..Len(cancelQueue)) = Len(cancelQueue)
    BY <1>1, IntervalSize
  <2> QED BY <1>1, <2>1, ElementsBound
<1>4. IsFiniteSet(taken) /\ Cardinality(taken) \in Nat /\ Cardinality(taken) <= Len(batch)
  <2>1. Cardinality(1..Len(batch)) = Len(batch)
    BY <1>1, IntervalSize
  <2> QED BY <1>1, <2>1, ElementsBound
<1>5. IsFiniteSet(queued) /\ Cardinality(queued) \in Nat /\ Cardinality(queued) <= Ready
  <2>1. Cardinality(1..Len(queue)) = Len(queue) /\ IsFiniteSet(1..Len(queue))
    BY <1>1, IntervalSize
  <2>2. (1..Len(queue)) \cap ends = ends
    BY DEF PlacesIn
  <2>3. Cardinality(ends) = Copies(queue, EndOfStream)
    BY <1>1, CopiesType
  <2>4. Cardinality((1..Len(queue)) \ ends) = Cardinality(1..Len(queue)) - Cardinality((1..Len(queue)) \cap ends)
    BY <2>1, FS_Difference
  <2>5. Cardinality((1..Len(queue)) \ ends) = Ready
    BY <2>1, <2>2, <2>3, <2>4 DEF Ready
  <2> QED BY <1>1, <2>5, ElementsBound
<1>6. IsFiniteSet(Live) /\ Cardinality(Live) \in Nat
  BY LiveFinite
<1>7. InFlight \in SUBSET (((inHand \cup Live) \cup (cancelled \cup queued)) \cup taken)
  <2> SUFFICES ASSUME NEW s \in Samples, Stage(s) \in {"rolling", "ready"}
               PROVE  s \in inHand \/ s \in Live \/ s \in cancelled \/ s \in queued \/ s \in taken
    BY DEF InFlight, Pipeline!At
  <2>1. s # EndOfStream
    BY DEF Samples, EndOfStream
  <2>2. In(s, queue) => s \in queued
    BY <2>1 DEF In, PlacesIn
  <2>3. (In(s, batch) => s \in taken) /\ (In(s, cancelQueue) => s \in cancelled)
    BY DEF In
  <2> QED BY <2>1, <2>2, <2>3 DEF Stage, Live
<1> HIDE DEF inHand, cancelled, queued, taken
<1>8. IsFiniteSet(inHand \cup Live) /\ Cardinality(inHand \cup Live) <= Cardinality(inHand) + Cardinality(Live)
      /\ Cardinality(inHand \cup Live) \in Nat
  BY <1>2, <1>6, UnionBound
<1>9. IsFiniteSet(cancelled \cup queued)
      /\ Cardinality(cancelled \cup queued) <= Cardinality(cancelled) + Cardinality(queued)
      /\ Cardinality(cancelled \cup queued) \in Nat
  BY <1>3, <1>5, UnionBound
<1> DEFINE left == inHand \cup Live
           right == cancelled \cup queued
<1> HIDE DEF left, right
<1>10. /\ IsFiniteSet(left \cup right) /\ Cardinality(left \cup right) \in Nat
       /\ Cardinality(left \cup right) <= Cardinality(left) + Cardinality(right)
  BY <1>8, <1>9, UnionBound DEF left, right
<1>11. /\ IsFiniteSet((left \cup right) \cup taken) /\ Cardinality((left \cup right) \cup taken) \in Nat
       /\ Cardinality((left \cup right) \cup taken) <= Cardinality(left \cup right) + Cardinality(taken)
  BY <1>4, <1>10, UnionBound
<1>12. /\ IsFiniteSet(InFlight) /\ Cardinality(InFlight) <= Cardinality((left \cup right) \cup taken)
  BY <1>7, <1>11, FS_Subset DEF left, right
<1>13. Cardinality(InFlight) \in Nat
  BY <1>12, FS_CardinalityType
<1>14. Outstanding = One(hand # EndOfStream) + Cardinality(Live) + Len(cancelQueue) + Ready
  <2>1. Ready \in Nat /\ Outstanding = One(hand # EndOfStream) + Flight + Ready
    BY CountTypes DEF Counts
  <2> QED BY <1>1, <1>2, <1>6, <2>1 DEF Flight
<1>15. Ready \in Nat
  BY CountTypes DEF Counts
<1>16. Cardinality(left) <= One(hand # EndOfStream) + Cardinality(Live) /\ Cardinality(left) \in Nat
  BY <1>2, <1>8 DEF left
<1>17. Cardinality(right) <= Len(cancelQueue) + Ready /\ Cardinality(right) \in Nat
  BY <1>1, <1>3, <1>5, <1>9, <1>15 DEF right
<1>18. Cardinality(InFlight) <= Outstanding + Len(batch)
  BY <1>1, <1>2, <1>4, <1>6, <1>10, <1>11, <1>12, <1>13, <1>14, <1>15, <1>16, <1>17
<1> QED BY <1>12, <1>13, <1>18

-----------------------------------------------------------------------------
(* Where a step leaves the samples of a queue.                             *)

LEMMA InHeadTail ==
    ASSUME NEW S, NEW q \in Seq(S), q # <<>>
    PROVE  \A s : In(s, q) <=> s = Head(q) \/ In(s, Tail(q))
<1> SUFFICES ASSUME NEW s PROVE In(s, q) <=> s = Head(q) \/ In(s, Tail(q))
  OBVIOUS
<1>1. /\ Len(Tail(q)) = Len(q) - 1 /\ Len(q) \in Nat \ {0} /\ Head(q) = q[1]
      /\ \A i \in 1..Len(Tail(q)) : Tail(q)[i] = q[i + 1]
  OBVIOUS
<1>2. ASSUME NEW i \in 1..Len(q), q[i] = s PROVE s = Head(q) \/ In(s, Tail(q))
  <2>1. CASE i = 1
    BY <1>1, <1>2, <2>1
  <2>2. CASE i # 1
    <3>1. i - 1 \in 1..Len(Tail(q)) /\ Tail(q)[i - 1] = q[(i - 1) + 1] /\ (i - 1) + 1 = i
      BY <1>1, <2>2
    <3> QED BY <1>2, <3>1 DEF In
  <2> QED BY <2>1, <2>2
<1>3. s = Head(q) \/ In(s, Tail(q)) => In(s, q)
  BY InTail
<1> QED BY <1>2, <1>3 DEF In

LEMMA InAppended ==
    ASSUME NEW S, NEW q \in Seq(S), NEW x \in S
    PROVE  \A s : In(s, Append(q, x)) <=> In(s, q) \/ s = x
<1>1. Len(Append(q, x)) = Len(q) + 1 /\ Len(q) \in Nat
      /\ \A i \in 1..(Len(q) + 1) : Append(q, x)[i] = IF i \in 1..Len(q) THEN q[i] ELSE x
  OBVIOUS
<1>2. Len(q) + 1 \in 1..(Len(q) + 1) /\ Len(q) + 1 \notin 1..Len(q) /\ 1..Len(q) \subseteq 1..(Len(q) + 1)
  BY <1>1
<1> QED BY <1>1, <1>2 DEF In

LEMMA InConcat ==
    ASSUME NEW S, NEW q \in Seq(S), NEW r \in Seq(S)
    PROVE  \A s : In(s, q \o r) <=> In(s, q) \/ In(s, r)
<1> SUFFICES ASSUME NEW s PROVE In(s, q \o r) <=> In(s, q) \/ In(s, r)
  OBVIOUS
<1>1. Len(q) \in Nat /\ Len(r) \in Nat /\ Len(q \o r) = Len(q) + Len(r)
      /\ \A i \in 1..(Len(q) + Len(r)) : (q \o r)[i] = IF i <= Len(q) THEN q[i] ELSE r[i - Len(q)]
  OBVIOUS
<1>2. ASSUME NEW i \in 1..(Len(q) + Len(r)), (q \o r)[i] = s PROVE In(s, q) \/ In(s, r)
  <2>1. CASE i <= Len(q)
    BY <1>1, <1>2, <2>1 DEF In
  <2>2. CASE i > Len(q)
    <3>1. i - Len(q) \in 1..Len(r) /\ r[i - Len(q)] = s
      BY <1>1, <1>2, <2>2
    <3> QED BY <3>1 DEF In
  <2> QED BY <1>1, <2>1, <2>2
<1>3. ASSUME NEW i \in 1..Len(q), q[i] = s PROVE In(s, q \o r)
  <2>1. i \in 1..(Len(q) + Len(r)) /\ (q \o r)[i] = s
    BY <1>1, <1>3
  <2> QED BY <1>1, <2>1 DEF In
<1>4. ASSUME NEW i \in 1..Len(r), r[i] = s PROVE In(s, q \o r)
  <2>1. i + Len(q) \in 1..(Len(q) + Len(r)) /\ ~(i + Len(q) <= Len(q)) /\ (i + Len(q)) - Len(q) = i
    BY <1>1
  <2>2. (q \o r)[i + Len(q)] = s
    BY <1>1, <1>4, <2>1
  <2> QED BY <1>1, <2>1, <2>2 DEF In
<1> QED BY <1>1, <1>2, <1>3, <1>4 DEF In

\* The sample put_sample drops from a full queue
Dropped == IF MQ!QueueFull THEN {Head(queue)} ELSE {}

LEMMA PutDrops ==
    ASSUME TypeOK, PlacesInv, NEW item \in Samples \cup {EndOfStream}, MQ!PutSample(item)
    PROVE  /\ \A s \in Samples : In(s, queue') <=> s = item \/ (In(s, queue) /\ s \notin Dropped)
           /\ \A s \in Dropped : In(s, queue)
<1>1. queue \in Seq(Samples \cup {EndOfStream}) /\ (MQ!QueueFull => queue # <<>>)
  BY Sizes DEF TypeOK, MQ!QueueFull
<1>2. queue' = Append(IF MQ!QueueFull THEN Tail(queue) ELSE queue, item)
  BY DEF MQ!PutSample
<1>3. CASE MQ!QueueFull
  <2>1. Tail(queue) \in Seq(Samples \cup {EndOfStream})
    BY <1>1, <1>3, HeadTail
  <2>2. \A s : In(s, queue') <=> In(s, Tail(queue)) \/ s = item
    BY <1>2, <1>3, <2>1, InAppended
  <2>3. \A s : In(s, queue) <=> s = Head(queue) \/ In(s, Tail(queue))
    BY <1>1, <1>3, InHeadTail
  <2>4. ASSUME NEW s \in Samples, s = Head(queue) PROVE ~In(s, Tail(queue))
    <3>1. Copies(queue, s) = Copies(Tail(queue), s) + One(Head(queue) = s)
      BY <1>1, <1>3, CopiesTail
    <3>2. One(Head(queue) = s) = 1
      BY <2>4 DEF One
    <3>3. Copies(queue, s) <= 1
      <4>1. SampleCounts(s) /\ Places(s) <= 1
        BY CountsType DEF PlacesInv
      <4> QED BY <4>1 DEF Places, SampleCounts, One
    <3>4. Copies(Tail(queue), s) \in Nat
      BY <2>1, QueueCopies
    <3>5. Copies(Tail(queue), s) = 0
      BY <3>1, <3>2, <3>3, <3>4
    <3> QED BY <2>1, <3>5, CopiesType
  <2> QED BY <1>3, <2>2, <2>3, <2>4 DEF Dropped
<1>4. CASE ~MQ!QueueFull
  <2>1. \A s : In(s, queue') <=> In(s, queue) \/ s = item
    BY <1>1, <1>2, <1>4, InAppended
  <2> QED BY <1>4, <2>1 DEF Dropped
<1> QED BY <1>3, <1>4

-----------------------------------------------------------------------------
(* The steps of the system.                                                *)

LEMMA StagesStay ==
    ASSUME UNCHANGED <<queue, batch, trained, hand, cancelQueue, fed, pending>>,
           \A s \in Samples : task'[s] # "none" <=> task[s] # "none"
    PROVE  \A s \in Samples : Stage(s)' = Stage(s)
<1> SUFFICES ASSUME NEW s \in Samples PROVE Stage(s)' = Stage(s)
  OBVIOUS
<1>1. /\ (s \in trained)' <=> s \in trained
      /\ IsReady(s)' <=> IsReady(s)
      /\ IsRolling(s)' <=> IsRolling(s)
      /\ IsWaiting(s)' <=> IsWaiting(s)
  BY DEF IsReady, IsRolling, IsWaiting
<1> QED BY <1>1, StageNext

LEMMA FeedStep ==
    ASSUME TypeOK, TypeOK', Feed, UNCHANGED trainerVars
    PROVE  Abstract
<1> DEFINE n == Burst(fed, MaxPending - Len(pending))
           new == [i \in 1..n |-> FeedItem(fed + i)]
<1>1. /\ n > 0 /\ fed' = fed + n /\ pending' = pending \o new
      /\ UNCHANGED <<queue, batch, trained, hand, task, cancelQueue>> /\ Frame
  BY DEF Feed, Frame, queueVars, taskVars, procVars, trainerVars
<1>2. fed \in 0..(Total + 1) /\ fed' \in 0..(Total + 1) /\ pending \in Seq(Samples \cup {EndOfStream})
  BY DEF TypeOK
<1>3. n \in Nat
  <2>1. MaxPending - Len(pending) \in Int
    BY <1>2, Sizes
  <2>2. n >= 0
    <3>1. n \in Int
      BY <1>2, <2>1, Sizes DEF Burst
    <3> QED BY <1>1, <3>1
  <2> QED BY <1>2, <2>1, <2>2, BurstType
<1> HIDE DEF n
<1>4. new \in Seq(Samples \cup {EndOfStream}) /\ Len(new) = n
  BY <1>2, <1>3, FeedItemType
<1>5. \A s \in Samples : In(s, new) <=> s > fed /\ s <= fed + n
  <2> SUFFICES ASSUME NEW s \in Samples PROVE In(s, new) <=> s > fed /\ s <= fed + n
    OBVIOUS
  <2>1. s \in 1..Total /\ Total \in Nat /\ EndOfStream = 0
    BY Sizes DEF Samples, EndOfStream
  <2>2. \A i \in 1..n : new[i] = s <=> fed + i = s
    BY <1>2, <1>3, <2>1 DEF FeedItem
  <2>3. s > fed /\ s <= fed + n => s - fed \in 1..n /\ fed + (s - fed) = s
    BY <1>2, <1>3, <2>1
  <2> HIDE DEF new
  <2> QED BY <1>2, <1>3, <1>4, <2>1, <2>2, <2>3 DEF In
<1> HIDE DEF new
<1>6. \A s \in Samples : IsWaiting(s)' <=> IsWaiting(s)
  <2> SUFFICES ASSUME NEW s \in Samples PROVE IsWaiting(s)' <=> IsWaiting(s)
    OBVIOUS
  <2>1. In(s, pending') <=> In(s, pending) \/ In(s, new)
    BY <1>1, <1>2, <1>4, InConcat
  <2>2. s \in Nat
    BY Sizes DEF Samples
  <2> QED BY <1>1, <1>2, <1>3, <1>5, <2>1, <2>2 DEF IsWaiting
<1>7. \A s \in Samples : Stage(s)' = Stage(s)
  BY <1>1, <1>6, StageNext DEF IsReady, IsRolling
<1> QED BY <1>1, <1>7, StutterStep

LEMMA ProcessorStep ==
    ASSUME TypeOK, TypeOK', PlacesInv, StalenessCovers, BatchInv, HandInv,
           Processor, UNCHANGED trainerVars
    PROVE  Abstract
<1>1. UNCHANGED <<queue, batch, trained, fed>> /\ Frame
  BY DEF Processor, ProcTop, ProcFetchWait, ProcSetPaused, ProcDrain, ProcReap, ProcIdle, ProcSubmit,
     ProcWoken, FetchCancelled, FetchPending, queueVars, feedVars, trainerVars, Frame
<1>2. /\ pending \in Seq(Samples \cup {EndOfStream}) /\ cancelQueue \in Seq(Samples)
      /\ hand \in Samples \cup {EndOfStream} /\ task \in [Samples -> {"none", "new", "gen", "put"}]
      /\ \A s \in Samples : s # EndOfStream /\ Exclusive(s)
  <2>1. \A s \in Samples : Exclusive(s)
    BY OneStage
  <2>2. \A s \in Samples : s # EndOfStream
    BY DEF Samples, EndOfStream
  <2> QED BY <2>1, <2>2 DEF TypeOK
<1>3. CASE FetchPending /\ UNCHANGED task /\ procPc \in {"top", "fetchWait"}
  <2>1. /\ pending # <<>> /\ pending' = Tail(pending) /\ hand' = Head(pending) /\ UNCHANGED cancelQueue
        /\ hand = EndOfStream
    BY <1>3 DEF FetchPending, Dispatch, HandInv
  <2>2. \A s : In(s, pending) <=> s = Head(pending) \/ In(s, pending')
    BY <1>2, <2>1, InHeadTail
  <2>3. CASE Head(pending) = EndOfStream
    <3>1. \A s \in Samples : IsWaiting(s)' <=> IsWaiting(s)
      BY <1>1, <1>2, <2>2, <2>3 DEF IsWaiting
    <3>2. \A s \in Samples : Stage(s)' = Stage(s)
      BY <1>1, <1>2, <1>3, <2>1, <2>3, <3>1, StageNext DEF IsReady, IsRolling
    <3> QED BY <1>1, <3>2, StutterStep
  <2>4. CASE Head(pending) # EndOfStream
    <3>1. PICK t \in Samples : t = Head(pending)
      BY <1>2, <2>1, <2>4, HeadTail
    <3>2. IsWaiting(t) /\ Stage(t) = "waiting"
      BY <1>2, <2>2, <3>1, StageIs DEF IsWaiting
    <3>3. Stage(t)' = "rolling"
      <4>1. t \notin trained' /\ ~IsReady(t)'
        BY <1>1, <1>2, <3>1, <3>2 DEF Exclusive, IsReady
      <4>2. IsRolling(t)'
        BY <2>1, <3>1 DEF IsRolling
      <4> QED BY <4>1, <4>2, StageNext
    <3>4. ASSUME NEW s \in Samples, s # t PROVE Stage(s)' = Stage(s)
      <4>1. IsWaiting(s)' <=> IsWaiting(s)
        BY <1>1, <2>2, <3>1, <3>4 DEF IsWaiting
      <4>2. IsRolling(s)' <=> IsRolling(s)
        BY <1>2, <1>3, <2>1, <3>1, <3>4 DEF IsRolling
      <4> QED BY <1>1, <4>1, <4>2, StageNext DEF IsReady
    <3>5. Cardinality(InFlight) < MaxRequired + Required + 1
      <4>1. Outstanding <= MaxRequired
        <5>1. CASE procPc = "fetchWait"
          BY <5>1 DEF HandInv
        <5>2. CASE procPc = "top"
          <6>1. ~ShouldPause
            <7>1. ProcTop /\ procPc' # "setPaused"
              BY <1>3, <5>2 DEF Processor, ProcTop, ProcFetchWait, ProcSetPaused, ProcDrain, ProcReap,
                 ProcIdle, ProcSubmit, ProcWoken, FetchPending, Dispatch, EnterDrain
            <7> QED BY <7>1 DEF ProcTop
          <6>2. staleness \in Nat /\ staleness < MaxRequired
            BY <6>1, Sizes DEF ShouldPause, TypeOK
          <6>3. Outstanding <= staleness + 1 /\ Outstanding \in Nat
            BY CountTypes DEF StalenessCovers, Counts
          <6> QED BY <6>2, <6>3, Sizes
        <5> QED BY <1>3, <5>1, <5>2
      <4>2. Len(batch) <= Required /\ Len(batch) \in Nat
        <5>1. Len(batch) \in Nat
          BY DEF TypeOK
        <5> QED BY <5>1, Sizes DEF BatchInv
      <4>3. Cardinality(InFlight) \in Nat /\ Cardinality(InFlight) <= Outstanding + Len(batch)
            /\ Outstanding \in Nat
        BY InFlightBound, CountTypes DEF Counts
      <4> QED BY <4>1, <4>2, <4>3, Sizes
    <3>6. \A s \in Samples : Stage(s)' = IF s = t THEN "rolling" ELSE Stage(s)
      BY <3>3, <3>4
    <3> QED BY <1>1, <3>1, <3>2, <3>5, <3>6, StartStep DEF InFlight
  <2> QED BY <2>3, <2>4
<1>4. CASE FetchCancelled /\ UNCHANGED task /\ procPc = "top"
  <2>1. /\ cancelQueue # <<>> /\ cancelQueue' = Tail(cancelQueue) /\ hand' = Head(cancelQueue)
        /\ UNCHANGED pending /\ hand = EndOfStream
    BY <1>4 DEF FetchCancelled, Dispatch, HandInv, feedVars
  <2>2. \A s : In(s, cancelQueue) <=> s = Head(cancelQueue) \/ In(s, cancelQueue')
    BY <1>2, <2>1, InHeadTail
  <2>3. \A s \in Samples : IsRolling(s)' <=> IsRolling(s)
    BY <1>2, <1>4, <2>1, <2>2 DEF IsRolling
  <2>4. \A s \in Samples : Stage(s)' = Stage(s)
    BY <1>1, <2>1, <2>3, StageNext DEF IsReady, IsWaiting
  <2> QED BY <1>1, <2>4, StutterStep
<1>5. CASE ProcSubmit /\ ~paused
  <2>1. /\ task' = [task EXCEPT ![hand] = "new"] /\ hand' = EndOfStream
        /\ UNCHANGED <<cancelQueue, pending>>
    BY <1>5 DEF ProcSubmit, feedVars
  <2>2. \A s \in Samples : IsRolling(s)' <=> IsRolling(s)
    BY <1>2, <2>1 DEF IsRolling
  <2>3. \A s \in Samples : Stage(s)' = Stage(s)
    BY <1>1, <2>1, <2>2, StageNext DEF IsReady, IsWaiting
  <2> QED BY <1>1, <2>3, StutterStep
<1>6. CASE UNCHANGED <<pending, cancelQueue, task, hand>>
  BY <1>1, <1>6, StagesStay, StutterStep
<1> QED
  BY <1>3, <1>4, <1>5, <1>6 DEF Processor, ProcTop, ProcFetchWait, ProcSetPaused, ProcDrain, ProcReap,
     ProcIdle, ProcSubmit, ProcWoken, feedVars, taskVars

LEMMA TaskStep ==
    ASSUME TypeOK, TypeOK', PlacesInv, NEW t \in Samples, Task(t) \/ TaskFail(t), UNCHANGED trainerVars
    PROVE  Abstract
<1>1. UNCHANGED <<batch, trained, fed, pending, hand>> /\ Frame /\ task[t] # "none"
  BY DEF Task, TaskStart, TaskCut, TaskGenerated, TaskPut, TaskFail, TaskFrame, feedVars, procVars,
     trainerVars, Frame
<1>2. /\ cancelQueue \in Seq(Samples) /\ task \in [Samples -> {"none", "new", "gen", "put"}]
      /\ \A s \in Samples : s # EndOfStream /\ Exclusive(s)
  <2>1. \A s \in Samples : Exclusive(s)
    BY OneStage
  <2>2. \A s \in Samples : s # EndOfStream
    BY DEF Samples, EndOfStream
  <2> QED BY <2>1, <2>2 DEF TypeOK
<1>3. IsRolling(t) /\ Stage(t) = "rolling" /\ ~IsReady(t) /\ ~IsWaiting(t) /\ t \notin trained
  BY <1>1, <1>2, StageIs DEF IsRolling, Exclusive
<1>4. CASE TaskStart(t) \/ TaskGenerated(t)
  <2>1. UNCHANGED <<queue, cancelQueue>> /\ \A s \in Samples : task'[s] # "none" <=> task[s] # "none"
    BY <1>2, <1>4 DEF TaskStart, TaskGenerated, queueVars
  <2> QED BY <1>1, <2>1, StagesStay, StutterStep
<1>5. CASE TaskCut(t)
  <2>1. UNCHANGED queue /\ cancelQueue' = Append(cancelQueue, t) /\ task' = [task EXCEPT ![t] = "none"]
    BY <1>5 DEF TaskCut, queueVars
  <2>2. \A s : In(s, cancelQueue') <=> In(s, cancelQueue) \/ s = t
    BY <1>2, <2>1, InAppended
  <2>3. \A s \in Samples : IsRolling(s)' <=> IsRolling(s)
    BY <1>1, <1>2, <2>1, <2>2 DEF IsRolling
  <2>4. \A s \in Samples : Stage(s)' = Stage(s)
    BY <1>1, <2>1, <2>3, StageNext DEF IsReady, IsWaiting
  <2> QED BY <1>1, <2>4, StutterStep
<1>6. CASE TaskPut(t)
  <2>1. MQ!PutSample(t) /\ UNCHANGED cancelQueue /\ task' = [task EXCEPT ![t] = "none"]
    BY <1>6 DEF TaskPut
  <2>2. /\ \A s \in Samples : In(s, queue') <=> s = t \/ (In(s, queue) /\ s \notin Dropped)
        /\ \A s \in Dropped : In(s, queue)
    BY <2>1, PutDrops
  <2> DEFINE S == Dropped \cap Samples
  <2>3. S = {} \/ \E r \in Samples : S = {r} /\ Stage(r) = "ready"
    <3>1. \A r \in S : Stage(r) = "ready"
      BY <1>2, <2>2, StageIs DEF IsReady
    <3> QED BY <3>1 DEF Dropped
  <2>4. ASSUME NEW s \in Samples PROVE Stage(s)' = IF s = t THEN "ready" ELSE IF s \in S THEN "lost" ELSE Stage(s)
    <3>1. CASE s = t
      <4>1. IsReady(s)' /\ s \notin trained'
        BY <1>1, <1>3, <2>2, <3>1 DEF IsReady
      <4> QED BY <3>1, <4>1, StageNext
    <3>2. CASE s # t /\ s \in S
      <4>1. In(s, queue) /\ IsReady(s) /\ Exclusive(s)
        BY <1>2, <2>2, <3>2 DEF IsReady
      <4>2. ~IsReady(s)'
        BY <1>1, <2>2, <3>2, <4>1 DEF IsReady, Exclusive
      <4>3. ~IsRolling(s)' /\ ~IsWaiting(s)' /\ s \notin trained'
        BY <1>1, <1>2, <2>1, <3>2, <4>1 DEF IsRolling, IsWaiting, Exclusive
      <4> QED BY <3>2, <4>2, <4>3, StageNext
    <3>3. CASE s # t /\ s \notin S
      <4>1. IsReady(s)' <=> IsReady(s)
        BY <1>1, <2>2, <3>3 DEF IsReady
      <4>2. (IsRolling(s)' <=> IsRolling(s)) /\ (IsWaiting(s)' <=> IsWaiting(s))
        BY <1>1, <1>2, <2>1, <3>3 DEF IsRolling, IsWaiting
      <4> QED BY <1>1, <3>3, <4>1, <4>2, StageNext
    <3> QED BY <3>1, <3>2, <3>3
  <2>5. S \in SUBSET Samples
    OBVIOUS
  <2> HIDE DEF S
  <2> QED BY <1>1, <1>3, <2>3, <2>4, <2>5, DeliverStep
<1>7. CASE TaskFail(t)
  <2>1. UNCHANGED <<queue, cancelQueue>> /\ task' = [task EXCEPT ![t] = "none"]
    BY <1>7 DEF TaskFail, queueVars
  <2>2. Stage(t)' = "lost"
    <3>1. ~In(t, cancelQueue) /\ hand # t
      BY <1>1, <1>2 DEF Exclusive
    <3>2. ~IsReady(t)' /\ ~IsRolling(t)' /\ ~IsWaiting(t)' /\ t \notin trained'
      BY <1>1, <1>2, <1>3, <2>1, <3>1 DEF IsReady, IsRolling, IsWaiting
    <3> QED BY <3>2, StageNext
  <2>3. ASSUME NEW s \in Samples, s # t PROVE Stage(s)' = Stage(s)
    BY <1>1, <1>2, <2>1, <2>3, StageNext DEF IsReady, IsRolling, IsWaiting
  <2> DEFINE S == {t}
  <2>4. S \in SUBSET Samples /\ \A s \in S : Stage(s) \in {"rolling", "ready"}
    BY <1>3
  <2>5. \A s \in Samples : Stage(s)' = IF s \in S THEN "lost" ELSE Stage(s)
    BY <2>2, <2>3
  <2> HIDE DEF S
  <2> QED BY <1>1, <2>4, <2>5, LoseStep
<1> QED BY <1>4, <1>5, <1>6, <1>7 DEF Task

LEMMA MainStep ==
    ASSUME TypeOK, TypeOK', PlacesInv, MainPutEnd, UNCHANGED trainerVars
    PROVE  Abstract
<1>1. UNCHANGED <<batch, trained, fed, pending, hand, task, cancelQueue>> /\ Frame /\ MQ!PutSample(EndOfStream)
  BY DEF MainPutEnd, feedVars, procVars, taskVars, trainerVars, Frame
<1>2. \A s \in Samples : s # EndOfStream /\ Exclusive(s)
  BY OneStage DEF Samples, EndOfStream
<1>3. /\ \A s \in Samples : In(s, queue') <=> In(s, queue) /\ s \notin Dropped
      /\ \A s \in Dropped : In(s, queue)
  BY <1>1, <1>2, PutDrops
<1> DEFINE S == Dropped \cap Samples
<1>4. S \in SUBSET Samples /\ \A s \in S : Stage(s) \in {"rolling", "ready"}
  BY <1>2, <1>3, StageIs DEF IsReady
<1>5. ASSUME NEW s \in Samples PROVE Stage(s)' = IF s \in S THEN "lost" ELSE Stage(s)
  <2>1. CASE s \in S
    <3>1. ~IsReady(s)' /\ ~IsRolling(s)' /\ ~IsWaiting(s)' /\ s \notin trained'
      BY <1>1, <1>2, <1>3, <2>1 DEF IsReady, IsRolling, IsWaiting, Exclusive
    <3> QED BY <2>1, <3>1, StageNext
  <2>2. CASE s \notin S
    BY <1>1, <1>3, <2>2, StageNext DEF IsReady, IsRolling, IsWaiting
  <2> QED BY <2>1, <2>2
<1> HIDE DEF S
<1> QED BY <1>1, <1>4, <1>5, LoseStep

LEMMA TrainingStep ==
    ASSUME phase # "extra", UNCHANGED phase, NEW B \in SUBSET Samples, Cardinality(B) = Required,
           \A s \in B : Stage(s) = "ready",
           \A s \in Samples : Stage(s)' = IF s \in B THEN "trained" ELSE Stage(s),
           localStep \in 1..Trigger,
           IF localStep < Trigger
             THEN localStep' = localStep + 1 /\ UNCHANGED trainerVersion
             ELSE localStep' = 1 /\ trainerVersion' = trainerVersion + 1
    PROVE  Abstract
<1>1. B \in SUBSET Pipeline!At("ready")
  BY DEF Pipeline!At
<1>2. Pipeline!Move(B, "trained")
  BY DEF Pipeline!Move
<1>3. \E S \in SUBSET Pipeline!At("ready") : Pipeline!Cardinality(S) = Required /\ Pipeline!Move(S, "trained")
  BY <1>1, <1>2, SameCardinality
<1>4. IF (localStep - 1) + 1 < Trigger
        THEN localStep' - 1 = (localStep - 1) + 1 /\ UNCHANGED trainerVersion
        ELSE localStep' - 1 = 0 /\ trainerVersion' = trainerVersion + 1
  BY Sizes
<1>5. Pipeline!TrainStep
  BY <1>3, <1>4 DEF Pipeline!TrainStep
<1> QED BY <1>5 DEF Abstract, Pipeline!Next

\* The samples of the batch are as many as its length and were not trained on.
LEMMA BatchSamples ==
    ASSUME TypeOK, PlacesInv
    PROVE  LET B == {batch[i] : i \in 1..Len(batch)} IN
           /\ B \in SUBSET Samples /\ (\A s : s \in B <=> In(s, batch))
           /\ IsFiniteSet(B) /\ Cardinality(B) = Len(batch) /\ B \cap trained = {}
<1>1. batch \in Seq(Samples) /\ Len(batch) \in Nat /\ \A s \in Samples : Exclusive(s)
  <2>1. \A s \in Samples : Exclusive(s)
    BY OneStage
  <2> QED BY <2>1 DEF TypeOK
<1>2. PICK B \in SUBSET Samples : B = {batch[i] : i \in 1..Len(batch)}
  <2>1. {batch[i] : i \in 1..Len(batch)} \in SUBSET Samples
    BY <1>1
  <2> QED BY <2>1
<1>3. \A s : s \in B <=> In(s, batch)
  BY <1>2 DEF In
<1>4. IsFiniteSet(B) /\ Cardinality(B) = Len(batch)
  <2> DEFINE f == [i \in 1..Len(batch) |-> batch[i]]
  <2>1. f \in Surjection(1..Len(batch), B)
    BY <1>2 DEF Surjection
  <2>2. f \in Injection(1..Len(batch), B)
    <3>1. ASSUME NEW i \in 1..Len(batch), NEW j \in 1..Len(batch), batch[i] = batch[j]
          PROVE  i = j
      <4>1. batch[i] \in Samples
        BY <1>1
      <4>2. Copies(batch, batch[i]) <= 1
        <5>1. SampleCounts(batch[i]) /\ Places(batch[i]) <= 1
          BY <4>1, CountsType DEF PlacesInv
        <5> QED BY <5>1 DEF Places, SampleCounts, One
      <4> QED BY <1>1, <3>1, <4>2, CopiesUnique
    <3>2. f \in [1..Len(batch) -> B] /\ DOMAIN f = 1..Len(batch)
      BY <1>2
    <3>3. \A i, j \in 1..Len(batch) : f[i] = f[j] => i = j
      BY <3>1
    <3> HIDE DEF f
    <3>4. IsInjective(f)
      BY <3>2, <3>3 DEF IsInjective
    <3> QED BY <3>2, <3>4 DEF Injection
  <2>3. IsFiniteSet(1..Len(batch)) /\ Cardinality(1..Len(batch)) = Len(batch)
    BY <1>1, IntervalSize
  <2> HIDE DEF f
  <2>4. IsFiniteSet(B) /\ Cardinality(B) = Cardinality(1..Len(batch))
    BY <2>1, <2>2, <2>3, FS_Surjection
  <2> QED BY <2>3, <2>4
<1>5. B \cap trained = {}
  BY <1>1, <1>3 DEF Exclusive, IsReady
<1> QED BY <1>2, <1>3, <1>4, <1>5

LEMMA TrainStages ==
    ASSUME TypeOK, PlacesInv, BatchInv, Train
    PROVE  Abstract
<1>1. /\ trainerPc = "train" /\ phase = "loop" /\ batch' = <<>>
      /\ UNCHANGED <<phase, queue, hand, task, cancelQueue, fed, pending>>
      /\ Len(batch) = Required
  BY DEF Train, BatchInv, queueVars, rollVars, taskVars, procVars, feedVars
<1>2. batch \in Seq(Samples) /\ Len(batch) \in Nat /\ localStep \in 1..Trigger /\ \A s \in Samples : Exclusive(s)
  <2>1. \A s \in Samples : Exclusive(s)
    BY OneStage
  <2> QED BY <2>1 DEF TypeOK
<1>3. PICK B \in SUBSET Samples : /\ B = {batch[i] : i \in 1..Len(batch)}
                                  /\ \A s : s \in B <=> In(s, batch)
                                  /\ Cardinality(B) = Len(batch)
  BY BatchSamples
<1>4. trained' = trained \cup B /\ \A s : s \in B <=> In(s, batch)
  BY <1>3 DEF Train
<1>5. Cardinality(B) = Required
  BY <1>1, <1>3
<1>6. \A s \in B : Stage(s) = "ready"
  BY <1>2, <1>4, StageIs DEF IsReady
<1>7. ASSUME NEW s \in Samples PROVE Stage(s)' = IF s \in B THEN "trained" ELSE Stage(s)
  <2>1. CASE s \in B
    <3>1. s \in trained'
      BY <1>4, <2>1
    <3> QED BY <2>1, <3>1, StageNext
  <2>2. CASE s \notin B
    <3>1. ((s \in trained)' <=> s \in trained) /\ ~In(s, batch)
      BY <1>4, <2>2
    <3>2. IsReady(s)' <=> IsReady(s)
      BY <1>1, <3>1 DEF IsReady, In
    <3> QED BY <1>1, <2>2, <3>1, <3>2, StageNext DEF IsRolling, IsWaiting
  <2> QED BY <2>1, <2>2
<1>8. IF localStep < Trigger
        THEN localStep' = localStep + 1 /\ UNCHANGED trainerVersion
        ELSE localStep' = 1 /\ trainerVersion' = trainerVersion + 1
  BY DEF Train, BeginSync
<1> QED BY <1>1, <1>2, <1>5, <1>6, <1>7, <1>8, TrainingStep

LEMMA TrainerStep ==
    ASSUME TypeOK, TypeOK', PlacesInv, BatchInv, Trainer \/ DriverClear
    PROVE  Abstract
<1>1. UNCHANGED <<hand, task, cancelQueue, fed, pending>>
  BY DEF Trainer, DriverClear, GetWait, GetSample, GetEnd, Train, WaitValid, WaitFailed, SyncBegin,
     SyncEnd, LastValid, Log, rollVars, taskVars, procVars, feedVars
<1>2. batch \in Seq(Samples) /\ queue \in Seq(Samples \cup {EndOfStream})
  BY DEF TypeOK
<1>3. \A s \in Samples : Exclusive(s)
  BY OneStage
<1>4. CASE GetSample
  <2>1. /\ queue # <<>> /\ queue' = Tail(queue) /\ batch' = Append(batch, Head(queue)) /\ UNCHANGED trained
        /\ Head(queue) # EndOfStream /\ Frame
    BY <1>4 DEF GetSample, MQ!Take, Frame
  <2>2. Head(queue) \in Samples
    BY <1>2, <2>1, HeadTail
  <2>3. \A s : In(s, queue) <=> s = Head(queue) \/ In(s, queue')
    BY <1>2, <2>1, InHeadTail
  <2>4. \A s : In(s, batch') <=> In(s, batch) \/ s = Head(queue)
    BY <1>2, <2>1, <2>2, InAppended
  <2>5. \A s \in Samples : IsReady(s)' <=> IsReady(s)
    BY <2>3, <2>4 DEF IsReady
  <2>6. \A s \in Samples : Stage(s)' = Stage(s)
    BY <1>1, <2>1, <2>5, StageNext DEF IsRolling, IsWaiting
  <2> QED BY <2>1, <2>6, StutterStep
<1>5. CASE GetEnd
  <2>1. /\ queue # <<>> /\ queue' = Tail(queue) /\ batch' = <<>> /\ UNCHANGED trained
        /\ Head(queue) = EndOfStream /\ Frame
    BY <1>5 DEF GetEnd, MQ!Take, Frame, BatchInv
  <2>2. \A s : In(s, queue) <=> s = Head(queue) \/ In(s, queue')
    BY <1>2, <2>1, InHeadTail
  <2>3. PICK S \in SUBSET Samples : S = {s \in Samples : In(s, batch)}
    OBVIOUS
  <2>4. \A s \in S : Stage(s) \in {"rolling", "ready"}
    BY <1>3, <2>3, StageIs DEF IsReady
  <2>5. ASSUME NEW s \in Samples PROVE Stage(s)' = IF s \in S THEN "lost" ELSE Stage(s)
    <3>1. In(s, queue') <=> In(s, queue)
      BY <2>1, <2>2 DEF Samples, EndOfStream
    <3>2. ~In(s, batch')
      BY <2>1 DEF In
    <3>3. CASE s \in S
      <4>1. Exclusive(s) /\ IsReady(s) /\ In(s, batch)
        BY <1>3, <2>3, <3>3 DEF IsReady
      <4>2. ~IsReady(s)'
        BY <3>1, <3>2, <4>1 DEF IsReady, Exclusive
      <4>3. ~IsRolling(s)' /\ ~IsWaiting(s)' /\ s \notin trained'
        BY <1>1, <2>1, <4>1 DEF IsRolling, IsWaiting, Exclusive
      <4> QED BY <3>3, <4>2, <4>3, StageNext
    <3>4. CASE s \notin S
      <4>1. IsReady(s)' <=> IsReady(s)
        BY <2>3, <3>1, <3>2, <3>4 DEF IsReady
      <4> QED BY <1>1, <2>1, <3>4, <4>1, StageNext DEF IsRolling, IsWaiting
    <3> QED BY <3>3, <3>4
  <2> QED BY <2>1, <2>4, <2>5, LoseStep
<1>6. CASE Train
  BY <1>6, TrainStages
<1>7. CASE Log
  <2>1. UNCHANGED <<queue, batch, trained>>
    BY <1>7 DEF Log, MQ!GetValidate
  <2>2. \A s \in Samples : Stage(s)' = Stage(s)
    BY <1>1, <2>1, StagesStay
  <2>3. CASE Frame
    BY <2>2, <2>3, StutterStep
  <2>4. CASE ~Frame
    <3>1. /\ phase # "extra" /\ phase' = "extra" /\ trainerVersion' = trainerVersion + 1
          /\ localStep' = 1
      BY <1>7, <2>4 DEF Log, Frame, BeginSync
    <3>2. Pipeline!Close
      BY <2>2, <3>1 DEF Pipeline!Close
    <3> QED BY <3>2 DEF Abstract, Pipeline!Next
  <2> QED BY <2>3, <2>4
<1>8. CASE GetWait \/ WaitValid \/ WaitFailed \/ SyncBegin \/ SyncEnd \/ LastValid
  <2>1. UNCHANGED <<queue, batch, trained>> /\ Frame
    BY <1>8 DEF GetWait, WaitValid, WaitFailed, SyncBegin, SyncEnd, LastValid, MQ!Wait,
       MQ!UpdateParamVersion, queueVars, trainerVars, Frame
  <2> QED BY <1>1, <2>1, StagesStay, StutterStep
<1>9. CASE DriverClear
  <2>1. queue' = <<>> /\ UNCHANGED <<batch, trained>> /\ Frame
    BY <1>9 DEF DriverClear, MQ!ClearQueue, Frame
  <2>2. PICK S \in SUBSET Samples : S = {s \in Samples : In(s, queue)}
    OBVIOUS
  <2>3. \A s \in S : Stage(s) \in {"rolling", "ready"}
    BY <1>3, <2>2, StageIs DEF IsReady
  <2>4. ASSUME NEW s \in Samples PROVE Stage(s)' = IF s \in S THEN "lost" ELSE Stage(s)
    <3>1. ~In(s, queue')
      BY <2>1 DEF In
    <3>2. CASE s \in S
      <4>1. Exclusive(s) /\ IsReady(s) /\ In(s, queue)
        BY <1>3, <2>2, <3>2 DEF IsReady
      <4>2. ~IsReady(s)'
        BY <2>1, <3>1, <4>1 DEF IsReady, Exclusive
      <4>3. ~IsRolling(s)' /\ ~IsWaiting(s)' /\ s \notin trained'
        BY <1>1, <2>1, <4>1 DEF IsRolling, IsWaiting, Exclusive
      <4> QED BY <3>2, <4>2, <4>3, StageNext
    <3>3. CASE s \notin S
      <4>1. IsReady(s)' <=> IsReady(s)
        BY <2>1, <2>2, <3>1, <3>3 DEF IsReady
      <4> QED BY <1>1, <2>1, <3>3, <4>1, StageNext DEF IsRolling, IsWaiting
    <3> QED BY <3>2, <3>3
  <2> QED BY <2>1, <2>3, <2>4, LoseStep
<1> QED BY <1>4, <1>5, <1>6, <1>7, <1>8, <1>9 DEF Trainer

\* Everything the refinement rests on.
PipelineParts == TypeInv /\ CoverInv /\ PlacesInv /\ BatchInv /\ HandInv

LEMMA PipelineStep == PipelineParts /\ PipelineParts' /\ [Next]_vars => Abstract
<1> SUFFICES ASSUME PipelineParts, PipelineParts', [Next]_vars PROVE Abstract
  OBVIOUS
<1>1. TypeOK /\ TypeOK' /\ PlacesInv /\ StalenessCovers /\ BatchInv /\ HandInv
  BY DEF PipelineParts, TypeInv, CoverInv
<1>2. CASE UNCHANGED trainerVars /\ (MainStop \/ Monitor \/ Pause \/ Update \/ ValidationDone \/ Resume)
  <2>1. UNCHANGED <<queue, batch, trained, hand, task, cancelQueue, fed, pending>> /\ Frame
    BY <1>2 DEF MainStop, Monitor, MonitorCheck, MonitorPoll, MonitorUnpause, Pause, PauseArrive,
       PauseStart,
       PauseGathered, PauseEnd, Update, UpdateArrive, UpdateStart, UpdateCount, UpdatePublish,
       UpdateSpawnValidation, UpdateFrame, ValidationDone, Resume, ResumeArrive, ResumeServers, ResumeRun,
       MQ!PutValidate, queueVars, feedVars, taskVars, procVars, trainerVars, Frame
  <2> QED BY <2>1, StagesStay, StutterStep
<1>3. CASE UNCHANGED vars
  <2>1. UNCHANGED <<queue, batch, trained, hand, task, cancelQueue, fed, pending>> /\ Frame
    BY <1>3 DEF vars, rollVars, queueVars, feedVars, taskVars, procVars, trainerVars, Frame
  <2> QED BY <2>1, StagesStay, StutterStep
<1> QED
  BY <1>1, <1>2, <1>3, FeedStep, ProcessorStep, TaskStep, MainStep, TrainerStep
     DEF Next, Rollout, RollNext, Terminated

LEMMA PipelineInit == Init => PipelineParts /\ Pipeline!Init
<1> SUFFICES ASSUME Init PROVE PipelineParts /\ Pipeline!Init
  OBVIOUS
<1>1. TypeOK /\ CoverInv /\ PlacesInv /\ BatchInv
  BY InitType, InitCovers, InitPlaces, InitLag
<1>2. PipelineParts
  BY <1>1, InitQuiesce DEF PipelineParts, TypeInv, HandInv, Init, RollInit
<1>3. ASSUME NEW s \in Samples PROVE Stage(s) = "waiting"
  <2>1. /\ trained = {} /\ queue = <<>> /\ batch = <<>> /\ hand = EndOfStream /\ task[s] = "none"
        /\ cancelQueue = <<>> /\ fed = FirstBurst /\ pending = [i \in 1..FirstBurst |-> FeedItem(i)]
    BY DEF Init, RollInit
  <2>2. FirstBurst \in Nat /\ s \in Nat \ {0} /\ s <= Total /\ Total \in Nat
    BY <1>1, <2>1, Sizes DEF TypeOK, Samples
  <2>3. s > fed \/ In(s, pending)
    <3>1. CASE s <= FirstBurst
      <4>1. s \in 1..FirstBurst /\ FeedItem(s) = s
        BY <2>2, <3>1 DEF FeedItem
      <4>2. pending \in Seq(Samples \cup {EndOfStream})
        BY <1>1 DEF TypeOK
      <4>3. Len(pending) = FirstBurst /\ pending[s] = s
        BY <2>1, <2>2, <4>1
      <4> QED BY <4>1, <4>3 DEF In
    <3>2. CASE s > FirstBurst
      BY <2>1, <3>2
    <3> QED BY <2>2, <3>1, <3>2
  <2>4. s # EndOfStream
    BY DEF Samples, EndOfStream
  <2>5. ~In(s, queue) /\ ~In(s, batch) /\ ~In(s, cancelQueue)
    BY <2>1 DEF In
  <2>6. s \notin trained /\ s # hand /\ task[s] = "none"
    BY <2>1, <2>4
  <2> QED BY <2>3, <2>5, <2>6 DEF Stage
<1>4. Pipeline!Init
  BY <1>3 DEF Pipeline!Init, Init
<1> QED BY <1>2, <1>4

\* The whole system implements SamplePipeline, for all sizes: every sample is
\* rolled out, made ready and trained on at most once, a training step takes
\* exactly a batch, and the samples in flight never exceed the staleness room
\* by more than a batch and one sample.
THEOREM PipelineImplemented == Spec => RefinesPipeline
<1>1. PipelineParts /\ [Next]_vars => PipelineParts'
  <2> SUFFICES ASSUME PipelineParts, [Next]_vars PROVE PipelineParts'
    OBVIOUS
  <2>1. TypeInv' /\ TypeOK /\ TypeOK' /\ StalenessCovers
    BY NextTypes DEF PipelineParts, TypeInv, CoverInv
  <2> QED BY <2>1, NextCovers, NextPlaces, NextBatch, NextHand DEF PipelineParts
<1>2. PipelineParts /\ PipelineParts' /\ [Next]_vars => [Pipeline!Next]_(Pipeline!pipeline)
  BY PipelineStep DEF Abstract
<1> QED BY PipelineInit, <1>1, <1>2, PTL DEF Spec, RefinesPipeline, Pipeline!Spec

-----------------------------------------------------------------------------
(* NothingLost.                                                            *)

\* No generation call has raised and the trainer goes on.
Sound == failures = 0 /\ trainerPc # "failed"

\* active_tasks holds an exception only if a call has raised.
FailInv == failed => failures # 0

LEMMA NextFail == TypeOK /\ FailInv /\ [Next]_vars => FailInv'
<1> SUFFICES ASSUME TypeOK, FailInv, [Next]_vars PROVE FailInv'
  OBVIOUS
<1>1. ASSUME NEW s \in Samples, TaskFail(s) PROVE FailInv'
  <2>1. failures' = failures + 1 /\ failures \in Nat
    BY <1>1, Sizes DEF TaskFail, TypeOK
  <2> QED BY <2>1 DEF FailInv
<1>2. CASE UNCHANGED trainerVars /\ (Processor \/ Pause \/ \E s \in Samples : Task(s))
  <2>1. failures' = failures /\ (failed' = failed \/ failed' = FALSE)
    BY <1>2 DEF Processor, ProcTop, ProcFetchWait, ProcSetPaused, ProcDrain, ProcReap, ProcIdle,
       ProcSubmit, ProcWoken, Pause, PauseArrive, PauseStart, PauseGathered, PauseEnd, Task, TaskStart,
       TaskCut, TaskGenerated, TaskPut, taskVars
  <2> QED BY <2>1 DEF FailInv
<1>3. CASE \/ /\ UNCHANGED trainerVars
              /\ Feed \/ MainPutEnd \/ MainStop \/ Monitor \/ Update \/ ValidationDone \/ Resume
           \/ Trainer \/ DriverClear \/ UNCHANGED vars
  <2>1. UNCHANGED <<failed, failures>>
    BY <1>3 DEF Feed, MainPutEnd, MainStop, Monitor, MonitorCheck, MonitorPoll, MonitorUnpause, Update,
       UpdateArrive, UpdateStart, UpdateCount, UpdatePublish, UpdateSpawnValidation, UpdateFrame,
       ValidationDone, Resume, ResumeArrive, ResumeServers, ResumeRun, Trainer, DriverClear, GetWait,
       GetSample, GetEnd, Train, WaitValid, WaitFailed, SyncBegin, SyncEnd, LastValid, Log, rollVars,
       taskVars, vars
  <2> QED BY <2>1 DEF FailInv
<1> QED
  BY <1>1, <1>2, <1>3 DEF Next, Rollout, RollNext, Terminated

-----------------------------------------------------------------------------
(* The end of the stream: what "DONE" says.                                *)

\* pending_queue holds the last samples that were fed, in order.
PendingInv ==
    /\ Len(pending) <= fed
    /\ \A i \in 1..Len(pending) : pending[i] = FeedItem(fed - Len(pending) + i)

\* Steps other than the feeder's and a fetch
LEMMA PendingKept == PendingInv /\ UNCHANGED <<pending, fed>> => PendingInv'
BY DEF PendingInv

LEMMA FeedPending == ASSUME TypeOK, PendingInv, Feed PROVE PendingInv'
<1> DEFINE n == Burst(fed, MaxPending - Len(pending))
           new == [i \in 1..n |-> FeedItem(fed + i)]
<1>1. n > 0 /\ fed' = fed + n /\ pending' = pending \o new
  BY DEF Feed
<1>2. fed \in Nat /\ pending \in Seq(Samples \cup {EndOfStream}) /\ Len(pending) \in Nat
  BY Sizes DEF TypeOK
<1>3. n \in Nat
  BY <1>1, <1>2, Sizes DEF Burst
<1> HIDE DEF n
<1>4. Len(new) = n /\ \A i \in 1..n : new[i] = FeedItem(fed + i)
  BY <1>3
<1>5. new \in Seq(Samples \cup {EndOfStream})
  <2>1. \A i \in 1..n : FeedItem(fed + i) \in Samples \cup {EndOfStream}
    BY <1>2, <1>3, FeedItemType
  <2> QED BY <1>3, <2>1
<1> HIDE DEF new
<1>6. /\ Len(pending') = Len(pending) + n
      /\ \A i \in 1..(Len(pending) + n) :
            pending'[i] = IF i <= Len(pending) THEN pending[i] ELSE new[i - Len(pending)]
  <2>1. /\ Len(pending \o new) = Len(pending) + Len(new)
        /\ \A i \in 1..Len(pending \o new) :
             (pending \o new)[i] = IF i <= Len(pending) THEN pending[i] ELSE new[i - Len(pending)]
    BY <1>2, <1>5, ConcatParts
  <2> QED BY <1>1, <1>4, <2>1
<1>7. ASSUME NEW i \in 1..(Len(pending) + n)
      PROVE  pending'[i] = FeedItem(fed' - Len(pending') + i)
  <2>1. fed' - Len(pending') + i = fed - Len(pending) + i
    BY <1>1, <1>2, <1>3, <1>6
  <2>2. CASE i <= Len(pending)
    BY <1>2, <1>6, <1>7, <2>1, <2>2 DEF PendingInv
  <2>3. CASE i > Len(pending)
    <3>1. i - Len(pending) \in 1..n /\ fed + (i - Len(pending)) = fed - Len(pending) + i
      BY <1>2, <1>3, <2>3
    <3>2. pending'[i] = new[i - Len(pending)]
      BY <1>2, <1>6, <2>3
    <3> QED BY <1>4, <2>1, <3>1, <3>2
  <2> QED BY <1>2, <1>3, <2>2, <2>3
<1> QED BY <1>1, <1>2, <1>3, <1>6, <1>7 DEF PendingInv

LEMMA TailPending ==
    ASSUME TypeOK, PendingInv, pending # <<>>, pending' = Tail(pending), fed' = fed
    PROVE  PendingInv'
<1>1. fed \in Nat /\ pending \in Seq(Samples \cup {EndOfStream}) /\ Len(pending) \in Nat
  BY Sizes DEF TypeOK
<1>2. Len(pending') = Len(pending) - 1 /\ \A i \in 1..Len(pending') : pending'[i] = pending[i + 1]
  BY <1>1
<1>3. ASSUME NEW i \in 1..Len(pending') PROVE pending'[i] = FeedItem(fed' - Len(pending') + i)
  <2>1. i + 1 \in 1..Len(pending) /\ fed' - Len(pending') + i = fed - Len(pending) + (i + 1)
    BY <1>1, <1>2
  <2> QED BY <1>2, <2>1 DEF PendingInv
<1> QED BY <1>1, <1>2, <1>3 DEF PendingInv

LEMMA NextPending == TypeOK /\ PendingInv /\ [Next]_vars => PendingInv'
<1> SUFFICES ASSUME TypeOK, PendingInv, [Next]_vars PROVE PendingInv'
  OBVIOUS
<1>1. CASE Processor
  <2>1. UNCHANGED <<pending, fed>> \/ (pending # <<>> /\ pending' = Tail(pending) /\ fed' = fed)
    BY <1>1 DEF Processor, ProcTop, ProcFetchWait, ProcSetPaused, ProcDrain, ProcReap, ProcIdle,
       ProcSubmit, ProcWoken, FetchCancelled, FetchPending, feedVars
  <2> QED BY <2>1, PendingKept, TailPending
<1>2. ASSUME NEW s \in Samples, Task(s) \/ TaskFail(s) PROVE PendingInv'
  BY <1>2, PendingKept DEF Task, TaskStart, TaskCut, TaskGenerated, TaskPut, TaskFail, TaskFrame, feedVars
<1>3. CASE MainPutEnd \/ MainStop \/ Monitor \/ Pause \/ Update \/ ValidationDone \/ Resume
           \/ Trainer \/ DriverClear \/ UNCHANGED vars
  <2>1. UNCHANGED <<pending, fed>>
    BY <1>3 DEF MainPutEnd, MainStop, Monitor, MonitorCheck, MonitorPoll, MonitorUnpause, Pause,
       PauseArrive, PauseStart, PauseGathered, PauseEnd, Update, UpdateArrive, UpdateStart, UpdateCount,
       UpdatePublish, UpdateSpawnValidation, UpdateFrame, ValidationDone, Resume, ResumeArrive,
       ResumeServers, ResumeRun, Trainer, DriverClear, GetWait, GetSample, GetEnd, Train, WaitValid,
       WaitFailed, SyncBegin, SyncEnd, LastValid, Log, rollVars, feedVars, vars
  <2> QED BY <2>1, PendingKept
<1> QED
  BY <1>1, <1>2, <1>3, FeedPending DEF Next, Rollout, RollNext, Terminated

\* "DONE" is the last item.
LEMMA DoneIsLast ==
    ASSUME TypeOK, PendingInv, pending # <<>>, Head(pending) = EndOfStream
    PROVE  fed = Total + 1 /\ Tail(pending) = <<>>
<1>1. fed \in 0..(Total + 1) /\ pending \in Seq(Samples \cup {EndOfStream}) /\ Len(pending) \in Nat \ {0}
      /\ Total \in Nat
  BY Sizes DEF TypeOK
<1>2. FeedItem(fed - Len(pending) + 1) = EndOfStream
  <2>1. Head(pending) = pending[1] /\ 1 \in 1..Len(pending)
    BY <1>1
  <2> QED BY <2>1 DEF PendingInv
<1>3. Len(pending) <= fed
  BY DEF PendingInv
<1>4. fed - Len(pending) + 1 > Total
  BY <1>1, <1>2, <1>3 DEF FeedItem, EndOfStream
<1>5. fed = Total + 1 /\ Len(pending) = 1
  <2>1. \A n, t \in Nat, l \in Nat \ {0} : n <= t + 1 /\ n - l + 1 > t => n = t + 1 /\ l = 1
    OBVIOUS
  <2>2. fed \in Nat /\ fed <= Total + 1
    BY <1>1
  <2> QED BY <1>1, <1>4, <2>1, <2>2
<1>6. Tail(pending) = <<>>
  <2>1. Tail(pending) \in Seq(Samples \cup {EndOfStream}) /\ Len(Tail(pending)) = 0
    BY <1>1, <1>5
  <2> QED BY <2>1, EmptySeq
<1> QED BY <1>5, <1>6

\* The processor has taken "DONE": everything was fed and nothing is left to
\* fetch.  When it has ended, no task is left either.
Quitting == procPc = "exited" \/ (procPc \in {"drain", "drainWait"} /\ drainFor = "done")

QuitInv ==
    /\ Quitting => hand = EndOfStream /\ pending = <<>> /\ fed = Total + 1
    /\ procPc = "exited" => Live = {}

\* The processor's steps: it takes "DONE", goes on with it, or does not have it.
LEMMA NoneLive == ASSUME TypeOK, Cardinality(Live) = 0 PROVE Live = {}
BY LiveFinite, FS_EmptySet

LEMMA CountsLive == ASSUME TypeOK, ActiveCount = 0 PROVE Live = {} /\ finished = 0
<1>1. Cardinality(Live) \in Nat /\ finished \in Nat
  BY LiveFinite DEF TypeOK
<1>2. Cardinality(Live) = 0 /\ finished = 0
  BY <1>1 DEF ActiveCount
<1> QED BY <1>2, NoneLive

LEMMA DispatchQuits ==
    ASSUME TypeOK, TypeOK', PendingInv, ProcTop \/ ProcFetchWait
    PROVE  QuitInv'
<1>1. UNCHANGED <<task, finished>> /\ procPc \in {"top", "fetchWait"}
  BY DEF ProcTop, ProcFetchWait, taskVars
<1>2. CASE ~Quitting'
  BY <1>2 DEF QuitInv, Quitting
<1>3. CASE Quitting'
  <2>1. /\ FetchPending \/ FetchCancelled
        /\ hand' = EndOfStream /\ (procPc' = "exited" => ActiveCount = 0)
    BY <1>3 DEF Quitting, ProcTop, ProcFetchWait, FetchPending, FetchCancelled, Dispatch, EnterDrain
  <2>2. ~FetchCancelled
    <3>1. FetchCancelled => hand' \in Samples
      BY HeadTail DEF FetchCancelled, Dispatch, TypeOK
    <3> QED BY <2>1, <3>1 DEF Samples, EndOfStream
  <2>3. pending # <<>> /\ Head(pending) = EndOfStream /\ pending' = Tail(pending) /\ fed' = fed
    BY <2>1, <2>2 DEF FetchPending, Dispatch
  <2>4. procPc' = "exited" => Live' = {}
    BY <1>1, <2>1, CountsLive DEF Live
  <2> QED BY <2>1, <2>3, <2>4, DoneIsLast DEF QuitInv
<1> QED BY <1>2, <1>3

LEMMA ProcessorQuits ==
    ASSUME TypeOK, TypeOK', PendingInv, QuitInv, Processor
    PROVE  QuitInv'
<1>1. CASE ProcDrain \/ ProcReap
  <2>1. UNCHANGED <<hand, pending, fed, task, drainFor>> /\ procPc \in {"drain", "drainWait"}
    BY <1>1 DEF ProcDrain, ProcReap, feedVars, taskVars
  <2>2. Quitting' => Quitting
    BY <1>1, <2>1 DEF ProcDrain, ProcReap, AfterRound, Quitting, TypeOK
  <2>3. procPc' = "exited" => Cardinality(Live) = 0
    <3>1. CASE ProcDrain
      BY <3>1, CountsLive, FS_EmptySet DEF ProcDrain, AfterRound
    <3>2. CASE ProcReap
      <4>1. procPc' = "exited" => drainFor = "done" /\ Cardinality(Live) < 1
        BY <3>2 DEF ProcReap, AfterRound
      <4> QED BY <4>1, LiveFinite
    <3> QED BY <1>1, <3>1, <3>2
  <2>4. procPc' = "exited" => Live' = {}
    BY <2>1, <2>3, NoneLive DEF Live
  <2> QED BY <2>1, <2>2, <2>4 DEF QuitInv
<1>2. CASE ProcSetPaused \/ ProcIdle \/ ProcSubmit \/ ProcWoken
  <2>1. ~Quitting'
    BY <1>2 DEF ProcSetPaused, ProcIdle, ProcSubmit, ProcWoken, Quitting
  <2> QED BY <2>1 DEF QuitInv, Quitting
<1> QED BY <1>1, <1>2, DispatchQuits DEF Processor

LEMMA NextQuit == TypeOK /\ TypeOK' /\ PendingInv /\ QuitInv /\ [Next]_vars => QuitInv'
<1> SUFFICES ASSUME TypeOK, TypeOK', PendingInv, QuitInv, [Next]_vars PROVE QuitInv'
  OBVIOUS
<1>1. ASSUME UNCHANGED <<hand, drainFor>>, Quitting => UNCHANGED <<pending, fed>>,
             procPc' \in {procPc, Notified(procPc)}, \A s \in Samples : task[s] = "none" => task'[s] = "none"
      PROVE  QuitInv'
  BY <1>1 DEF QuitInv, Quitting, Notified, Live
<1>2. CASE Feed
  <2>1. UNCHANGED <<hand, drainFor, procPc, task>>
    BY <1>2 DEF Feed, procVars, taskVars
  <2>2. fed # Total + 1
    <3>1. Burst(fed, MaxPending - Len(pending)) > 0
      BY <1>2 DEF Feed
    <3>2. Len(pending) \in Nat /\ fed \in Nat
      BY Sizes DEF TypeOK
    <3> QED BY <3>1, <3>2, Sizes DEF Burst
  <2>3. ~Quitting
    BY <2>2 DEF QuitInv
  <2> QED BY <1>1, <2>1, <2>3
<1>3. ASSUME NEW s \in Samples, Task(s) \/ TaskFail(s) PROVE QuitInv'
  <2>1. UNCHANGED <<hand, drainFor, procPc, pending, fed>> /\ task[s] # "none"
    BY <1>3 DEF Task, TaskStart, TaskCut, TaskGenerated, TaskPut, TaskFail, TaskFrame, feedVars, procVars
  <2>2. \A t \in Samples : task[t] = "none" => task'[t] = "none"
    BY <1>3, <2>1 DEF Task, TaskStart, TaskCut, TaskGenerated, TaskPut, TaskFail, TypeOK
  <2> QED BY <1>1, <2>1, <2>2
<1>4. CASE MainPutEnd \/ MainStop \/ Monitor \/ Pause \/ Update \/ ValidationDone \/ Resume
           \/ Trainer \/ DriverClear \/ UNCHANGED vars
  <2>1. UNCHANGED <<pending, fed, hand, drainFor, task>> /\ procPc' \in {procPc, Notified(procPc)}
    BY <1>4 DEF MainPutEnd, MainStop, Monitor, MonitorCheck, MonitorPoll, MonitorUnpause, Pause,
       PauseArrive, PauseStart, PauseGathered, PauseEnd, Update, UpdateArrive, UpdateStart, UpdateCount,
       UpdatePublish, UpdateSpawnValidation, UpdateFrame, ValidationDone, Resume, ResumeArrive,
       ResumeServers, ResumeRun, Trainer, DriverClear, GetWait, GetSample, GetEnd, Train, WaitValid,
       WaitFailed, SyncBegin, SyncEnd, LastValid, Log, rollVars, feedVars, procVars, taskVars, vars
  <2> QED BY <1>1, <2>1
<1> QED
  BY <1>2, <1>3, <1>4, ProcessorQuits DEF Next, Rollout, RollNext, Terminated

\* The processor takes "DONE" only where there is room for a sample, so that the
\* end of the stream finds room in the message queue.
SpareInv == Going /\ Quitting => Outstanding < MaxRequired

LEMMA NextSpare ==
    ASSUME TypeOK, TypeOK', RoomInv, BatchInv, SpareInv, [Next]_vars
    PROVE  SpareInv'
<1> SUFFICES ASSUME Going', Quitting' PROVE Outstanding' < MaxRequired
  BY DEF SpareInv
<1>1. /\ Outstanding \in Nat /\ Outstanding' \in Nat /\ staleness \in Nat /\ MaxRequired \in Nat \ {0}
      /\ Used \in Nat
  BY CountTypes, UsedTypes, Sizes DEF Counts, TypeOK, UsedType
<1>2. Going
  <2>1. phase' = phase \/ phase' # "loop"
    BY DEF Next, Rollout, RollNext, Terminated, Trainer, DriverClear, GetWait, GetSample, GetEnd, Train,
       WaitValid, WaitFailed, SyncBegin, SyncEnd, LastValid, Log, trainerVars, vars
  <2>2. trainerPc = "failed" => trainerPc' = "failed"
    BY DEF Next, Rollout, RollNext, Terminated, Trainer, DriverClear, GetWait, GetSample, GetEnd, Train,
       WaitValid, WaitFailed, SyncBegin, SyncEnd, LastValid, Log, trainerVars, vars
  <2> QED BY <2>1, <2>2 DEF Going
<1>3. ASSUME Quitting, Outstanding' <= Outstanding PROVE Outstanding' < MaxRequired
  BY <1>1, <1>2, <1>3 DEF SpareInv
<1>4. CASE Processor /\ ~Quitting
  <2>1. /\ procPc \in {"top", "fetchWait"} /\ hand' = EndOfStream /\ UNCHANGED <<task, queue>>
        /\ FetchPending \/ FetchCancelled
    BY <1>4 DEF Quitting, Processor, ProcTop, ProcFetchWait, ProcSetPaused, ProcDrain, ProcReap, ProcIdle,
       ProcSubmit, ProcWoken, FetchPending, FetchCancelled, Dispatch, EnterDrain, AfterRound, TypeOK,
       queueVars, taskVars
  <2>2. FetchPending /\ UNCHANGED cancelQueue
    <3>1. FetchCancelled => hand' \in Samples
      BY HeadTail DEF FetchCancelled, Dispatch, TypeOK
    <3> QED BY <2>1, <3>1 DEF Samples, EndOfStream, FetchPending
  <2>3. staleness < MaxRequired
    <3>1. CASE procPc = "fetchWait"
      BY <1>2, <3>1 DEF RoomInv
    <3>2. CASE procPc = "top"
      <4>1. ProcTop
        BY <1>4, <3>2 DEF Processor, ProcFetchWait, ProcSetPaused, ProcDrain, ProcReap, ProcIdle,
           ProcSubmit, ProcWoken
      <4>2. procPc' \notin {"setPaused", "fetchWait"}
        BY DEF Quitting
      <4>3. ~(paused \/ ShouldPause)
        BY <4>1, <4>2 DEF ProcTop
      <4> QED BY <1>1, <4>3 DEF ShouldPause
    <3> QED BY <2>1, <3>1, <3>2
  <2>4. ~Blocked
    BY <1>1, <1>2, <2>3 DEF RoomInv
  <2>5. trainerPc \in Fetching /\ Counted
    BY <1>2, <2>4 DEF BatchInv, Going, Blocked
  <2>6. Used + Outstanding <= staleness
    BY <1>2, <2>5 DEF RoomInv
  <2>7. Outstanding' <= Outstanding
    <3>1. Flight' = Flight /\ Ready' = Ready
      BY <2>1, <2>2 DEF Flight, Ready, Live
    <3>2. /\ Outstanding = One(hand # EndOfStream) + Flight + Ready
          /\ Outstanding' = One(hand' # EndOfStream) + Flight' + Ready'
          /\ Flight \in Nat /\ Ready \in Nat
      BY CountTypes DEF Counts
    <3>3. One(hand' # EndOfStream) = 0 /\ One(hand # EndOfStream) \in Nat
      BY <2>1 DEF One
    <3> QED BY <3>1, <3>2, <3>3
  <2> QED BY <1>1, <2>3, <2>6, <2>7
<1>5. CASE Processor /\ Quitting
  <2>1. ~FetchesNew /\ procPc # "submit"
    BY <1>5 DEF FetchesNew, Quitting
  <2>2. Outstanding' <= Outstanding
    BY <1>5, <2>1, ProcessorCount DEF Settled, Submits
  <2> QED BY <1>3, <1>5, <2>2
<1>6. ASSUME NEW s \in Samples, Task(s) \/ TaskFail(s) PROVE Outstanding' < MaxRequired
  <2>1. Quitting
    BY <1>6 DEF Task, TaskStart, TaskCut, TaskGenerated, TaskPut, TaskFail, TaskFrame, procVars, Quitting
  <2> QED BY <1>3, <1>6, <2>1, TaskCount DEF Settled
<1>7. CASE Trainer \/ DriverClear
  <2>1. Quitting
    BY <1>7 DEF Trainer, DriverClear, GetWait, GetSample, GetEnd, Train, WaitValid, WaitFailed, SyncBegin,
       SyncEnd, LastValid, Log, rollVars, procVars, Quitting
  <2> QED BY <1>3, <1>7, <2>1, TrainerCount DEF Settled
<1>8. CASE Feed \/ MainPutEnd \/ MainStop \/ Monitor \/ Pause \/ Update \/ ValidationDone \/ Resume
  <2>1. Quitting
    BY <1>8 DEF Feed, MainPutEnd, MainStop, Monitor, MonitorCheck, MonitorPoll, MonitorUnpause, Pause,
       PauseArrive, PauseStart, PauseGathered, PauseEnd, Update, UpdateArrive, UpdateStart, UpdateCount,
       UpdatePublish, UpdateSpawnValidation, UpdateFrame, ValidationDone, Resume, ResumeArrive,
       ResumeServers, ResumeRun, Notified, procVars, Quitting
  <2> QED BY <1>3, <1>8, <2>1, OtherCount DEF Settled
<1>9. CASE UNCHANGED vars
  <2>1. UNCHANGED <<hand, task, cancelQueue, queue, procPc, drainFor>>
    BY <1>9 DEF vars, rollVars, queueVars, procVars, taskVars
  <2>2. UNCHANGED Outstanding /\ Quitting
    BY <2>1 DEF Outstanding, Live, Quitting
  <2> QED BY <1>1, <1>3, <2>2
<1> QED
  BY <1>4, <1>5, <1>6, <1>7, <1>8, <1>9 DEF Next, Rollout, RollNext, Terminated

-----------------------------------------------------------------------------
(* The order in which the lock is granted.                                 *)

\* The monitor's request for the lock is ahead of any by pause().
MonitorAhead ==
    \E i \in 1..Len(lockQueue) :
        lockQueue[i] = "monitor" /\ \A j \in 1..i : lockQueue[j] # "pause"

\* pause() has one request for the lock, and a monitor that will clear the pause
\* flag asked before it: it found room, and there is none once pause() is called.
OrderInv ==
    /\ Copies(lockQueue, "pause") = One(pausePc \in {"lock", "gather", "flush"})
    /\ Going /\ monitorPc = "unpause" => MonitorAhead

\* What coroutine p may do to the lock's queue in one step.
LockStep(p) ==
    \/ UNCHANGED lockQueue
    \/ lockQueue' = Append(lockQueue, p)
    \/ Holds(p) /\ (lockQueue' = Tail(lockQueue) \/ lockQueue' = Append(Tail(lockQueue), p))

LEMMA LockMoves ==
    ASSUME NEW p,
           \/ Request(p) \/ Suspend
           \/ Holds(p) /\ (Release \/ ReleaseAndGoOn(p) \/ ReleaseAndRequest(p))
    PROVE  LockStep(p)
BY DEF LockStep, Request, Suspend, Release, ReleaseAndGoOn, ReleaseAndRequest

LEMMA OthersKeepPause ==
    ASSUME lockQueue \in Seq(Coroutines), NEW p \in Coroutines, p # "pause", LockStep(p)
    PROVE  Copies(lockQueue', "pause") = Copies(lockQueue, "pause")
<1>1. One(p = "pause") = 0
  BY DEF One
<1>2. Copies(lockQueue, "pause") \in Nat
  BY CopiesType
<1>3. CASE lockQueue' = Append(lockQueue, p)
  <2>1. Copies(Append(lockQueue, p), "pause") = Copies(lockQueue, "pause") + One(p = "pause")
    BY CopiesAppend
  <2> QED BY <1>1, <1>2, <1>3, <2>1
<1>4. CASE Holds(p) /\ (lockQueue' = Tail(lockQueue) \/ lockQueue' = Append(Tail(lockQueue), p))
  <2>1. lockQueue # <<>> /\ Head(lockQueue) = p /\ Tail(lockQueue) \in Seq(Coroutines)
    BY <1>4, HeadTail DEF Holds
  <2>2. PICK t \in Seq(Coroutines) : t = Tail(lockQueue)
    BY <2>1
  <2>3. Copies(lockQueue, "pause") = Copies(t, "pause")
    <3>1. Copies(lockQueue, "pause") = Copies(Tail(lockQueue), "pause") + One(Head(lockQueue) = "pause")
      BY <2>1, CopiesTail
    <3>2. One(Head(lockQueue) = "pause") = 0 /\ Copies(t, "pause") \in Nat
      BY <2>1, <2>2, CopiesType DEF One
    <3> QED BY <2>2, <3>1, <3>2
  <2>4. Copies(Append(t, p), "pause") = Copies(t, "pause")
    <3>1. Copies(Append(t, p), "pause") = Copies(t, "pause") + One(p = "pause")
      <4>1. t \in Seq(Coroutines)
        BY <2>2
      <4>2. \A S : \A q \in Seq(S) : \A x \in S : \A z : Copies(Append(q, x), z) = Copies(q, z) + One(x = z)
        BY CopiesAppend
      <4> QED BY <4>1, <4>2
    <3>2. Copies(t, "pause") \in Nat
      BY <2>2, CopiesType
    <3> QED BY <1>1, <3>1, <3>2
  <2>5. lockQueue' = t \/ lockQueue' = Append(t, p)
    BY <1>4, <2>2
  <2> QED BY <2>3, <2>4, <2>5
<1>5. CASE UNCHANGED lockQueue
  BY <1>5
<1> QED BY <1>3, <1>4, <1>5 DEF LockStep

LEMMA OthersKeepAhead ==
    ASSUME lockQueue \in Seq(Coroutines), NEW p \in Coroutines, p # "monitor", LockStep(p), MonitorAhead
    PROVE  MonitorAhead'
<1>1. PICK i \in 1..Len(lockQueue) :
         lockQueue[i] = "monitor" /\ \A j \in 1..i : lockQueue[j] # "pause"
  BY DEF MonitorAhead
<1>2. Len(lockQueue) \in Nat
  OBVIOUS
<1>3. CASE lockQueue' = Append(lockQueue, p)
  <2>1. Len(lockQueue') = Len(lockQueue) + 1 /\ \A j \in 1..Len(lockQueue) : lockQueue'[j] = lockQueue[j]
    BY <1>3
  <2>2. i \in 1..Len(lockQueue') /\ \A j \in 1..i : lockQueue'[j] = lockQueue[j] /\ i \in 1..i
    BY <1>1, <1>2, <2>1
  <2>3. lockQueue'[i] = "monitor" /\ \A j \in 1..i : lockQueue'[j] # "pause"
    BY <1>1, <2>2
  <2> QED BY <2>2, <2>3 DEF MonitorAhead
<1>4. CASE Holds(p) /\ (lockQueue' = Tail(lockQueue) \/ lockQueue' = Append(Tail(lockQueue), p))
  <2>1. lockQueue # <<>> /\ lockQueue[1] = p /\ Tail(lockQueue) \in Seq(Coroutines)
    BY <1>4, HeadTail DEF Holds
  <2>2. Len(Tail(lockQueue)) = Len(lockQueue) - 1 /\ \A j \in 1..(Len(lockQueue) - 1) : Tail(lockQueue)[j] = lockQueue[j + 1]
    BY <2>1
  <2>3. /\ Len(lockQueue') \in Nat /\ Len(lockQueue') >= Len(lockQueue) - 1
        /\ \A j \in 1..(Len(lockQueue) - 1) : lockQueue'[j] = lockQueue[j + 1]
    BY <1>2, <1>4, <2>1, <2>2
  <2>4. i - 1 \in 1..(Len(lockQueue) - 1)
    BY <1>1, <1>2, <2>1
  <2>5. /\ i - 1 \in 1..Len(lockQueue') /\ lockQueue'[i - 1] = "monitor"
        /\ \A j \in 1..(i - 1) : lockQueue'[j] # "pause"
    <3>1. (i - 1) + 1 = i /\ i - 1 \in 1..Len(lockQueue')
      BY <1>1, <1>2, <2>3, <2>4
    <3>2. \A j \in 1..(i - 1) : j \in 1..(Len(lockQueue) - 1) /\ j + 1 \in 1..i
      BY <1>1, <1>2, <2>4
    <3> QED BY <1>1, <2>3, <2>4, <3>1, <3>2
  <2> QED BY <2>5 DEF MonitorAhead
<1>5. CASE UNCHANGED lockQueue
  BY <1>5 DEF MonitorAhead
<1> QED BY <1>3, <1>4, <1>5 DEF LockStep

LEMMA GoingBefore == [Next]_vars => (Going' => Going)
<1> SUFFICES ASSUME [Next]_vars PROVE Going' => Going
  OBVIOUS
<1>1. phase' = phase \/ phase' # "loop"
  BY DEF Next, Rollout, RollNext, Terminated, Trainer, DriverClear, GetWait, GetSample, GetEnd, Train,
     WaitValid, WaitFailed, SyncBegin, SyncEnd, LastValid, Log, trainerVars, vars
<1>2. trainerPc = "failed" => trainerPc' = "failed"
  BY DEF Next, Rollout, RollNext, Terminated, Trainer, DriverClear, GetWait, GetSample, GetEnd, Train,
     WaitValid, WaitFailed, SyncBegin, SyncEnd, LastValid, Log, trainerVars, vars
<1> QED BY <1>1, <1>2 DEF Going

LEMMA SilentOrder ==
    ASSUME lockQueue \in Seq(Coroutines), OrderInv, Going' => Going,
           NEW p \in Coroutines \ {"monitor", "pause"}, LockStep(p), UNCHANGED <<pausePc, monitorPc>>
    PROVE  OrderInv'
BY OthersKeepPause, OthersKeepAhead DEF OrderInv

LEMMA ProcessorLock == LockInv /\ Processor => LockStep("processor") /\ UNCHANGED <<pausePc, monitorPc>>
<1> SUFFICES ASSUME LockInv, Processor PROVE LockStep("processor") /\ UNCHANGED <<pausePc, monitorPc>>
  OBVIOUS
<1>1. \A n : AfterRound(n) => ReleaseAndRequest("processor") \/ Release
  BY DEF AfterRound
<1>2. ASSUME NEW item, Dispatch(item) PROVE Request("processor") \/ Suspend
  BY <1>2 DEF Dispatch, EnterDrain
<1>3. FetchPending \/ FetchCancelled => Request("processor") \/ Suspend
  BY <1>2 DEF FetchPending, FetchCancelled
<1>4. procPc = "drainWait" => Holds("processor")
  BY DEF LockInv
<1>5. \/ Request("processor") \/ Suspend
      \/ Holds("processor") /\ (Release \/ ReleaseAndGoOn("processor") \/ ReleaseAndRequest("processor"))
  BY <1>1, <1>3, <1>4 DEF Processor, ProcTop, ProcFetchWait, ProcSetPaused, ProcDrain, ProcReap, ProcIdle,
     ProcSubmit, ProcWoken
<1>6. UNCHANGED <<pausePc, monitorPc>>
  BY DEF Processor, ProcTop, ProcFetchWait, ProcSetPaused, ProcDrain, ProcReap, ProcIdle,
     ProcSubmit, ProcWoken, callVars
<1> QED BY <1>5, <1>6, LockMoves

LEMMA PauseOrder ==
    ASSUME LockInv, OrderInv, Going' => Going, Pause PROVE OrderInv'
<1>1. lockQueue \in Seq(Coroutines) /\ "pause" \in Coroutines /\ monitorPc' = monitorPc
  BY DEF LockInv, Coroutines, Pause, PauseArrive, PauseStart, PauseGathered, PauseEnd
<1>2. LockStep("pause")
  <2>1. Request("pause") \/ Suspend \/ (Holds("pause") /\ Release) \/ UNCHANGED lockQueue
    <3>1. PauseArrive => Request("pause")
      BY DEF PauseArrive
    <3>2. PauseStart => Suspend
      BY DEF PauseStart
    <3>3. PauseGathered => UNCHANGED lockQueue
      BY DEF PauseGathered, lockVars
    <3>4. PauseEnd => Holds("pause") /\ Release
      BY DEF PauseEnd, LockInv
    <3>5. PauseArrive \/ PauseStart \/ PauseGathered \/ PauseEnd
      BY DEF Pause
    <3> QED BY <3>1, <3>2, <3>3, <3>4, <3>5
  <2> QED BY <2>1, LockMoves DEF LockStep
<1>3. Copies(lockQueue', "pause") = One(pausePc' \in {"lock", "gather", "flush"})
  <2>1. CASE PauseArrive
    <3>1. Copies(lockQueue', "pause") = Copies(lockQueue, "pause") + One("pause" = "pause")
      BY <1>1, <2>1, CopiesAppend DEF PauseArrive, Request
    <3>2. Copies(lockQueue, "pause") = 0 /\ One(pausePc' \in {"lock", "gather", "flush"}) = 1 /\ One("pause" = "pause") = 1
      BY <2>1 DEF PauseArrive, OrderInv, One
    <3> QED BY <3>1, <3>2
  <2>2. CASE PauseStart \/ PauseGathered
    <3>1. lockQueue' = lockQueue /\ pausePc \in {"lock", "gather", "flush"} /\ pausePc' \in {"lock", "gather", "flush"}
      BY <2>2 DEF PauseStart, PauseGathered, Suspend, lockVars
    <3> QED BY <3>1 DEF OrderInv, One
  <2>3. CASE PauseEnd
    <3>1. Holds("pause") /\ lockQueue' = Tail(lockQueue)
      BY <2>3 DEF PauseEnd, Release, LockInv
    <3>2. lockQueue # <<>> /\ Head(lockQueue) = "pause"
      BY <3>1 DEF Holds
    <3>3. Copies(lockQueue, "pause") = Copies(Tail(lockQueue), "pause") + One("pause" = "pause")
      BY <1>1, <3>2, CopiesTail
    <3>4. Copies(lockQueue, "pause") = 1 /\ One(pausePc' \in {"lock", "gather", "flush"}) = 0 /\ One("pause" = "pause") = 1
      BY <2>3 DEF PauseEnd, OrderInv, One
    <3>5. Copies(Tail(lockQueue), "pause") \in Nat
      BY <1>1, <3>2, HeadTail, CopiesType
    <3> QED BY <3>1, <3>3, <3>4, <3>5
  <2> QED BY <2>1, <2>2, <2>3 DEF Pause
<1> QED BY <1>1, <1>2, <1>3, OthersKeepAhead DEF OrderInv

\* The monitor decides to clear the flag while the trainer is between two synchronizations.
LEMMA UnpauseUnblocked ==
    ASSUME TypeOK, RoomInv, CallInv, BatchInv, Going, ~ShouldPause
    PROVE  ~Blocked /\ trainerPc \in Fetching /\ Counted /\ pausePc = "done"
<1>1. staleness < MaxRequired
  BY Sizes DEF ShouldPause, TypeOK
<1>2. ~Blocked
  BY <1>1, Sizes DEF RoomInv, TypeOK
<1>3. trainerPc \in Fetching /\ Counted
  BY <1>2 DEF BatchInv, Going, Blocked
<1> QED BY <1>2, <1>3 DEF CallInv, Fetching

LEMMA MonitorOrder ==
    ASSUME TypeOK, RoomInv, CallInv, BatchInv, OrderInv, Going' => Going, Monitor
    PROVE  OrderInv'
<1>1. lockQueue \in Seq(Coroutines) /\ "monitor" \in Coroutines /\ pausePc' = pausePc
  BY DEF TypeOK, Coroutines, Monitor, MonitorCheck, MonitorPoll, MonitorUnpause, callVars
<1>2. LockStep("monitor")
  <2>1. \/ Request("monitor")
        \/ Holds("monitor") /\ (Release \/ ReleaseAndRequest("monitor"))
    BY DEF Monitor, MonitorCheck, MonitorPoll, MonitorUnpause
  <2> QED BY <2>1, LockMoves
<1>3. Copies(lockQueue', "pause") = Copies(lockQueue, "pause")
  BY <1>1, <1>2, OthersKeepPause
<1>4. ASSUME Going', monitorPc' = "unpause" PROVE MonitorAhead'
  <2>1. ~ShouldPause /\ lockQueue' = Append(lockQueue, "monitor")
    BY <1>4 DEF Monitor, MonitorCheck, MonitorPoll, MonitorUnpause, Request
  <2>2. pausePc = "done"
    BY <1>4, <2>1, UnpauseUnblocked
  <2>3. Copies(lockQueue, "pause") = 0
    BY <2>2 DEF OrderInv, One
  <2>4. ~In("pause", lockQueue)
    BY <1>1, <2>3, CopiesType
  <2>5. /\ Len(lockQueue) \in Nat /\ Len(lockQueue') = Len(lockQueue) + 1 /\ lockQueue'[Len(lockQueue) + 1] = "monitor"
        /\ \A j \in 1..Len(lockQueue) : lockQueue'[j] = lockQueue[j]
    BY <1>1, <2>1
  <2>6. \A j \in 1..(Len(lockQueue) + 1) : lockQueue'[j] # "pause"
    <3>1. \A j \in 1..(Len(lockQueue) + 1) : j \in 1..Len(lockQueue) \/ j = Len(lockQueue) + 1
      BY <2>5
    <3> QED BY <2>4, <2>5, <3>1 DEF In
  <2>7. Len(lockQueue) + 1 \in 1..Len(lockQueue')
    BY <2>5
  <2> QED BY <2>5, <2>6, <2>7 DEF MonitorAhead
<1> QED BY <1>1, <1>3, <1>4 DEF OrderInv

LEMMA NextOrder ==
    ASSUME TypeOK, LockInv, RoomInv, CallInv, BatchInv, OrderInv, [Next]_vars
    PROVE  OrderInv'
<1>1. lockQueue \in Seq(Coroutines) /\ {"processor", "main", "update", "resume"} \subseteq Coroutines \ {"monitor", "pause"}
      /\ (Going' => Going)
  BY GoingBefore DEF TypeOK, Coroutines
<1>2. CASE Processor
  BY <1>1, <1>2, ProcessorLock, SilentOrder
<1>3. CASE MainPutEnd \/ MainStop
  <2>1. Request("main") \/ (Holds("main") /\ Release)
    BY <1>3 DEF MainPutEnd, MainStop
  <2>2. UNCHANGED <<pausePc, monitorPc>>
    BY <1>3 DEF MainPutEnd, MainStop, callVars
  <2> QED BY <1>1, <2>1, <2>2, LockMoves, SilentOrder
<1>4. CASE Update
  <2>1. Request("update") \/ Suspend \/ (Holds("update") /\ Release)
    BY <1>4 DEF Update, UpdateArrive, UpdateStart, UpdateCount, UpdatePublish, UpdateSpawnValidation,
       LockInv
  <2>2. UNCHANGED <<pausePc, monitorPc>>
    BY <1>4 DEF Update, UpdateArrive, UpdateStart, UpdateCount, UpdatePublish, UpdateSpawnValidation,
       UpdateFrame
  <2> QED BY <1>1, <2>1, <2>2, LockMoves, SilentOrder
<1>5. CASE Resume
  <2>1. Request("resume") \/ Suspend \/ (Holds("resume") /\ Release)
    BY <1>5 DEF Resume, ResumeArrive, ResumeServers, ResumeRun
  <2>2. UNCHANGED <<pausePc, monitorPc>>
    BY <1>5 DEF Resume, ResumeArrive, ResumeServers, ResumeRun
  <2> QED BY <1>1, <2>1, <2>2, LockMoves, SilentOrder
<1>6. ASSUME NEW s \in Samples, Task(s) \/ TaskFail(s) PROVE OrderInv'
  <2>1. UNCHANGED <<lockQueue, pausePc, monitorPc>>
    BY <1>6 DEF Task, TaskStart, TaskCut, TaskGenerated, TaskPut, TaskFail, TaskFrame, lockVars, callVars
  <2> QED BY <1>1, <2>1, SilentOrder DEF LockStep
<1>7. CASE Feed \/ ValidationDone \/ Trainer \/ DriverClear \/ UNCHANGED vars
  <2>1. UNCHANGED <<lockQueue, monitorPc>> /\ (pausePc' = pausePc \/ (WaitValid /\ pausePc' = "called"))
    BY <1>7 DEF Feed, ValidationDone, UpdateFrame, Trainer, DriverClear, GetWait, GetSample, GetEnd, Train,
       WaitValid, WaitFailed, SyncBegin, SyncEnd, LastValid, Log, rollVars, lockVars, callVars, vars
  <2>2. WaitValid => pausePc = "done"
    BY DEF WaitValid, CallInv
  <2>3. (pausePc' \in {"lock", "gather", "flush"}) = (pausePc \in {"lock", "gather", "flush"})
    BY <2>1, <2>2
  <2> QED BY <1>1, <2>1, <2>3 DEF OrderInv, MonitorAhead, One
<1> QED
  BY <1>1, <1>2, <1>3, <1>4, <1>5, <1>6, <1>7, MonitorOrder, PauseOrder DEF Next, Rollout, RollNext,
     Terminated

-----------------------------------------------------------------------------
(* Nothing is cancelled: with a threshold of 0 nothing is in flight when the *)
(* servers are.                                                            *)

\* The servers are cancelled between the start of a pause and the resume that
\* ends it, and for as long as they are the rollouter stays paused and idle.
CutInv ==
    /\ serversPaused => Partial
    /\ resumePc = "servers" => ~serversPaused
    /\ Going /\ serversPaused =>
         /\ paused /\ monitorPc # "unpause" /\ Live = {}
         /\ trainerPc \in {"pausing", "transfer"} \/ resumePc # "done"
         /\ monitorTrigger => trainerPc = "pausing" /\ pausePc \in {"gather", "flush"}

\* A step of the rollouter's that is neither one of the three calls nor the monitor.
LEMMA SilentCut ==
    ASSUME CutInv, Going' => Going,
           UNCHANGED <<serversPaused, monitorTrigger, monitorPc, resumePc, pausePc, trainerPc>>,
           paused' \in {paused, TRUE},
           Going /\ serversPaused /\ paused /\ Live = {} => Live' = {}
    PROVE  CutInv'
BY DEF CutInv

LEMMA ProcessorCut ==
    ASSUME TypeOK, CutInv, Going' => Going, Processor, UNCHANGED trainerVars
    PROVE  CutInv'
<1>1. UNCHANGED <<serversPaused, monitorTrigger, monitorPc, resumePc, pausePc, trainerPc>>
      /\ paused' \in {paused, TRUE}
  BY DEF Processor, ProcTop, ProcFetchWait, ProcSetPaused, ProcDrain, ProcReap, ProcIdle, ProcSubmit,
     ProcWoken, flagVars, callVars, trainerVars
<1>2. paused => task' = task
  BY DEF Processor, ProcTop, ProcFetchWait, ProcSetPaused, ProcDrain, ProcReap, ProcIdle, ProcSubmit,
     ProcWoken, taskVars
<1>3. paused /\ Live = {} => Live' = {}
  BY <1>2 DEF Live
<1> QED BY <1>1, <1>3, SilentCut

LEMMA TasksCut ==
    ASSUME TypeOK, CutInv, Going' => Going, NEW s \in Samples, Task(s) \/ TaskFail(s), UNCHANGED trainerVars
    PROVE  CutInv'
<1>1. UNCHANGED <<paused, serversPaused, monitorTrigger, monitorPc, resumePc, pausePc, trainerPc>>
  BY DEF Task, TaskStart, TaskCut, TaskGenerated, TaskPut, TaskFail, TaskFrame, flagVars, callVars,
     trainerVars
<1>2. Live # {}
  BY DEF Task, TaskStart, TaskCut, TaskGenerated, TaskPut, TaskFail, Live
<1> QED BY <1>1, <1>2, SilentCut

LEMMA MonitorCut ==
    ASSUME TypeOK, RoomInv, CallInv, BatchInv, CutInv, Going' => Going, Monitor, UNCHANGED trainerVars
    PROVE  CutInv'
<1>1. UNCHANGED <<serversPaused, monitorTrigger, resumePc, pausePc, trainerPc, task>>
  BY DEF Monitor, MonitorCheck, MonitorPoll, MonitorUnpause, flagVars, callVars, taskVars, trainerVars
<1>2. CASE MonitorUnpause
  <2>1. ~(Going /\ serversPaused)
    BY <1>2 DEF MonitorUnpause, CutInv
  <2> QED BY <1>1, <2>1 DEF CutInv
<1>3. CASE MonitorPoll \/ MonitorCheck
  <2>1. paused' = paused
    BY <1>3 DEF MonitorPoll, MonitorCheck, flagVars
  <2>2. ASSUME Going, serversPaused PROVE monitorPc' # "unpause"
    <3>1. monitorTrigger => trainerPc \in Syncing
      BY <2>2 DEF CutInv, Syncing
    <3>2. ~ShouldPause => ~monitorTrigger
      BY <2>2, <3>1, UnpauseUnblocked DEF Fetching, Syncing
    <3> QED BY <1>3, <3>2 DEF MonitorPoll, MonitorCheck
  <2>3. Live = {} => Live' = {}
    BY <1>1 DEF Live
  <2> QED BY <1>1, <2>1, <2>2, <2>3 DEF CutInv
<1> QED BY <1>2, <1>3 DEF Monitor

LEMMA PauseCut ==
    ASSUME TypeOK, LockInv, OrderInv, RoomInv, CallInv, CutInv, Going' => Going, Pause, UNCHANGED trainerVars
    PROVE  CutInv'
<1>1. UNCHANGED <<monitorPc, resumePc, trainerPc, task, trainerVars>> /\ Live' = Live
  BY DEF Pause, PauseArrive, PauseStart, PauseGathered, PauseEnd, taskVars, trainerVars, Live
<1>2. CASE PauseStart
  <2>1. trainerPc = "pausing" /\ resumePc = "done"
    BY <1>2 DEF PauseStart, CallInv
  <2>2. Going => Live = {}
    BY <2>1, NoneOutstanding DEF RoomInv, Blocked, Syncing
  <2>3. Going => monitorPc # "unpause"
    <3>1. Head(lockQueue) = "pause" /\ lockQueue \in Seq(Coroutines) /\ lockQueue # <<>>
      BY <1>2 DEF PauseStart, Holds, LockInv
    <3>2. ~MonitorAhead
      <4>1. lockQueue[1] = "pause" /\ \A i \in 1..Len(lockQueue) : 1 \in 1..i
        BY <3>1
      <4> QED BY <4>1 DEF MonitorAhead
    <3> QED BY <3>2 DEF OrderInv
  <2>4. paused' = TRUE /\ serversPaused' = Partial /\ pausePc' = "gather" /\ monitorTrigger' = monitorTrigger
    BY <1>2 DEF PauseStart
  <2> QED BY <1>1, <2>1, <2>2, <2>3, <2>4 DEF CutInv
<1>3. CASE PauseArrive \/ PauseGathered
  <2>1. /\ UNCHANGED <<paused, serversPaused, monitorTrigger>>
        /\ pausePc \in {"gather", "flush"} => pausePc' \in {"gather", "flush"}
    BY <1>3 DEF PauseArrive, PauseGathered, flagVars
  <2> QED BY <1>1, <2>1 DEF CutInv
<1>4. CASE PauseEnd
  <2>1. UNCHANGED <<paused, serversPaused>> /\ monitorTrigger' = FALSE
    BY <1>4 DEF PauseEnd
  <2> QED BY <1>1, <2>1 DEF CutInv
<1> QED BY <1>2, <1>3, <1>4 DEF Pause

LEMMA ResumeCut ==
    ASSUME CutInv, Going' => Going, Resume, UNCHANGED trainerVars
    PROVE  CutInv'
<1>1. UNCHANGED <<monitorPc, pausePc, trainerPc, task>> /\ Live' = Live
  BY DEF Resume, ResumeArrive, ResumeServers, ResumeRun, taskVars, trainerVars, Live
<1>2. CASE ResumeArrive
  <2>1. UNCHANGED <<paused, serversPaused, monitorTrigger>> /\ resumePc' \in {"failed", "lock"}
    BY <1>2 DEF ResumeArrive, flagVars
  <2> QED BY <1>1, <2>1 DEF CutInv
<1>3. CASE ResumeServers
  BY <1>3 DEF ResumeServers, CutInv
<1>4. CASE ResumeRun
  <2>1. serversPaused' = serversPaused /\ resumePc' = "done"
    BY <1>4 DEF ResumeRun
  <2>2. ~serversPaused
    BY <1>4 DEF ResumeRun, CutInv
  <2> QED BY <2>1, <2>2 DEF CutInv
<1> QED BY <1>2, <1>3, <1>4 DEF Resume

LEMMA TrainerCut ==
    ASSUME CallInv, CutInv, Going' => Going, Trainer \/ DriverClear
    PROVE  CutInv'
<1>1. UNCHANGED <<paused, serversPaused, monitorTrigger, monitorPc, task>> /\ Live' = Live
  BY DEF Trainer, DriverClear, GetWait, GetSample, GetEnd, Train, WaitValid, WaitFailed, SyncBegin,
     SyncEnd, LastValid, Log, rollVars, flagVars, taskVars, Live
<1>2. CASE WaitValid
  <2>1. trainerPc' = "pausing" /\ resumePc' = "done" /\ resumePc = "done" /\ trainerPc = "waitValid"
    BY <1>2 DEF WaitValid, LastCallsDone
  <2> QED BY <1>1, <2>1 DEF CutInv
<1>3. CASE SyncBegin
  BY <1>1, <1>3 DEF SyncBegin, CutInv, rollVars, callVars
<1>4. CASE SyncEnd
  BY <1>1, <1>4 DEF SyncEnd, CutInv
<1>5. CASE ~(WaitValid \/ SyncBegin \/ SyncEnd)
  <2>1. UNCHANGED <<resumePc, pausePc>> /\ trainerPc \notin {"pausing", "transfer"}
    BY <1>5 DEF Trainer, DriverClear, GetWait, GetSample, GetEnd, Train, WaitFailed,
       LastValid, Log, rollVars, callVars
  <2> QED BY <1>1, <2>1 DEF CutInv
<1> QED BY <1>2, <1>3, <1>4, <1>5

LEMMA NextCut ==
    ASSUME TypeOK, LockInv, OrderInv, RoomInv, CallInv, BatchInv, CutInv, [Next]_vars
    PROVE  CutInv'
<1>1. Going' => Going
  BY GoingBefore
<1>2. CASE \/ UNCHANGED trainerVars /\ (Feed \/ MainPutEnd \/ MainStop \/ Update \/ ValidationDone)
           \/ UNCHANGED vars
  <2>1. UNCHANGED <<paused, serversPaused, monitorTrigger, monitorPc, resumePc, pausePc, trainerPc, task>>
    BY <1>2 DEF Feed, MainPutEnd, MainStop, Update, UpdateArrive, UpdateStart, UpdateCount, UpdatePublish,
       UpdateSpawnValidation, ValidationDone, UpdateFrame, flagVars, callVars, taskVars, trainerVars, rollVars, vars
  <2>2. Live' = Live
    BY <2>1 DEF Live
  <2> QED BY <1>1, <2>1, <2>2, SilentCut
<1> QED
  BY <1>1, <1>2, ProcessorCut, TasksCut, MonitorCut, PauseCut, ResumeCut, TrainerCut
  DEF Next, Rollout, RollNext, Terminated

\* The processor's task has not raised.
AliveInv == Sound => procPc # "dead"
CancelInv == Sound => cancelQueue = <<>>

LEMMA SoundBefore == TypeOK /\ [Next]_vars => (Sound' => Sound)
<1> SUFFICES ASSUME TypeOK, [Next]_vars PROVE Sound' => Sound
  OBVIOUS
<1>1. trainerPc = "failed" => trainerPc' = "failed"
  BY DEF Next, Rollout, RollNext, Terminated, Trainer, DriverClear, GetWait, GetSample, GetEnd, Train,
     WaitValid, WaitFailed, SyncBegin, SyncEnd, LastValid, Log, trainerVars, vars
<1>2. failures' = failures \/ failures' = failures + 1
  <2>1. ASSUME NEW s \in Samples, Task(s) \/ TaskFail(s)
        PROVE failures' = failures \/ failures' = failures + 1
    BY <2>1 DEF Task, TaskStart, TaskCut, TaskGenerated, TaskPut, TaskFail
  <2>2. CASE Processor \/ Pause
    BY <2>2 DEF Processor, ProcTop, ProcFetchWait, ProcSetPaused, ProcDrain, ProcReap, ProcIdle,
       ProcSubmit, ProcWoken, Pause, PauseArrive, PauseStart, PauseGathered, PauseEnd, taskVars
  <2>3. CASE \/ Feed \/ MainPutEnd \/ MainStop \/ Monitor \/ Update \/ ValidationDone \/ Resume
             \/ Trainer \/ DriverClear \/ UNCHANGED vars
    BY <2>3 DEF Feed, MainPutEnd, MainStop, Monitor, MonitorCheck, MonitorPoll, MonitorUnpause, Update,
       UpdateArrive, UpdateStart, UpdateCount, UpdatePublish, UpdateSpawnValidation, UpdateFrame,
       ValidationDone, Resume, ResumeArrive, ResumeServers, ResumeRun, Trainer, DriverClear, GetWait,
       GetSample, GetEnd, Train, WaitValid, WaitFailed, SyncBegin, SyncEnd, LastValid, Log, rollVars,
       taskVars, vars
  <2> QED BY <2>1, <2>2, <2>3 DEF Next, Rollout, RollNext, Terminated
<1>3. failures \in Nat
  BY Sizes DEF TypeOK
<1> QED BY <1>1, <1>2, <1>3 DEF Sound

\* Once the end is signalled the processor has ended, and no task is left.
LEMMA IdleAtEnd ==
    ASSUME QuitInv, EndInv, AliveInv, Sound,
           phase # "loop" \/ mainPc # "streaming" \/ Copies(queue, EndOfStream) # 0
    PROVE  procPc = "exited" /\ Live = {}
BY DEF QuitInv, EndInv, AliveInv, Quitting

LEMMA NextCancel ==
    ASSUME TypeOK, QuitInv, EndInv, AliveInv, CutInv, CancelInv, [Next]_vars
    PROVE  CancelInv'
<1> SUFFICES ASSUME Sound, cancelQueue = <<>> PROVE cancelQueue' = <<>>
  BY SoundBefore DEF CancelInv
<1>1. ASSUME NEW s \in Samples, Task(s) \/ TaskFail(s) PROVE cancelQueue' = <<>>
  <2>1. Live # {}
    BY <1>1 DEF Task, TaskStart, TaskCut, TaskGenerated, TaskPut, TaskFail, Live
  <2>2. Going
    BY <2>1, IdleAtEnd DEF Going, Sound
  <2>3. ~serversPaused
    BY <2>1, <2>2 DEF CutInv
  <2> QED BY <1>1, <2>3 DEF Task, TaskStart, TaskCut, TaskGenerated, TaskPut, TaskFail
<1>2. CASE Processor
  BY <1>2 DEF Processor, ProcTop, ProcFetchWait, ProcSetPaused, ProcDrain, ProcReap, ProcIdle,
     ProcSubmit, ProcWoken, FetchPending, FetchCancelled
<1>3. CASE Pause \/ Update \/ Resume \/ ValidationDone \/ Feed \/ MainPutEnd \/ MainStop \/ Monitor
  BY <1>3 DEF Pause, PauseArrive, PauseStart, PauseGathered, PauseEnd, Feed, MainPutEnd, MainStop, Monitor,
     MonitorCheck, MonitorPoll, MonitorUnpause, Update, UpdateArrive, UpdateStart, UpdateCount, UpdatePublish,
     UpdateSpawnValidation, UpdateFrame, ValidationDone, Resume, ResumeArrive, ResumeServers, ResumeRun
<1>4. CASE Trainer \/ DriverClear \/ UNCHANGED vars
  BY <1>4 DEF Trainer, DriverClear, GetWait, GetSample, GetEnd, Train, WaitValid, WaitFailed, SyncBegin,
     SyncEnd, LastValid, Log, rollVars, vars
<1> QED
  BY <1>1, <1>2, <1>3, <1>4 DEF Next, Rollout, RollNext, Terminated

-----------------------------------------------------------------------------
(* done_tasks is bound when it is read.                                    *)

\* From the start of training to the first round of asyncio.wait, no call of
\* pause, update or resume has got past its wait for the lock, the processor
\* does not wait on the condition, and active_tasks holds what it has submitted.
EarlyCalls ==
    /\ updatePc = "done" /\ resumePc = "done" /\ pausePc \in {"done", "called", "lock"}
    /\ ~serversPaused
    /\ trainerPc # "transfer" /\ (trainerPc = "pausing" => pausePc # "done")
EarlyLock ==
    /\ procPc \in {"top", "fetchWait", "setPaused", "drain", "drainWait", "submit"}
    /\ paused => procPc \in {"drain", "drainWait"}
    /\ procPc # "drainWait" =>
         /\ pausePc # "lock"
         /\ \/ procPc \in {"setPaused", "drain", "submit"} /\ turn = "processor" /\ lockQueue = <<"processor">>
            \/ procPc \in {"top", "fetchWait"} /\ turn = "monitor" /\ lockQueue = <<"monitor">> /\ monitorPc # "sleep"
            \/ procPc \in {"top", "fetchWait"} /\ turn \in {"loop", "processor"} /\ lockQueue = <<>>
EarlyCounts ==
    /\ procPc = "top" /\ turn # "processor" => staleness = 0
    /\ procPc \in {"top", "fetchWait", "setPaused"} => ActiveCount = staleness
    /\ procPc = "submit" => hand \in Samples /\ ActiveCount + 1 = staleness
    /\ procPc = "setPaused" => staleness > 0
    /\ procPc \in {"drain", "drainWait"} => ActiveCount > 0
Early == EarlyCalls /\ EarlyLock /\ EarlyCounts

LEMMA EarlyParts ==
    /\ Early <=> EarlyCalls /\ EarlyLock /\ EarlyCounts
    /\ Early' <=> EarlyCalls' /\ EarlyLock' /\ EarlyCounts'
BY DEF Early

ReapInv == Sound /\ phase = "loop" => reaped \/ procPc = "exited" \/ Early

LEMMA NextAlive ==
    ASSUME TypeOK, FailInv, EndInv, ReapInv, AliveInv, [Next]_vars
    PROVE  AliveInv'
<1> SUFFICES ASSUME Sound, procPc # "dead" PROVE procPc' # "dead"
  BY SoundBefore DEF AliveInv
<1>1. ~failed
  BY DEF FailInv, Sound
<1>2. CASE Processor
  <2>1. CASE ProcDrain
    <3>1. phase = "loop"
      BY <2>1 DEF ProcDrain, EndInv
    <3>2. ActiveCount = 0 => reaped
      BY <2>1, <3>1 DEF ProcDrain, ReapInv, Early, EarlyCalls, EarlyLock, EarlyCounts
    <3> QED BY <2>1, <3>2 DEF ProcDrain, AfterRound
  <2>2. CASE ProcReap
    BY <1>1, <2>2 DEF ProcReap, AfterRound
  <2>3. CASE ProcTop \/ ProcFetchWait \/ ProcSetPaused \/ ProcIdle \/ ProcSubmit \/ ProcWoken
    BY <2>3 DEF ProcTop, ProcFetchWait, ProcSetPaused, ProcIdle, ProcSubmit, ProcWoken, FetchPending,
       FetchCancelled, Dispatch, EnterDrain
  <2> QED BY <1>2, <2>1, <2>2, <2>3 DEF Processor
<1>3. CASE ~Processor
  <2>1. procPc' \in {procPc, Notified(procPc)}
    BY <1>3 DEF Next, Rollout, RollNext, Terminated, Feed, Task, TaskStart, TaskCut, TaskGenerated, TaskPut,
       TaskFail, TaskFrame, MainPutEnd, MainStop, Monitor, MonitorCheck, MonitorPoll, MonitorUnpause, Pause,
       PauseArrive, PauseStart, PauseGathered, PauseEnd, Update, UpdateArrive, UpdateStart, UpdateCount,
       UpdatePublish, UpdateSpawnValidation, UpdateFrame, ValidationDone, Resume, ResumeArrive,
       ResumeServers, ResumeRun, Trainer, DriverClear, GetWait, GetSample, GetEnd, Train, WaitValid,
       WaitFailed, SyncBegin, SyncEnd, LastValid, Log, rollVars, procVars, vars
  <2> QED BY <2>1 DEF Notified
<1> QED BY <1>2, <1>3

LEMMA NoneCalled ==
    ASSUME TypeOK, RoomInv, CallInv, Going, Early,
           procPc = "fetchWait" \/ (procPc = "top" /\ turn # "processor")
    PROVE  pausePc = "done"
<1>1. staleness < MaxRequired
  BY Sizes DEF Early, EarlyCalls, EarlyLock, EarlyCounts, RoomInv, TypeOK
<1>2. ~Blocked
  BY <1>1, Sizes DEF RoomInv, TypeOK
<1> QED BY <1>2 DEF Blocked, Syncing, CallInv

\* A reason to pause is a sample in flight.
LEMMA ReasonToPause ==
    ASSUME TypeOK, RoomInv, BatchInv, EndInv, Going, Early, procPc = "top", ShouldPause
    PROVE  staleness > 0
<1>1. staleness \in Nat /\ MaxRequired \in Nat \ {0} /\ Len(queue) \in Nat
  BY Sizes DEF TypeOK
<1>2. CASE staleness >= MaxRequired
  BY <1>1, <1>2
<1>3. CASE Len(queue) >= MaxRequired
  <2>1. Copies(queue, EndOfStream) = 0
    BY DEF EndInv
  <2>2. Outstanding \in Nat /\ Outstanding >= Len(queue)
    <3>1. Outstanding = One(hand # EndOfStream) + Flight + Ready /\ Outstanding \in Nat /\ Flight \in Nat
      BY CountTypes DEF Counts
    <3>2. One(hand # EndOfStream) \in Nat /\ Ready = Len(queue)
      BY <1>1, <2>1 DEF One, Ready
    <3> QED BY <1>1, <3>1, <3>2
  <2>3. CASE Blocked
    BY <1>1, <2>3 DEF RoomInv
  <2>4. CASE ~Blocked
    <3>1. trainerPc \in Fetching /\ Counted
      BY <2>4 DEF BatchInv, Going, Blocked
    <3>2. Used + Outstanding <= staleness /\ Used \in Nat
      BY <3>1, UsedTypes DEF RoomInv, UsedType
    <3> QED BY <1>1, <1>3, <2>2, <3>2
  <2> QED BY <2>3, <2>4
<1> QED BY <1>2, <1>3 DEF ShouldPause

LEMMA CountType == (TypeOK => ActiveCount \in Nat) /\ (TypeOK' => ActiveCount' \in Nat)
<1>1. TypeOK => Cardinality(Live) \in Nat /\ finished \in Nat
  BY LiveFinite DEF TypeOK
<1>2. TypeOK' => Cardinality(Live') \in Nat /\ finished' \in Nat
  BY LiveFiniteNext DEF TypeOK
<1>3. \A m, n \in Nat : m + n \in Nat
  OBVIOUS
<1> QED BY <1>1, <1>2, <1>3 DEF ActiveCount

LEMMA OneWaits == \A p : Tail(<<p>>) = <<>> /\ Append(<<>>, p) = <<p>>
OBVIOUS

LEMMA MaxConcurrentType == MaxConcurrent \in Nat \ {0}
BY Sizes, SizeAssumption DEF MaxConcurrent

LEMMA FetchEarly ==
    ASSUME TypeOK, TypeOK', Early, FetchPending, procPc \in {"top", "fetchWait"}, Turn("processor"),
           UNCHANGED <<taskVars, flagVars, callVars, trainerVars>>
    PROVE  procPc' = "exited" \/ Early'
<1>1. lockQueue = <<>> /\ ~paused /\ pausePc # "lock" /\ ActiveCount = staleness
  BY DEF Early, EarlyCalls, EarlyLock, EarlyCounts, Turn
<1>2. EarlyCalls'
  BY DEF Early, EarlyCalls, EarlyLock, EarlyCounts, callVars, flagVars, trainerVars
<1>3. /\ paused' = paused /\ pausePc' = pausePc
      /\ ActiveCount' = ActiveCount /\ ActiveCount \in Nat /\ staleness \in Nat /\ staleness' = staleness + 1
  BY CountType DEF flagVars, callVars, taskVars, ActiveCount, Live, FetchPending, TypeOK
<1>4. Request("processor") => lockQueue' = <<"processor">> /\ turn' = "processor"
  BY <1>1 DEF Request, GoOnIfFree
<1>5. CASE procPc' = "exited"
  BY <1>5
<1>6. CASE procPc' = "drain"
  <2>1. ActiveCount > 0 /\ Request("processor")
    BY <1>3, <1>6, MaxConcurrentType DEF FetchPending, Dispatch, EnterDrain
  <2> QED BY <1>1, <1>2, <1>3, <1>4, <1>6, <2>1, EarlyParts DEF EarlyLock, EarlyCounts
<1>7. CASE procPc' = "submit"
  <2>1. Request("processor") /\ hand' \in Samples
    BY <1>7 DEF FetchPending, Dispatch, EnterDrain, TypeOK
  <2> QED BY <1>1, <1>2, <1>3, <1>4, <1>7, <2>1, EarlyParts DEF EarlyLock, EarlyCounts
<1> QED
  BY <1>5, <1>6, <1>7 DEF FetchPending, Dispatch, EnterDrain

LEMMA SubmitEarly ==
    ASSUME TypeOK, TypeOK', PlacesInv, Early, ProcSubmit, UNCHANGED trainerVars
    PROVE  Early'
<1>1. /\ lockQueue = <<"processor">> /\ ~paused /\ pausePc # "lock" /\ hand \in Samples
      /\ ActiveCount + 1 = staleness
  BY DEF Early, EarlyCalls, EarlyLock, EarlyCounts, ProcSubmit
<1>2. EarlyCalls'
  BY DEF Early, EarlyCalls, EarlyLock, EarlyCounts, callVars, flagVars, trainerVars, ProcSubmit
<1>3. /\ task' = [task EXCEPT ![hand] = "new"] /\ procPc' = "top" /\ ReleaseAndGoOn("processor")
      /\ UNCHANGED <<paused, pausePc, finished, staleness>>
  BY <1>1 DEF ProcSubmit, flagVars, callVars
<1>4. lockQueue' = <<>> /\ turn' = "processor"
  BY <1>1, <1>3 DEF ReleaseAndGoOn
<1>5. ActiveCount' = ActiveCount + 1
  <2>1. task[hand] = "none"
    BY <1>1, OneStage DEF Exclusive
  <2>2. Live' = Live \cup {hand} /\ hand \notin Live
    <3>1. task \in [Samples -> {"none", "new", "gen", "put"}]
      BY DEF TypeOK
    <3>2. \A s \in Samples : task'[s] = IF s = hand THEN "new" ELSE task[s]
      BY <1>3, <3>1
    <3> QED BY <1>1, <2>1, <3>2 DEF Live
  <2>3. IsFiniteSet(Live) /\ Cardinality(Live) \in Nat
    BY LiveFinite
  <2>4. Cardinality(Live') = Cardinality(Live) + 1
    BY <2>2, <2>3, FS_AddElement
  <2>5. finished \in Nat
    BY DEF TypeOK
  <2> QED BY <1>3, <2>3, <2>4, <2>5 DEF ActiveCount
<1> QED BY <1>1, <1>2, <1>3, <1>4, <1>5, EarlyParts DEF EarlyLock, EarlyCounts

LEMMA ProcessorEarly ==
    ASSUME TypeOK, TypeOK', PlacesInv, RoomInv, BatchInv, EndInv, CancelInv, Sound, Going, Early,
           Processor, UNCHANGED trainerVars
    PROVE  reaped' \/ procPc' = "exited" \/ Early'
<1>1. Turn("processor")
  BY DEF Processor
<1>2. CASE ProcTop
  <2>1. lockQueue = <<>> /\ ~paused /\ pausePc # "lock" /\ ActiveCount = staleness /\ procPc = "top"
    BY <1>1, <1>2 DEF Early, EarlyCalls, EarlyLock, EarlyCounts, Turn, ProcTop
  <2>2. UNCHANGED <<taskVars, flagVars, callVars, trainerVars>>
    BY <1>2 DEF ProcTop
  <2>3. EarlyCalls'
    BY <2>2 DEF Early, EarlyCalls, EarlyLock, EarlyCounts, callVars, flagVars, trainerVars
  <2>4. UNCHANGED <<ActiveCount, paused, pausePc>>
    BY <2>2 DEF flagVars, callVars, taskVars, ActiveCount, Live
  <2>5. CASE FetchPending
    BY <1>1, <2>1, <2>2, <2>5, FetchEarly
  <2>6. CASE FetchCancelled
    BY <2>6 DEF FetchCancelled, CancelInv
  <2>7. CASE ShouldPause /\ procPc' = "setPaused" /\ Request("processor") /\ UNCHANGED staleness
    <3>1. staleness > 0
      BY <2>1, <2>7, ReasonToPause
    <3>2. lockQueue' = <<"processor">> /\ turn' = "processor"
      BY <2>1, <2>7 DEF Request, GoOnIfFree
    <3> QED BY <2>1, <2>3, <2>4, <2>7, <3>1, <3>2, EarlyParts DEF EarlyLock, EarlyCounts
  <2>8. CASE procPc' = "fetchWait" /\ Suspend /\ UNCHANGED staleness
    <3>1. lockQueue' = <<>> /\ turn' = "loop"
      BY <2>1, <2>8 DEF Suspend
    <3> QED BY <2>1, <2>3, <2>4, <2>8, <3>1, EarlyParts DEF EarlyLock, EarlyCounts
  <2> QED BY <1>2, <2>1, <2>5, <2>6, <2>7, <2>8 DEF ProcTop
<1>3. CASE ProcFetchWait
  BY <1>1, <1>3, FetchEarly DEF ProcFetchWait
<1>4. CASE ProcSetPaused
  <2>1. /\ lockQueue = <<"processor">> /\ pausePc # "lock" /\ ActiveCount = staleness /\ staleness > 0
    BY <1>4 DEF Early, EarlyCalls, EarlyLock, EarlyCounts, ProcSetPaused
  <2>2. EarlyCalls'
    BY <1>4 DEF Early, EarlyCalls, EarlyLock, EarlyCounts, callVars, trainerVars, ProcSetPaused
  <2>3. UNCHANGED <<ActiveCount, pausePc>> /\ procPc' = "drain" /\ ReleaseAndRequest("processor")
    BY <1>4, <2>1 DEF ProcSetPaused, callVars, taskVars, ActiveCount, Live
  <2>4. Tail(lockQueue) = <<>>
    BY <2>1
  <2>5. lockQueue' = <<"processor">> /\ turn' = "processor"
    BY <2>3, <2>4, OneWaits DEF ReleaseAndRequest, GoOnIfFree
  <2> QED BY <2>1, <2>2, <2>3, <2>5, EarlyParts DEF EarlyLock, EarlyCounts
<1>5. CASE ProcDrain
  <2>1. ActiveCount > 0 /\ ActiveCount \in Nat
    BY <1>5, CountType DEF Early, EarlyCalls, EarlyLock, EarlyCounts, ProcDrain
  <2>2. procPc' = "drainWait" /\ UNCHANGED <<taskVars, flagVars, callVars>>
    BY <1>5, <2>1 DEF ProcDrain
  <2>3. EarlyCalls'
    BY <2>2 DEF Early, EarlyCalls, EarlyLock, EarlyCounts, callVars, flagVars, trainerVars
  <2>4. ActiveCount' = ActiveCount
    BY <2>2 DEF taskVars, ActiveCount, Live
  <2> QED BY <2>1, <2>2, <2>3, <2>4, EarlyParts DEF EarlyLock, EarlyCounts
<1>6. CASE ProcReap
  BY <1>6 DEF ProcReap
<1>7. CASE ProcSubmit
  BY <1>7, SubmitEarly
<1>8. CASE ProcIdle \/ ProcWoken
  BY <1>8 DEF ProcIdle, ProcWoken, Early, EarlyCalls, EarlyLock, EarlyCounts
<1> QED
  BY <1>2, <1>3, <1>4, <1>5, <1>6, <1>7, <1>8 DEF Processor

LEMMA TaskEarly ==
    ASSUME TypeOK, TypeOK', Early, NEW s \in Samples, Task(s) \/ TaskFail(s), UNCHANGED trainerVars
    PROVE  Early'
<1>1. UNCHANGED <<feedVars, flagVars, staleness, lockVars, procVars, monitorPc, callVars, trainerVars>>
  BY DEF Task, TaskStart, TaskCut, TaskGenerated, TaskPut, TaskFail, TaskFrame
<1>2. ActiveCount' = ActiveCount
  <2>1. Cardinality(Live) \in Nat /\ Cardinality(Live') \in Nat /\ finished \in Nat /\ TaskTypes
    BY LiveFinite, LiveFiniteNext, TypeParts DEF TypeOK
  <2>2. CASE TaskStart(s) \/ TaskGenerated(s)
    <3>1. PICK st \in {"gen", "put"} : task' = [task EXCEPT ![s] = st]
      BY <2>2 DEF TaskStart, TaskGenerated
    <3>2. Live' = Live
      BY <2>1, <2>2, <3>1, LiveSteps DEF TaskStart, TaskGenerated
    <3> QED BY <2>2, <3>2 DEF TaskStart, TaskGenerated, ActiveCount
  <2>3. CASE TaskCut(s) \/ TaskPut(s) \/ TaskFail(s)
    <3>1. task[s] # "none" /\ task' = [task EXCEPT ![s] = "none"] /\ finished' = finished + 1
      BY <2>3 DEF TaskCut, TaskPut, TaskFail
    <3>2. Cardinality(Live') = Cardinality(Live) - 1
      BY <2>1, <3>1, LiveSteps
    <3> QED BY <2>1, <3>1, <3>2 DEF ActiveCount
  <2> QED BY <2>2, <2>3 DEF Task
<1>3. EarlyCalls'
  BY <1>1 DEF Early, EarlyCalls, EarlyLock, EarlyCounts, callVars, flagVars, trainerVars
<1>4. EarlyLock'
  BY <1>1 DEF Early, EarlyCalls, EarlyLock, EarlyCounts, lockVars, procVars, flagVars, callVars
<1>5. EarlyCounts'
  BY <1>1, <1>2 DEF Early, EarlyCalls, EarlyLock, EarlyCounts, lockVars, procVars
<1> QED BY <1>3, <1>4, <1>5, EarlyParts

LEMMA MonitorEarly ==
    ASSUME TypeOK, Early, Monitor, UNCHANGED trainerVars
    PROVE  Early'
<1>1. UNCHANGED <<callVars, taskVars, trainerVars, staleness, serversPaused, hand>> /\ paused' \in {paused, FALSE}
  BY DEF Monitor, MonitorCheck, MonitorPoll, MonitorUnpause, flagVars, procVars
<1>2. procPc' = procPc
  BY DEF Monitor, MonitorCheck, MonitorPoll, MonitorUnpause, procVars, Notified, Early, EarlyCalls,
     EarlyLock, EarlyCounts
<1>3. EarlyCalls'
  BY <1>1 DEF Early, EarlyCalls, EarlyLock, EarlyCounts, callVars, trainerVars
<1>4. UNCHANGED <<ActiveCount, pausePc>>
  BY <1>1 DEF taskVars, callVars, ActiveCount, Live
<1>5. CASE procPc = "drainWait"
  BY <1>1, <1>2, <1>3, <1>4, <1>5, EarlyParts DEF EarlyLock, EarlyCounts
<1>6. CASE procPc # "drainWait"
  <2>1. /\ procPc \in {"top", "fetchWait"} /\ ~paused /\ pausePc # "lock"
        /\ (turn = "monitor" /\ lockQueue = <<"monitor">> /\ monitorPc # "sleep") \/ (turn = "loop" /\ lockQueue = <<>>)
    BY <1>6 DEF Early, EarlyCalls, EarlyLock, EarlyCounts, Monitor, Turn
  <2>2. (turn' = "monitor" /\ lockQueue' = <<"monitor">> /\ monitorPc' # "sleep") \/ (turn' = "loop" /\ lockQueue' = <<>>)
    <3>1. CASE MonitorPoll
      <4>1. lockQueue' = Append(lockQueue, "monitor") /\ turn' = IF lockQueue = <<>> THEN "monitor" ELSE "loop"
        BY <3>1 DEF MonitorPoll, Request, GoOnIfFree
      <4>2. lockQueue = <<>>
        BY <2>1, <3>1 DEF MonitorPoll
      <4> QED BY <3>1, <4>1, <4>2, OneWaits DEF MonitorPoll
    <3>2. CASE MonitorCheck
      BY <2>1, <3>2, OneWaits DEF MonitorCheck, Release, Holds
    <3>3. CASE MonitorUnpause
      <4>1. lockQueue = <<"monitor">> /\ Tail(lockQueue) = <<>> /\ ReleaseAndRequest("monitor")
        BY <2>1, <3>3, OneWaits DEF MonitorUnpause, Holds
      <4> QED BY <3>3, <4>1, OneWaits DEF MonitorUnpause, ReleaseAndRequest, GoOnIfFree
    <3> QED BY <3>1, <3>2, <3>3 DEF Monitor
  <2>3. EarlyLock'
    <3>1. paused' => paused
      BY <1>1
    <3> QED BY <1>2, <1>4, <2>1, <2>2, <3>1 DEF EarlyLock
  <2>4. EarlyCounts'
    BY <1>1, <1>2, <1>4, <2>1 DEF Early, EarlyCounts
  <2> QED BY <1>3, <2>3, <2>4, EarlyParts
<1> QED BY <1>5, <1>6

LEMMA PauseEarly ==
    ASSUME TypeOK, LockInv, RoomInv, CallInv, Going, Early, Pause, UNCHANGED trainerVars
    PROVE  Early'
<1>1. PauseArrive /\ procPc = "drainWait"
  <2>1. CASE PauseArrive
    <3>1. turn # "processor" /\ pausePc # "done"
      BY <2>1 DEF Pause, Turn, PauseArrive
    <3>2. procPc \notin {"top", "fetchWait"}
      BY <3>1, NoneCalled
    <3> QED BY <2>1, <3>1, <3>2 DEF Early, EarlyCalls, EarlyLock, EarlyCounts
  <2>2. CASE PauseStart
    <3>1. procPc = "drainWait" /\ Holds("pause")
      BY <2>2 DEF PauseStart, Early, EarlyCalls, EarlyLock, EarlyCounts
    <3>2. Holds("processor")
      BY <3>1 DEF LockInv
    <3> QED BY <3>1, <3>2 DEF Holds
  <2>3. CASE PauseGathered \/ PauseEnd
    BY <2>3 DEF PauseGathered, PauseEnd, Early, EarlyCalls, EarlyLock, EarlyCounts
  <2> QED BY <2>1, <2>2, <2>3 DEF Pause
<1>2. pausePc' = "lock" /\ UNCHANGED <<flagVars, staleness, taskVars, procPc, updatePc, resumePc, trainerVars>>
  BY <1>1 DEF PauseArrive, procVars
<1>3. EarlyCalls'
  BY <1>2 DEF Early, EarlyCalls, EarlyLock, EarlyCounts, flagVars, trainerVars
<1>4. ActiveCount' = ActiveCount
  BY <1>2 DEF taskVars, ActiveCount, Live
<1> QED BY <1>1, <1>2, <1>3, <1>4, EarlyParts DEF EarlyLock, EarlyCounts

LEMMA OtherEarly ==
    ASSUME TypeOK, EndInv, Early, Feed \/ MainPutEnd \/ MainStop \/ Update \/ Resume \/ ValidationDone,
           UNCHANGED trainerVars
    PROVE  Early'
<1>1. CASE Feed \/ ValidationDone
  <2>1. /\ UNCHANGED <<taskVars, flagVars, staleness, lockVars, procVars, monitorPc, trainerVars>>
        /\ UNCHANGED <<pausePc, updatePc, resumePc>>
    BY <1>1 DEF Feed, ValidationDone, UpdateFrame, flagVars, callVars
  <2>2. ActiveCount' = ActiveCount
    BY <2>1 DEF taskVars, ActiveCount, Live
  <2>3. EarlyCalls'
    BY <2>1 DEF Early, EarlyCalls, EarlyLock, EarlyCounts, flagVars, trainerVars
  <2>4. EarlyLock'
    BY <2>1 DEF Early, EarlyCalls, EarlyLock, EarlyCounts, lockVars, procVars, flagVars
  <2>5. EarlyCounts'
    BY <2>1, <2>2 DEF Early, EarlyCalls, EarlyLock, EarlyCounts, lockVars, procVars
  <2> QED BY <2>3, <2>4, <2>5, EarlyParts
<1>2. CASE MainPutEnd \/ MainStop
  BY <1>2 DEF MainPutEnd, MainStop, EndInv, Early, EarlyCalls, EarlyLock, EarlyCounts
<1>3. CASE Update \/ Resume
  BY <1>3 DEF Update, UpdateArrive, UpdateStart, UpdateCount, UpdatePublish, UpdateSpawnValidation,
     Resume, ResumeArrive, ResumeServers, ResumeRun, Early, EarlyCalls, EarlyLock, EarlyCounts
<1> QED BY <1>1, <1>2, <1>3

LEMMA TrainerEarly ==
    ASSUME TypeOK, BatchInv, phase = "loop", phase' = "loop", Sound', Early, Trainer \/ DriverClear
    PROVE  Early'
<1>1. /\ UNCHANGED <<taskVars, flagVars, staleness, lockVars, procVars, monitorPc>>
      /\ UNCHANGED <<updatePc, resumePc>>
      /\ pausePc' = pausePc \/ (WaitValid /\ pausePc' = "called")
      /\ ~SyncBegin /\ ~SyncEnd
  BY DEF Early, EarlyCalls, EarlyLock, EarlyCounts, Trainer, DriverClear, GetWait, GetSample, GetEnd,
     Train, WaitValid, WaitFailed, SyncBegin, SyncEnd, LastValid, Log, rollVars, callVars
<1>2. trainerPc' # "transfer" /\ (trainerPc' = "pausing" => WaitValid)
  BY <1>1 DEF Trainer, DriverClear, GetWait, GetSample, GetEnd, Train, BeginSync, WaitValid, WaitFailed,
     LastValid, Log, trainerVars
<1>3. WaitValid => pausePc' = "called"
  BY DEF WaitValid
<1>4. EarlyCalls'
  BY <1>1, <1>2, <1>3 DEF Early, EarlyCalls, EarlyLock, EarlyCounts, flagVars
<1>5. ActiveCount' = ActiveCount
  BY <1>1 DEF taskVars, ActiveCount, Live
<1>6. EarlyLock'
  BY <1>1 DEF Early, EarlyCalls, EarlyLock, EarlyCounts, lockVars, procVars, flagVars
<1>7. EarlyCounts'
  BY <1>1, <1>5 DEF Early, EarlyCalls, EarlyLock, EarlyCounts, lockVars, procVars
<1> QED BY <1>4, <1>6, <1>7, EarlyParts

LEMMA NextReap ==
    ASSUME TypeOK, TypeOK', LockInv, PlacesInv, CallInv, BatchInv, RoomInv, EndInv, CancelInv, ReapInv, [Next]_vars
    PROVE  ReapInv'
<1> SUFFICES ASSUME Sound', phase' = "loop" PROVE (reaped \/ procPc = "exited" \/ Early)'
  BY DEF ReapInv
<1>1. Sound /\ phase = "loop" /\ Going
  <2>1. Going'
    BY DEF Sound, Going
  <2> QED BY <2>1, SoundBefore, GoingBefore DEF Going
<1>2. CASE reaped
  <2>1. reaped' \in {reaped, TRUE}
    BY DEF Next, Rollout, RollNext, Terminated, Feed, Processor, ProcTop, ProcFetchWait, ProcSetPaused,
       ProcDrain, ProcReap, ProcIdle, ProcSubmit, ProcWoken, FetchPending, FetchCancelled, Dispatch, Task,
       TaskStart, TaskCut, TaskGenerated, TaskPut, TaskFail, TaskFrame, MainPutEnd, MainStop, Monitor,
       MonitorCheck, MonitorPoll, MonitorUnpause, Pause, PauseArrive, PauseStart, PauseGathered, PauseEnd,
       Update, UpdateArrive, UpdateStart, UpdateCount, UpdatePublish, UpdateSpawnValidation, UpdateFrame,
       ValidationDone, Resume, ResumeArrive, ResumeServers, ResumeRun, Trainer, DriverClear, GetWait,
       GetSample, GetEnd, Train, WaitValid, WaitFailed, SyncBegin, SyncEnd, LastValid, Log, rollVars,
       procVars, vars
  <2> QED BY <1>2, <2>1
<1>3. CASE procPc = "exited"
  <2>1. procPc' = "exited"
    BY <1>3 DEF Next, Rollout, RollNext, Terminated, Feed, Processor, ProcTop, ProcFetchWait, ProcSetPaused,
       ProcDrain, ProcReap, ProcIdle, ProcSubmit, ProcWoken, Task,
       TaskStart, TaskCut, TaskGenerated, TaskPut, TaskFail, TaskFrame, MainPutEnd, MainStop, Monitor,
       MonitorCheck, MonitorPoll, MonitorUnpause, Notified, Pause, PauseArrive, PauseStart, PauseGathered, PauseEnd,
       Update, UpdateArrive, UpdateStart, UpdateCount, UpdatePublish, UpdateSpawnValidation, UpdateFrame,
       ValidationDone, Resume, ResumeArrive, ResumeServers, ResumeRun, Trainer, DriverClear, GetWait,
       GetSample, GetEnd, Train, WaitValid, WaitFailed, SyncBegin, SyncEnd, LastValid, Log, rollVars,
       procVars, vars
  <2> QED BY <2>1
<1>4. CASE Early
  <2>1. CASE UNCHANGED trainerVars /\ Processor
    BY <1>1, <1>4, <2>1, ProcessorEarly
  <2>2. CASE UNCHANGED trainerVars /\ \E s \in Samples : Task(s) \/ TaskFail(s)
    BY <1>4, <2>2, TaskEarly
  <2>3. CASE UNCHANGED trainerVars /\ Monitor
    BY <1>4, <2>3, MonitorEarly
  <2>4. CASE UNCHANGED trainerVars /\ Pause
    BY <1>1, <1>4, <2>4, PauseEarly
  <2>5. CASE UNCHANGED trainerVars /\ (Feed \/ MainPutEnd \/ MainStop \/ Update \/ Resume \/ ValidationDone)
    BY <1>4, <2>5, OtherEarly
  <2>6. CASE Trainer \/ DriverClear
    BY <1>1, <1>4, <2>6, TrainerEarly
  <2>7. CASE UNCHANGED vars
    <3>1. UNCHANGED <<taskVars, flagVars, staleness, lockVars, procVars, monitorPc, callVars, trainerVars>>
      BY <2>7 DEF vars, rollVars
    <3>2. ActiveCount' = ActiveCount
      BY <3>1 DEF taskVars, ActiveCount, Live
    <3>3. EarlyCalls'
      BY <1>4, <3>1 DEF Early, EarlyCalls, EarlyLock, EarlyCounts, flagVars, callVars, trainerVars
    <3>4. EarlyLock'
      BY <1>4, <3>1 DEF Early, EarlyCalls, EarlyLock, EarlyCounts, lockVars, procVars, flagVars, callVars
    <3>5. EarlyCounts'
      BY <1>4, <3>1, <3>2 DEF Early, EarlyCalls, EarlyLock, EarlyCounts, lockVars, procVars
    <3> QED BY <3>3, <3>4, <3>5, EarlyParts
  <2> QED
    BY <2>1, <2>2, <2>3, <2>4, <2>5, <2>6, <2>7 DEF Next, Rollout, RollNext, Terminated
<1> QED BY <1>1, <1>2, <1>3, <1>4 DEF ReapInv

-----------------------------------------------------------------------------
(* Every sample is somewhere.                                              *)

\* A generated sample finds room in the queue, and no end signal before it.
LEMMA TaskFits ==
    ASSUME TypeOK, BatchInv, RoomInv, EndInv, QuitInv, AliveInv, Sound, phase = "loop",
           NEW s \in Samples, task[s] # "none"
    PROVE  Copies(queue, EndOfStream) = 0 /\ ~MQ!QueueFull
<1>1. Live # {} /\ Cardinality(Live) \in Nat /\ Cardinality(Live) # 0
  BY LiveFinite, NoneLive DEF Live
<1>2. Copies(queue, EndOfStream) = 0
  BY <1>1, IdleAtEnd
<1>3. Outstanding \in Nat /\ Len(queue) \in Nat /\ Outstanding >= Len(queue) + 1
  <2>1. /\ Outstanding = One(hand # EndOfStream) + Flight + Ready /\ Outstanding \in Nat
        /\ Len(queue) \in Nat /\ Len(cancelQueue) \in Nat
    BY CountTypes DEF Counts
  <2>2. One(hand # EndOfStream) \in Nat /\ Ready = Len(queue) /\ Flight = Cardinality(Live) + Len(cancelQueue)
    BY <1>2, <2>1 DEF One, Ready, Flight
  <2> QED BY <1>1, <2>1, <2>2
<1>4. trainerPc \in Fetching /\ Counted
  <2>1. ~Blocked
    BY <1>3 DEF RoomInv, Going, Sound
  <2> QED BY <2>1 DEF BatchInv, Going, Blocked, Sound
<1>5. Used + Outstanding <= MaxRequired /\ Used \in Nat
  BY <1>4, UsedTypes DEF RoomInv, UsedType, Going, Sound
<1> QED BY <1>2, <1>3, <1>5, Sizes DEF MQ!QueueFull

\* So does the end signal.
LEMMA EndFits ==
    ASSUME TypeOK, EndInv, AliveInv, SpareInv, Sound, phase = "loop",
           mainPc = "streaming", procPc \in {"exited", "dead"}
    PROVE  Copies(queue, EndOfStream) = 0 /\ ~MQ!QueueFull
<1>1. Copies(queue, EndOfStream) = 0
  BY DEF EndInv
<1>2. Outstanding < MaxRequired
  BY DEF SpareInv, AliveInv, Going, Sound, Quitting
<1>3. Outstanding \in Nat /\ Len(queue) \in Nat /\ Outstanding >= Len(queue)
  <2>1. /\ Outstanding = One(hand # EndOfStream) + Flight + Ready /\ Outstanding \in Nat
        /\ Len(queue) \in Nat /\ Flight \in Nat
    BY CountTypes DEF Counts
  <2>2. One(hand # EndOfStream) \in Nat /\ Ready = Len(queue)
    BY <1>1, <2>1 DEF One, Ready
  <2> QED BY <2>1, <2>2
<1> QED BY <1>1, <1>2, <1>3, Sizes DEF MQ!QueueFull

LEMMA PutAppends ==
    ASSUME NEW item, MQ!PutSample(item), ~MQ!QueueFull
    PROVE  queue' = Append(queue, item)
BY DEF MQ!PutSample

\* The end of the stream is the last item in the queue.
LastInv == Sound /\ phase = "loop" => \A i \in 1..Len(queue) : queue[i] = EndOfStream => i = Len(queue)

LEMMA AppendLast ==
    ASSUME TypeOK, Copies(queue, EndOfStream) = 0, NEW item, queue' = Append(queue, item)
    PROVE  LastInv'
<1>1. queue \in Seq(Samples \cup {EndOfStream}) /\ Len(queue) \in Nat
  BY DEF TypeOK
<1>2. \A i \in 1..Len(queue) : queue[i] # EndOfStream
  BY <1>1, CopiesType DEF In
<1>3. Len(queue') = Len(queue) + 1 /\ \A i \in 1..Len(queue) : queue'[i] = queue[i]
  BY <1>1
<1>4. \A i \in 1..Len(queue') : i \in 1..Len(queue) \/ i = Len(queue')
  BY <1>1, <1>3
<1> QED BY <1>2, <1>3, <1>4 DEF LastInv

LEMMA NextLast ==
    ASSUME TypeOK, BatchInv, RoomInv, EndInv, QuitInv, AliveInv, SpareInv, LastInv, [Next]_vars
    PROVE  LastInv'
<1> SUFFICES ASSUME Sound', phase' = "loop" PROVE LastInv'
  BY DEF LastInv
<1>1. Sound /\ phase = "loop"
  <2>1. Going'
    BY DEF Sound, Going
  <2> QED BY <2>1, SoundBefore, GoingBefore DEF Going
<1>2. CASE UNCHANGED queue
  BY <1>1, <1>2 DEF LastInv
<1>3. ASSUME NEW s \in Samples, Task(s) \/ TaskFail(s), queue' # queue PROVE LastInv'
  <2>1. task[s] # "none" /\ MQ!PutSample(s)
    BY <1>3 DEF Task, TaskStart, TaskCut, TaskGenerated, TaskPut, TaskFail, queueVars
  <2> QED BY <1>1, <2>1, TaskFits, PutAppends, AppendLast
<1>4. CASE MainPutEnd
  BY <1>1, <1>4, EndFits, PutAppends, AppendLast DEF MainPutEnd
<1>5. ASSUME queue # <<>>, queue' = Tail(queue) PROVE LastInv'
  <2>1. queue \in Seq(Samples \cup {EndOfStream}) /\ Len(queue) \in Nat
    BY DEF TypeOK
  <2>2. Len(queue') = Len(queue) - 1 /\ \A i \in 1..Len(queue') : queue'[i] = queue[i + 1]
    BY <1>5, <2>1
  <2>3. \A i \in 1..Len(queue') : i + 1 \in 1..Len(queue) /\ (i + 1 = Len(queue) => i = Len(queue'))
    BY <2>1, <2>2
  <2> QED BY <1>1, <2>2, <2>3 DEF LastInv
<1>6. CASE Trainer
  <2>1. UNCHANGED queue \/ (queue # <<>> /\ queue' = Tail(queue))
    BY <1>6 DEF Trainer, GetWait, GetSample, GetEnd, Train, WaitValid, WaitFailed, SyncBegin,
       SyncEnd, LastValid, Log, queueVars, MQ!Wait, MQ!Take, MQ!UpdateParamVersion, MQ!GetValidate
  <2> QED BY <1>2, <1>5, <2>1
<1>7. CASE DriverClear
  BY <1>1, <1>7 DEF DriverClear, BatchInv, Fetching, Syncing
<1>8. CASE Feed \/ Processor \/ MainStop \/ Monitor \/ Pause \/ Update \/ ValidationDone \/ Resume \/ UNCHANGED vars
  <2>1. UNCHANGED queue
    BY <1>8 DEF Feed, Processor, ProcTop, ProcFetchWait, ProcSetPaused, ProcDrain, ProcReap, ProcIdle,
       ProcSubmit, ProcWoken, MainStop, Monitor, MonitorCheck, MonitorPoll, MonitorUnpause,
       Pause, PauseArrive, PauseStart, PauseGathered, PauseEnd, Update, UpdateArrive, UpdateStart,
       UpdateCount, UpdatePublish, UpdateSpawnValidation, ValidationDone, Resume, ResumeArrive,
       ResumeServers, ResumeRun, queueVars, vars, MQ!PutValidate
  <2> QED BY <1>2, <2>1
<1> QED
  BY <1>2, <1>3, <1>4, <1>6, <1>7, <1>8 DEF Next, Rollout, RollNext, Terminated

\* Every sample that was fed is in a queue, in flight, in the batch or trained on.
Placed(s) ==
    \/ In(s, pending) \/ In(s, cancelQueue) \/ In(s, queue) \/ In(s, batch)
    \/ hand = s \/ task[s] # "none" \/ s \in trained
KeptInv == Sound /\ phase = "loop" => \A s \in Samples : s <= fed => Placed(s)

LEMMA FeedKept ==
    ASSUME TypeOK, KeptInv, Sound, phase = "loop", Feed, UNCHANGED trainerVars
    PROVE  KeptInv'
<1> DEFINE n == Burst(fed, MaxPending - Len(pending))
           new == [i \in 1..n |-> FeedItem(fed + i)]
<1>1. n > 0 /\ fed' = fed + n /\ pending' = pending \o new
  BY DEF Feed
<1>2. fed \in Nat /\ pending \in Seq(Samples \cup {EndOfStream}) /\ Len(pending) \in Nat
  BY Sizes DEF TypeOK
<1>3. n \in Nat
  BY <1>1, <1>2, Sizes DEF Burst
<1> HIDE DEF n
<1>4. new \in Seq(Samples \cup {EndOfStream}) /\ Len(new) = n
  <2>1. \A i \in 1..n : FeedItem(fed + i) \in Samples \cup {EndOfStream}
    BY <1>2, <1>3, FeedItemType
  <2> QED BY <1>3, <2>1
<1>5. ASSUME NEW s \in Samples, s <= fed', ~(s <= fed) PROVE In(s, new)
  <2>1. s - fed \in 1..n /\ fed + (s - fed) = s /\ s <= Total
    BY <1>1, <1>2, <1>3, <1>5 DEF Samples
  <2>2. new[s - fed] = s
    BY <2>1 DEF FeedItem
  <2> QED BY <1>4, <2>1, <2>2 DEF In
<1> HIDE DEF new
<1>6. \A s : In(s, pending') <=> In(s, pending) \/ In(s, new)
  BY <1>1, <1>2, <1>4, InConcat
<1>7. UNCHANGED <<cancelQueue, queue, batch, hand, task, trained>>
  BY DEF Feed, queueVars, taskVars, procVars, trainerVars
<1>8. \A s \in Samples : s <= fed => Placed(s)
  BY DEF KeptInv
<1>9. \A s \in Samples : s <= fed' => Placed(s)'
  BY <1>5, <1>6, <1>7, <1>8 DEF Placed
<1> QED BY <1>9 DEF KeptInv

\* A step that feeds nothing loses nothing if what leaves a place enters another.
LEMMA KeptStep ==
    ASSUME KeptInv, Sound, phase = "loop", fed' = fed, \A s \in Samples : Placed(s) => Placed(s)'
    PROVE  KeptInv'
BY DEF KeptInv

LEMMA ProcessorKept ==
    ASSUME TypeOK, TypeOK', HandInv, Processor, UNCHANGED trainerVars
    PROVE  fed' = fed /\ \A s \in Samples : Placed(s) => Placed(s)'
<1>1. UNCHANGED <<fed, queue, batch, trained>>
  <2>1. FetchPending \/ FetchCancelled => fed' = fed
    BY DEF FetchPending, FetchCancelled, feedVars
  <2>2. fed' = fed
    BY <2>1 DEF Processor, ProcTop, ProcFetchWait, ProcSetPaused, ProcDrain, ProcReap, ProcIdle, ProcSubmit,
       ProcWoken, feedVars
  <2>3. UNCHANGED queueVars
    BY DEF Processor, ProcTop, ProcFetchWait, ProcSetPaused, ProcDrain, ProcReap, ProcIdle, ProcSubmit,
       ProcWoken
  <2> QED BY <2>2, <2>3 DEF queueVars, trainerVars
<1>2. pending \in Seq(Samples \cup {EndOfStream}) /\ cancelQueue \in Seq(Samples)
  BY DEF TypeOK
<1>3. CASE procPc \in {"top", "fetchWait"} /\ (FetchPending \/ FetchCancelled)
  <2>1. hand = EndOfStream /\ task' = task
    BY <1>3 DEF HandInv, Processor, ProcTop, ProcFetchWait, ProcSetPaused, ProcDrain, ProcReap, ProcIdle,
       ProcSubmit, ProcWoken, taskVars
  <2>2. \A s \in Samples : s # hand
    BY <2>1 DEF Samples, EndOfStream
  <2>3. CASE FetchPending
    <3>1. pending # <<>> /\ hand' = Head(pending) /\ pending' = Tail(pending) /\ cancelQueue' = cancelQueue
      BY <2>3 DEF FetchPending, Dispatch
    <3>2. \A s : In(s, pending) <=> s = hand' \/ In(s, pending')
      BY <1>2, <3>1, InHeadTail
    <3> QED BY <1>1, <2>1, <2>2, <3>1, <3>2 DEF Placed
  <2>4. CASE FetchCancelled
    <3>1. cancelQueue # <<>> /\ hand' = Head(cancelQueue) /\ cancelQueue' = Tail(cancelQueue) /\ pending' = pending
      BY <2>4 DEF FetchCancelled, Dispatch, feedVars
    <3>2. \A s : In(s, cancelQueue) <=> s = hand' \/ In(s, cancelQueue')
      BY <1>2, <3>1, InHeadTail
    <3> QED BY <1>1, <2>1, <2>2, <3>1, <3>2 DEF Placed
  <2> QED BY <1>3, <2>3, <2>4
<1>4. CASE ProcSubmit /\ ~paused
  <2>1. task' = [task EXCEPT ![hand] = "new"] /\ UNCHANGED <<pending, cancelQueue>>
    BY <1>4 DEF ProcSubmit, feedVars
  <2>2. task \in [Samples -> {"none", "new", "gen", "put"}]
    BY DEF TypeOK
  <2>3. \A s \in Samples : task'[s] = IF s = hand THEN "new" ELSE task[s]
    BY <2>1, <2>2
  <2> QED BY <1>1, <2>1, <2>3 DEF Placed
<1>5. CASE UNCHANGED <<pending, cancelQueue, hand, task>>
  BY <1>1, <1>5 DEF Placed
<1>6. \/ procPc \in {"top", "fetchWait"} /\ (FetchPending \/ FetchCancelled)
      \/ ProcSubmit /\ ~paused
      \/ UNCHANGED <<pending, cancelQueue, hand, task>>
  BY DEF Processor, ProcTop, ProcFetchWait, ProcSetPaused, ProcDrain, ProcReap, ProcIdle, ProcSubmit,
     ProcWoken, feedVars, taskVars
<1> QED BY <1>1, <1>3, <1>4, <1>5, <1>6

LEMMA TaskKept ==
    ASSUME TypeOK, BatchInv, RoomInv, EndInv, QuitInv, AliveInv, Sound, Sound', phase = "loop",
           NEW t \in Samples, Task(t) \/ TaskFail(t), UNCHANGED trainerVars
    PROVE  fed' = fed /\ \A s \in Samples : Placed(s) => Placed(s)'
<1>1. UNCHANGED <<fed, pending, hand, batch, trained>>
  BY DEF Task, TaskStart, TaskCut, TaskGenerated, TaskPut, TaskFail, TaskFrame, feedVars, procVars,
     trainerVars
<1>2. task \in [Samples -> {"none", "new", "gen", "put"}] /\ cancelQueue \in Seq(Samples)
      /\ queue \in Seq(Samples \cup {EndOfStream}) /\ failures \in Nat
  BY Sizes DEF TypeOK
<1>3. CASE TaskStart(t) \/ TaskGenerated(t)
  <2>1. UNCHANGED <<cancelQueue, queue>> /\ \A s \in Samples : task'[s] # "none" <=> task[s] # "none"
    BY <1>2, <1>3 DEF TaskStart, TaskGenerated, queueVars
  <2> QED BY <1>1, <2>1 DEF Placed
<1>4. CASE TaskCut(t)
  <2>1. queue' = queue /\ \A s \in Samples : s # t => task'[s] = task[s]
    BY <1>2, <1>4 DEF TaskCut, queueVars
  <2>2. \A s : In(s, cancelQueue') <=> In(s, cancelQueue) \/ s = t
    BY <1>2, <1>4, InAppended DEF TaskCut
  <2> QED BY <1>1, <2>1, <2>2 DEF Placed
<1>5. CASE TaskPut(t)
  <2>1. cancelQueue' = cancelQueue /\ (\A s \in Samples : s # t => task'[s] = task[s]) /\ task[t] # "none"
    BY <1>2, <1>5 DEF TaskPut
  <2>2. queue' = Append(queue, t)
    BY <1>5, <2>1, TaskFits, PutAppends DEF TaskPut
  <2>3. \A s : In(s, queue') <=> In(s, queue) \/ s = t
    BY <1>2, <2>2, InAppended
  <2> QED BY <1>1, <2>1, <2>3 DEF Placed
<1>6. CASE TaskFail(t)
  BY <1>2, <1>6 DEF TaskFail, Sound
<1> QED BY <1>1, <1>3, <1>4, <1>5, <1>6 DEF Task

LEMMA TrainerKept ==
    ASSUME TypeOK, BatchInv, phase = "loop", phase' = "loop", Trainer \/ DriverClear
    PROVE  fed' = fed /\ \A s \in Samples : Placed(s) => Placed(s)'
<1>1. UNCHANGED <<fed, pending, cancelQueue, hand, task>>
  BY DEF Trainer, DriverClear, GetWait, GetSample, GetEnd, Train, WaitValid, WaitFailed, SyncBegin,
     SyncEnd, LastValid, Log, rollVars, taskVars, procVars, feedVars
<1>2. batch \in Seq(Samples) /\ queue \in Seq(Samples \cup {EndOfStream})
  BY DEF TypeOK
<1>3. CASE GetSample
  <2>1. /\ queue # <<>> /\ queue' = Tail(queue) /\ Head(queue) # EndOfStream
        /\ batch' = Append(batch, Head(queue)) /\ trained' = trained
    BY <1>3 DEF GetSample, MQ!Take
  <2>2. Head(queue) \in Samples
    BY <1>2, <2>1, HeadTail
  <2>3. \A s : In(s, queue) <=> s = Head(queue) \/ In(s, queue')
    BY <1>2, <2>1, InHeadTail
  <2>4. \A s : In(s, batch') <=> In(s, batch) \/ s = Head(queue)
    BY <1>2, <2>1, <2>2, InAppended
  <2> QED BY <1>1, <2>1, <2>3, <2>4 DEF Placed
<1>4. CASE Train
  <2>1. queue' = queue /\ trained' = trained \cup {batch[i] : i \in 1..Len(batch)}
    BY <1>4 DEF Train, queueVars
  <2>2. \A s : In(s, batch) => s \in trained'
    BY <2>1 DEF In
  <2>3. trained \subseteq trained'
    BY <2>1
  <2> QED BY <1>1, <2>1, <2>2, <2>3 DEF Placed
<1>5. CASE GetEnd
  BY <1>5 DEF GetEnd
<1>6. CASE DriverClear
  BY <1>6 DEF DriverClear, BatchInv, Fetching, Syncing
<1>7. CASE GetWait \/ WaitValid \/ WaitFailed \/ SyncBegin \/ SyncEnd \/ LastValid \/ Log
  <2>1. UNCHANGED <<queue, batch, trained>>
    BY <1>7 DEF GetWait, WaitValid, WaitFailed, SyncBegin, SyncEnd, LastValid, Log, queueVars, trainerVars,
       MQ!Wait, MQ!UpdateParamVersion, MQ!GetValidate
  <2> QED BY <1>1, <2>1 DEF Placed
<1> QED BY <1>3, <1>4, <1>5, <1>6, <1>7 DEF Trainer

LEMMA MainKept ==
    ASSUME TypeOK, EndInv, AliveInv, SpareInv, Sound, phase = "loop", MainPutEnd, UNCHANGED trainerVars
    PROVE  fed' = fed /\ \A s \in Samples : Placed(s) => Placed(s)'
<1>1. UNCHANGED <<fed, pending, cancelQueue, hand, task, batch, trained>>
  BY DEF MainPutEnd, feedVars, taskVars, procVars, trainerVars
<1>2. queue' = Append(queue, EndOfStream)
  BY EndFits, PutAppends DEF MainPutEnd
<1>3. queue \in Seq(Samples \cup {EndOfStream})
  BY DEF TypeOK
<1>4. \A s : In(s, queue') <=> In(s, queue) \/ s = EndOfStream
  BY <1>2, <1>3, InAppended
<1> QED BY <1>1, <1>4 DEF Placed

LEMMA NextKept ==
    ASSUME TypeOK, TypeOK', BatchInv, RoomInv, EndInv, QuitInv, AliveInv, SpareInv, HandInv, KeptInv, [Next]_vars
    PROVE  KeptInv'
<1> SUFFICES ASSUME Sound', phase' = "loop" PROVE KeptInv'
  BY DEF KeptInv
<1>1. Sound /\ phase = "loop"
  <2>1. Going'
    BY DEF Sound, Going
  <2> QED BY <2>1, SoundBefore, GoingBefore DEF Going
<1>2. CASE UNCHANGED trainerVars /\ Processor
  BY <1>1, <1>2, ProcessorKept, KeptStep
<1>3. CASE UNCHANGED trainerVars /\ \E s \in Samples : Task(s) \/ TaskFail(s)
  BY <1>1, <1>3, TaskKept, KeptStep
<1>4. CASE Trainer \/ DriverClear
  BY <1>1, <1>4, TrainerKept, KeptStep
<1>5. CASE UNCHANGED trainerVars /\ MainPutEnd
  BY <1>1, <1>5, MainKept, KeptStep
<1>6. CASE UNCHANGED trainerVars /\ Feed
  BY <1>1, <1>6, FeedKept
<1>7. CASE \/ UNCHANGED trainerVars /\ (MainStop \/ Monitor \/ Pause \/ Update \/ ValidationDone \/ Resume)
           \/ UNCHANGED vars
  <2>1. UNCHANGED <<fed, pending, cancelQueue, hand, task, queue, batch, trained>>
    BY <1>7 DEF MainStop, Monitor, MonitorCheck, MonitorPoll, MonitorUnpause,
       Pause, PauseArrive, PauseStart, PauseGathered, PauseEnd, Update, UpdateArrive, UpdateStart,
       UpdateCount, UpdatePublish, UpdateSpawnValidation, UpdateFrame, ValidationDone, Resume, ResumeArrive,
       ResumeServers, ResumeRun, queueVars, feedVars, taskVars, procVars, trainerVars, rollVars, vars,
       MQ!PutValidate
  <2>2. \A s \in Samples : Placed(s) => Placed(s)'
    BY <2>1 DEF Placed
  <2> QED BY <1>1, <2>1, <2>2, KeptStep
<1> QED
  BY <1>2, <1>3, <1>4, <1>5, <1>6, <1>7 DEF Next, Rollout, RollNext, Terminated

\* Whole batches are trained on, and the last of them when the loop ends.
SumInv ==
    /\ \E k \in Nat : Cardinality(trained) = k * Required
    /\ Sound /\ phase # "loop" => Cardinality(trained) = Total - (Total % Required)

LEMMA Remainder ==
    ASSUME NEW k \in Nat, NEW r \in Nat \ {0}, NEW l \in Nat, l < r
    PROVE  (k * r + l) % r = l
OBVIOUS

LEMMA TrainedFinite == TypeOK => IsFiniteSet(trained) /\ Cardinality(trained) \in Nat
<1> SUFFICES ASSUME TypeOK PROVE IsFiniteSet(trained) /\ Cardinality(trained) \in Nat
  OBVIOUS
<1>1. trained \in SUBSET Samples /\ IsFiniteSet(Samples)
  BY Sizes, IntervalSize DEF TypeOK, Samples
<1>2. IsFiniteSet(trained)
  BY <1>1, FS_Subset
<1> QED BY <1>2, FS_CardinalityType

LEMMA TrainSum ==
    ASSUME TypeOK, PlacesInv, BatchInv, SumInv, Train
    PROVE  SumInv'
<1>1. PICK B : /\ B = {batch[i] : i \in 1..Len(batch)}
               /\ IsFiniteSet(B) /\ Cardinality(B) = Len(batch) /\ B \cap trained = {}
  BY BatchSamples
<1>2. Len(batch) = Required /\ phase' = "loop" /\ trained' = trained \cup B
  BY <1>1 DEF Train, BatchInv
<1>3. IsFiniteSet(trained) /\ Cardinality(trained) \in Nat
  BY TrainedFinite
<1>4. Cardinality(trained') = Cardinality(trained) + Required
  <2>1. trained \cap B = {} /\ Cardinality({}) = 0
    BY <1>1, FS_EmptySet
  <2>2. Cardinality(trained \cup B) = Cardinality(trained) + Cardinality(B) - Cardinality(trained \cap B)
    BY <1>1, <1>3, FS_Union
  <2>3. Cardinality(trained') = Cardinality(trained \cup B) /\ Cardinality(trained \cap B) = 0
    BY <1>2, <2>1
  <2>4. Cardinality(B) = Required
    BY <1>1, <1>2
  <2> QED BY <1>3, <2>2, <2>3, <2>4, Sizes
<1>5. PICK k \in Nat : Cardinality(trained) = k * Required
  BY DEF SumInv
<1>6. k + 1 \in Nat /\ Cardinality(trained') = (k + 1) * Required
  BY <1>4, <1>5, Sizes
<1> QED BY <1>2, <1>6 DEF SumInv

\* When the trainer meets the end of the stream, what it has not trained on is in
\* the unfinished batch.
LEMMA EndSum ==
    ASSUME TypeOK, PlacesInv, BatchInv, EndInv, QuitInv, AliveInv, CancelInv, LastInv, KeptInv, SumInv,
           Sound, GetEnd
    PROVE  Cardinality(trained) = Total - (Total % Required)
<1>1. PICK B : /\ B = {batch[i] : i \in 1..Len(batch)} /\ B \in SUBSET Samples
               /\ \A s : s \in B <=> In(s, batch)
               /\ IsFiniteSet(B) /\ Cardinality(B) = Len(batch) /\ B \cap trained = {}
  BY BatchSamples
<1>2. phase = "loop" /\ Len(batch) < Required /\ Len(batch) \in Nat
  BY DEF GetEnd, BatchInv, TypeOK
<1>3. queue # <<>> /\ Head(queue) = EndOfStream /\ queue \in Seq(Samples \cup {EndOfStream})
  BY DEF GetEnd, MQ!Take, TypeOK
<1>4. Len(queue) = 1
  <2>1. queue[1] = EndOfStream /\ 1 \in 1..Len(queue)
    BY <1>3
  <2> QED BY <1>2, <2>1 DEF LastInv
<1>5. procPc = "exited" /\ Live = {}
  <2>1. Copies(queue, EndOfStream) # 0
    <3>1. In(EndOfStream, queue)
      BY <1>3, <1>4 DEF In
    <3> QED BY <1>3, <3>1, CopiesType
  <2> QED BY <2>1, IdleAtEnd
<1>6. hand = EndOfStream /\ pending = <<>> /\ fed = Total + 1 /\ cancelQueue = <<>>
  BY <1>5 DEF QuitInv, Quitting, CancelInv
<1>7. Samples \subseteq trained \cup B
  <2> SUFFICES ASSUME NEW s \in Samples PROVE s \in trained \cup B
    OBVIOUS
  <2>1. Placed(s)
    <3>1. s <= fed
      BY <1>6, Sizes DEF Samples
    <3> QED BY <1>2, <3>1 DEF KeptInv
  <2>2. s # EndOfStream
    BY DEF Samples, EndOfStream
  <2>3. ~In(s, pending) /\ ~In(s, cancelQueue)
    BY <1>6 DEF In
  <2>4. ~In(s, queue)
    <3>1. \A i \in 1..Len(queue) : queue[i] = EndOfStream
      BY <1>3, <1>4
    <3> QED BY <2>2, <3>1 DEF In
  <2>5. task[s] = "none"
    BY <1>5 DEF Live
  <2> QED BY <1>1, <1>6, <2>1, <2>2, <2>3, <2>4, <2>5 DEF Placed
<1>8. trained \cup B = Samples /\ trained \cap B = {}
  BY <1>1, <1>7 DEF TypeOK
<1>9. Cardinality(trained) + Len(batch) = Total
  <2>1. Cardinality(Samples) = Total
    BY Sizes, IntervalSize DEF Samples
  <2>2. Cardinality({}) = 0 /\ IsFiniteSet(trained) /\ Cardinality(trained) \in Nat
    BY TrainedFinite, FS_EmptySet
  <2>3. Cardinality(trained \cup B) = Cardinality(trained) + Cardinality(B) - Cardinality(trained \cap B)
    BY <1>1, <2>2, FS_Union
  <2>4. Cardinality(trained \cup B) = Total /\ Cardinality(trained \cap B) = 0
    BY <1>8, <2>1, <2>2
  <2>5. Cardinality(B) = Len(batch)
    BY <1>1
  <2> QED BY <1>2, <2>2, <2>3, <2>4, <2>5
<1>10. PICK k \in Nat : Cardinality(trained) = k * Required
  BY DEF SumInv
<1>11. (k * Required + Len(batch)) % Required = Len(batch)
  BY <1>2, Sizes, Remainder
<1>12. Total % Required = Len(batch)
  BY <1>9, <1>10, <1>11
<1> QED
  <2>1. Cardinality(trained) \in Nat
    BY TrainedFinite
  <2> QED BY <1>2, <1>9, <1>12, <2>1

LEMMA NextSum ==
    ASSUME TypeOK, PlacesInv, BatchInv, EndInv, QuitInv, AliveInv, CancelInv, LastInv, KeptInv, SumInv,
           [Next]_vars
    PROVE  SumInv'
<1>1. CASE Train
  BY <1>1, TrainSum
<1>2. CASE ~Train
  <2>1. trained' = trained
    BY <1>2 DEF Next, Rollout, RollNext, Terminated, Trainer, DriverClear, GetWait, GetSample, GetEnd,
       WaitValid, WaitFailed, SyncBegin, SyncEnd, LastValid, Log, trainerVars, vars
  <2>2. ASSUME Sound', phase' # "loop" PROVE Cardinality(trained) = Total - (Total % Required)
    <3>1. Sound
      BY <2>2, SoundBefore
    <3>2. phase # "loop" \/ GetEnd
      BY <1>2, <2>2 DEF Next, Rollout, RollNext, Terminated, Trainer, DriverClear, GetWait, GetSample,
         WaitValid, WaitFailed, SyncBegin, SyncEnd, LastValid, Log, trainerVars, vars
    <3> QED BY <3>1, <3>2, EndSum DEF SumInv
  <2> QED BY <2>1, <2>2 DEF SumInv
<1> QED BY <1>1, <1>2

-----------------------------------------------------------------------------
\* The inductive invariant behind NothingLost.
LostParts ==
    /\ PlacesInv /\ CallInv /\ BatchInv /\ EndInv /\ RoomInv /\ HandInv /\ CoverInv
    /\ FailInv /\ PendingInv /\ QuitInv /\ SpareInv /\ OrderInv /\ CutInv
    /\ CancelInv /\ ReapInv /\ AliveInv /\ LastInv /\ KeptInv /\ SumInv

LEMMA InitLost == Init => TypeInv /\ LostParts
<1> SUFFICES ASSUME Init PROVE TypeInv /\ LostParts
  OBVIOUS
<1>1. /\ TypeInv /\ PlacesInv /\ CallInv /\ BatchInv /\ EndInv /\ RoomInv /\ CoverInv
      /\ HandInv
  BY InitType, InitQuiesce, InitPlaces, InitLag, InitEnd, InitRoom, InitCovers, PipelineInit
  DEF TypeInv, PipelineParts
<1>2. FailInv /\ QuitInv /\ SpareInv /\ CancelInv /\ AliveInv /\ CutInv
  BY DEF Init, RollInit, FailInv, QuitInv, SpareInv, CancelInv, AliveInv, CutInv, Quitting
<1>3. /\ fed = FirstBurst /\ pending = [i \in 1..FirstBurst |-> FeedItem(i)] /\ queue = <<>>
      /\ FirstBurst \in Nat
  BY <1>1, Sizes DEF Init, RollInit, TypeInv, TypeOK
<1>4. Len(pending) = FirstBurst /\ \A i \in 1..FirstBurst : pending[i] = FeedItem(i)
  BY <1>3
<1>5. PendingInv
  BY <1>3, <1>4 DEF PendingInv
<1>6. KeptInv
  <2>1. ASSUME NEW s \in Samples, s <= fed PROVE In(s, pending)
    <3>1. s \in 1..FirstBurst /\ FeedItem(s) = s
      BY <1>3, <2>1 DEF Samples, FeedItem
    <3> QED BY <1>4, <3>1 DEF In
  <2> QED BY <2>1 DEF KeptInv, Placed
<1>7. LastInv
  BY <1>3 DEF LastInv
<1>8. OrderInv
  <2>1. Copies(lockQueue, "pause") = 0
    BY CopiesEmpty DEF Init, RollInit
  <2> QED BY <2>1 DEF OrderInv, One, Init, RollInit
<1>9. ReapInv
  <2>1. ActiveCount = 0
    <3>1. Live = {} /\ finished = 0
      BY DEF Init, RollInit, Live
    <3>2. Cardinality(Live) = 0
      BY <3>1, FS_EmptySet
    <3> QED BY <3>1, <3>2 DEF ActiveCount
  <2> QED BY <2>1 DEF ReapInv, Early, EarlyCalls, EarlyLock, EarlyCounts, Init, RollInit
<1>10. SumInv
  <2>1. Cardinality(trained) = 0 * Required /\ phase = "loop"
    BY FS_EmptySet, Sizes DEF Init
  <2> QED BY <2>1 DEF SumInv
<1> QED BY <1>1, <1>2, <1>5, <1>6, <1>7, <1>8, <1>9, <1>10 DEF LostParts

LEMMA NextLost ==
    ASSUME TypeInv, LostParts, [Next]_vars, ThetaNum = 0
    PROVE  TypeInv' /\ LostParts'
<1>1. TypeInv' /\ TypeOK /\ TypeOK' /\ LockInv
  BY NextTypes DEF TypeInv, QuiesceInv
<1>2. PlacesInv' /\ CallInv' /\ BatchInv' /\ EndInv' /\ RoomInv' /\ CoverInv'
  BY <1>1, NextPlaces, NextCalls, NextBatch, NextEnd, NextRoom, NextCovers DEF LostParts
<1>3. HandInv'
  BY <1>1, NextHand DEF LostParts, CoverInv
<1>4. FailInv' /\ PendingInv' /\ QuitInv' /\ SpareInv'
  BY <1>1, NextFail, NextPending, NextQuit, NextSpare DEF LostParts
<1>5. OrderInv' /\ CutInv' /\ CancelInv'
  BY <1>1, NextOrder, NextCut, NextCancel DEF LostParts
<1>6. ReapInv' /\ AliveInv'
  BY <1>1, NextReap, NextAlive DEF LostParts
<1>7. LastInv' /\ KeptInv' /\ SumInv'
  BY <1>1, NextLast, NextKept, NextSum DEF LostParts
<1> QED BY <1>1, <1>2, <1>3, <1>4, <1>5, <1>6, <1>7 DEF LostParts

\* Synchronous training loses nothing, for all sizes and both modes of rollout:
\* whatever the order of the pauses, the drops a full queue would make and the
\* end of the stream, every sample that fills a batch is trained on.
THEOREM SynchronousLosesNothing ==
    ASSUME ThetaNum = 0
    PROVE  Spec => []NothingLost
<1>1. TypeInv /\ LostParts /\ [Next]_vars => TypeInv' /\ LostParts'
  BY NextLost
<1>2. LostParts => NothingLost
  <2> SUFFICES ASSUME LostParts, trainerPc = "cleared", failures = 0
               PROVE  Cardinality(trained) = Total - (Total % Required)
    BY DEF NothingLost
  <2>1. Sound /\ phase # "loop"
    BY DEF Sound, LostParts, BatchInv, Fetching, Syncing
  <2> QED BY <2>1 DEF LostParts, SumInv
<1> QED BY InitLost, <1>1, <1>2, PTL DEF Spec
=============================================================================
