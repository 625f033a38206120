----------------------------- MODULE Rollouter -----------------------------
(***************************************************************************)
(* FullyAsyncRollouter (experimental/fully_async_policy/                   *)
(* fully_async_rollouter.py): an asyncio actor whose coroutines feed       *)
(* samples, dispatch them to generation tasks, watch the queue, and serve  *)
(* the calls pause, update_param_version and resume that the parameter     *)
(* synchronizer makes around every weight transfer.                        *)
(*                                                                         *)
(* Grain: a coroutine runs alone until it suspends.  self.lock is the FIFO *)
(* lockQueue, whose head is the holder; a coroutine that reaches           *)
(* "async with self.lock" appends itself.  A free lock is granted without  *)
(* a suspension, so turn keeps every other coroutine out until the one     *)
(* named there suspends; "loop" means that any of them may run.  A wait on *)
(* self.condition leaves the queue and re-enters it when woken.            *)
(*                                                                         *)
(* A sample is the number feed_samples gives it, 1..Total.  The remote     *)
(* call put_sample and the end of its task are one step.  Statistics that  *)
(* only feed metrics are left out.                                         *)
(***************************************************************************)
EXTENDS Naturals, Sequences, FiniteSets

CONSTANTS
    Total,             \* total_rollout_steps: samples fed before "DONE"
    Required,          \* required_samples: samples per training step
    Trigger,           \* trigger_parameter_sync_step
    ThetaNum,          \* staleness_threshold is the fraction
    ThetaDen,          \*    ThetaNum / ThetaDen
    Slots,             \* 16 * the number of rollout servers
    MaxPending,        \* maxsize of pending_queue
    Partial,           \* partial_rollout
    ParallelValidate,  \* parallel_validate_and_rollout
    TestFreq,          \* rollout.test_freq
    MaxFailures        \* bound on the generation calls that raise

ASSUME SizeAssumption ==
    /\ {Total, Required, Trigger, ThetaDen, Slots, MaxPending, TestFreq} \subseteq Nat \ {0}
    /\ {ThetaNum, MaxFailures} \subseteq Nat
ASSUME ModeAssumption == {Partial, ParallelValidate} \subseteq BOOLEAN

Samples == 1..Total

\* "DONE" in the pending queue and None in the message queue.
EndOfStream == 0

\* set_max_required_samples, which also sizes the message queue.
MaxRequired == (Required * (ThetaDen + ThetaNum) * Trigger) \div ThetaDen
MaxConcurrent == IF Slots <= MaxRequired THEN Slots ELSE MaxRequired

ASSUME MaxRequiredAssumption == MaxRequired \in Nat \ {0}

VARIABLES
    \* the message queue actor
    queue, valQueue, mqRunning, mqVersion,
    totalProduced, totalConsumed, droppedSamples, getState,
    \* data of the rollouter
    fed,              \* samples feed_samples has put; Total + 1 after "DONE"
    pending,          \* pending_queue
    cancelQueue,      \* cancel_queue
    task,             \* where each sample's generation task stands
    stamp,            \* rollout_sample.param_version
    finished,         \* how many tasks in active_tasks have ended
    failed,           \* one of those ended with an exception
    failures,         \* how many generation calls have raised
    paused,           \* self.paused
    monitorTrigger,   \* self.monitor_loop_trigger
    running,          \* self.running
    serversPaused,    \* the inference servers are between cancel and resume
    version,          \* self.current_param_version
    staleness,        \* self.staleness_samples
    \* control of the rollouter's coroutines
    lockQueue,        \* self.lock: holder first, then the waiters in order
    turn,             \* the coroutine whose segment goes on, or "loop"
    procPc,           \* _processor_worker
    hand,             \* the sample the processor has fetched and not submitted
    drainFor,         \* which of its three loops reaps active tasks
    reaped,           \* done_tasks is bound: some asyncio.wait has returned
    mainPc,           \* _streaming_generation_main
    monitorPc,        \* _async_monitor_loop
    pausePc, updatePc, resumePc,  \* the three remote calls
    updateArg,        \* the arguments of update_param_version
    snapshot,         \* its count of active and cancelled samples
    validating        \* versions do_validate_async is working on

MQ == INSTANCE MessageQueue WITH
        Items <- Samples \cup {EndOfStream}, Consumers <- {"trainer"},
        MaxQueueSize <- MaxRequired, MaxPuts <- 0, MaxVersion <- 0

queueVars == <<queue, valQueue, mqRunning, mqVersion,
               totalProduced, totalConsumed, droppedSamples, getState>>
feedVars == <<fed, pending>>
lockVars == <<lockQueue, turn>>
taskVars == <<task, stamp, finished, failed, failures>>
flagVars == <<paused, monitorTrigger, running, serversPaused, version>>
procVars == <<procPc, hand, drainFor, reaped>>
callVars == <<pausePc, updatePc, resumePc, updateArg, snapshot, validating>>
rollVars == <<feedVars, cancelQueue, taskVars, flagVars, staleness, lockVars,
              procVars, mainPc, monitorPc, callVars>>

\* Mutant of Burst: feed_samples does not stop at total_rollout_steps.
BurstEndless(done, room) == room

\* What _feed_samples puts as its i-th item, and how many items it puts
\* before it suspends on a queue with the given room.
FeedItem(i) == IF i <= Total THEN i ELSE EndOfStream
Burst(done, room) == IF Total + 1 - done <= room THEN Total + 1 - done ELSE room
FirstBurst == Burst(0, MaxPending)

\* fit() has cleared paused, set running and started its coroutines: the
\* monitor sleeps and the feeder, created before the processor, has filled
\* the pending queue.  The synchronization before training is over; the
\* validation it started may still run.
RollInit ==
    /\ fed = FirstBurst
    /\ pending = [i \in 1..FirstBurst |-> FeedItem(i)]
    /\ cancelQueue = <<>>
    /\ task = [s \in Samples |-> "none"]
    /\ stamp = [s \in Samples |-> 0]
    /\ finished = 0 /\ failed = FALSE /\ failures = 0
    /\ paused = FALSE /\ monitorTrigger = TRUE /\ running = TRUE
    /\ serversPaused = FALSE
    /\ version = 0 /\ staleness = 0
    /\ lockQueue = <<>> /\ turn = "loop"
    /\ procPc = "top" /\ hand = EndOfStream /\ drainFor = "pause" /\ reaped = FALSE
    /\ mainPc = "streaming" /\ monitorPc = "sleep"
    /\ pausePc = "done" /\ updatePc = "done" /\ resumePc = "done"
    /\ updateArg = [version |-> 0, validate |-> FALSE]
    /\ snapshot = 0 /\ validating = IF ParallelValidate THEN {0} ELSE {}

-----------------------------------------------------------------------------
(* The lock, the condition and what the coroutines read.                   *)

Holds(p) == lockQueue # <<>> /\ Head(lockQueue) = p
GoOnIfFree(p, waiters) == turn' = IF waiters = <<>> THEN p ELSE "loop"
Request(p) ==
    lockQueue' = Append(lockQueue, p) /\ GoOnIfFree(p, lockQueue)
Release == lockQueue' = Tail(lockQueue) /\ turn' = "loop"
ReleaseAndGoOn(p) == lockQueue' = Tail(lockQueue) /\ turn' = p
ReleaseAndRequest(p) ==
    lockQueue' = Append(Tail(lockQueue), p) /\ GoOnIfFree(p, Tail(lockQueue))
Suspend == turn' = "loop" /\ UNCHANGED lockQueue

\* Coroutine p may run.
Turn(p) == turn \in {"loop", p}

\* Mutant of Notified: the flag is cleared and nobody is told.
NotifiedNobody(pc) == pc

\* condition.notify_all(): the processor is the only coroutine that waits.
Notified(pc) == IF pc = "idleWait" THEN "idleWoken"
                ELSE IF pc = "submitWait" THEN "submitWoken" ELSE pc

Live == {s \in Samples : task[s] # "none"}
ActiveCount == Cardinality(Live) + finished      \* len(self.active_tasks)

\* Mutant of ShouldPause: only the length of the message queue is looked at.
ShouldPauseQueueOnly == Len(queue) >= MaxRequired

ShouldPause == Len(queue) >= MaxRequired \/ staleness >= MaxRequired

-----------------------------------------------------------------------------
(* _feed_samples                                                           *)

\* The feeder runs until the queue is full or "DONE" is in it.
Feed ==
    LET n == Burst(fed, MaxPending - Len(pending)) IN
    /\ Turn("feed")
    /\ n > 0
    /\ fed' = fed + n
    /\ pending' = pending \o [i \in 1..n |-> FeedItem(fed + i)]
    /\ UNCHANGED <<queueVars, cancelQueue, taskVars, flagVars, staleness, lockVars,
                   procVars, mainPc, monitorPc, callVars>>

-----------------------------------------------------------------------------
(* _processor_worker                                                       *)

EnterDrain(reason) ==
    /\ procPc' = "drain" /\ drainFor' = reason
    /\ Request("processor")

\* Mutant of Dispatch: "DONE" ends the processor whatever is still active.
DispatchNoDrain(item) ==
    /\ hand' = item
    /\ UNCHANGED reaped
    /\ \/ /\ item = EndOfStream
          /\ procPc' = "exited" /\ UNCHANGED drainFor /\ Suspend
       \/ item # EndOfStream /\ ActiveCount >= MaxConcurrent /\ EnterDrain("full")
       \/ /\ item # EndOfStream /\ ActiveCount < MaxConcurrent
          /\ procPc' = "submit" /\ UNCHANGED drainFor /\ Request("processor")

\* What follows a fetch, up to the next suspension.
Dispatch(item) ==
    /\ hand' = item
    /\ UNCHANGED reaped
    /\ \/ /\ item = EndOfStream /\ ActiveCount = 0
          /\ procPc' = "exited" /\ UNCHANGED drainFor /\ Suspend
       \/ item = EndOfStream /\ ActiveCount > 0 /\ EnterDrain("done")
       \/ item # EndOfStream /\ ActiveCount >= MaxConcurrent /\ EnterDrain("full")
       \/ /\ item # EndOfStream /\ ActiveCount < MaxConcurrent
          /\ procPc' = "submit" /\ UNCHANGED drainFor /\ Request("processor")

FetchPending ==
    /\ pending # <<>>
    /\ pending' = Tail(pending)
    /\ staleness' = staleness + 1
    /\ Dispatch(Head(pending))
    /\ UNCHANGED <<fed, cancelQueue>>

\* Mutant of FetchCancelled: the sample is resubmitted and stays cancelled.
FetchCancelledPeek ==
    /\ cancelQueue # <<>>
    /\ Dispatch(Head(cancelQueue))
    /\ UNCHANGED <<feedVars, cancelQueue, staleness>>

FetchCancelled ==
    /\ cancelQueue # <<>>
    /\ cancelQueue' = Tail(cancelQueue)
    /\ Dispatch(Head(cancelQueue))
    /\ UNCHANGED <<feedVars, staleness>>

ProcTop ==
    /\ procPc = "top"
    /\ \/ /\ paused \/ ShouldPause
          /\ procPc' = "setPaused" /\ Request("processor")
          /\ UNCHANGED <<feedVars, cancelQueue, staleness, hand, drainFor, reaped>>
       \/ ~(paused \/ ShouldPause) /\ FetchCancelled
       \/ ~(paused \/ ShouldPause) /\ cancelQueue = <<>> /\ FetchPending
       \/ /\ ~(paused \/ ShouldPause) /\ cancelQueue = <<>> /\ pending = <<>>
          /\ procPc' = "fetchWait" /\ Suspend
          /\ UNCHANGED <<feedVars, cancelQueue, staleness, hand, drainFor, reaped>>
    /\ UNCHANGED <<queueVars, taskVars, flagVars, mainPc, monitorPc, callVars>>

\* await pending_queue.get() returns.
ProcFetchWait ==
    /\ procPc = "fetchWait"
    /\ FetchPending
    /\ UNCHANGED <<queueVars, taskVars, flagVars, mainPc, monitorPc, callVars>>

ProcSetPaused ==
    /\ procPc = "setPaused" /\ Holds("processor")
    /\ paused' = TRUE
    /\ IF ActiveCount > 0 THEN procPc' = "drain" /\ drainFor' = "pause"
                          ELSE procPc' = "idle" /\ UNCHANGED drainFor
    /\ ReleaseAndRequest("processor")
    /\ UNCHANGED <<queueVars, feedVars, cancelQueue, taskVars, staleness, hand, reaped,
                   monitorTrigger, running, serversPaused, version,
                   mainPc, monitorPc, callVars>>

\* The test of the loop around a drain round, with n tasks still active, and
\* what the processor does next.
AfterRound(n) ==
    \/ /\ n >= (IF drainFor = "full" THEN MaxConcurrent ELSE 1)
       /\ procPc' = "drain" /\ ReleaseAndRequest("processor")
    \/ /\ n < (IF drainFor = "full" THEN MaxConcurrent ELSE 1)
       /\ \/ drainFor = "pause" /\ procPc' = "idle" /\ ReleaseAndRequest("processor")
          \/ drainFor = "full" /\ procPc' = "submit" /\ ReleaseAndRequest("processor")
          \/ drainFor = "done" /\ procPc' = "exited" /\ Release

\* With the lock, active_tasks is looked at again.  If it has become empty,
\* the loop over done_tasks reads what the last asyncio.wait of this coroutine
\* returned, and raises when there was none.
ProcDrain ==
    /\ procPc = "drain" /\ Holds("processor")
    /\ \/ ActiveCount > 0 /\ procPc' = "drainWait" /\ Suspend
       \/ ActiveCount = 0 /\ reaped /\ AfterRound(0)
       \/ ActiveCount = 0 /\ ~reaped /\ procPc' = "dead" /\ Release
    /\ UNCHANGED <<queueVars, feedVars, cancelQueue, taskVars, flagVars, staleness,
                   hand, drainFor, reaped, mainPc, monitorPc, callVars>>

\* asyncio.wait(FIRST_COMPLETED) returns every task that has ended; awaiting
\* one that raised raises here.
ProcReap ==
    /\ procPc = "drainWait" /\ finished > 0
    /\ finished' = 0 /\ failed' = FALSE
    /\ reaped' = TRUE
    /\ IF failed THEN procPc' = "dead" /\ Release
                 ELSE AfterRound(Cardinality(Live))
    /\ UNCHANGED <<queueVars, feedVars, cancelQueue, task, stamp, failures, flagVars,
                   staleness, hand, drainFor, mainPc, monitorPc, callVars>>

\* The two loops "while self.paused: await self.condition.wait()".
ProcIdle ==
    /\ procPc = "idle" /\ Holds("processor")
    /\ IF paused THEN procPc' = "idleWait" /\ Release
                 ELSE procPc' = "top" /\ ReleaseAndGoOn("processor")
    /\ UNCHANGED <<queueVars, feedVars, cancelQueue, taskVars, flagVars, staleness,
                   hand, drainFor, reaped, mainPc, monitorPc, callVars>>

\* Mutant of ProcSubmit: neither the lock nor the flag is respected.
ProcSubmitUnlocked ==
    /\ procPc = "submit"
    /\ task' = [task EXCEPT ![hand] = "new"]
    /\ hand' = EndOfStream
    /\ procPc' = "top"
    /\ lockQueue' = SelectSeq(lockQueue, LAMBDA p : p # "processor")
    /\ turn' = "processor"
    /\ UNCHANGED <<queueVars, feedVars, cancelQueue, stamp, finished, failed, failures,
                   flagVars, staleness, drainFor, reaped, mainPc, monitorPc, callVars>>

ProcSubmit ==
    /\ procPc = "submit" /\ Holds("processor")
    /\ IF paused
         THEN procPc' = "submitWait" /\ Release /\ UNCHANGED <<task, hand>>
         ELSE /\ task' = [task EXCEPT ![hand] = "new"]
              /\ hand' = EndOfStream
              /\ procPc' = "top" /\ ReleaseAndGoOn("processor")
    /\ UNCHANGED <<queueVars, feedVars, cancelQueue, stamp, finished, failed, failures,
                   flagVars, staleness, drainFor, reaped, mainPc, monitorPc, callVars>>

ProcWoken ==
    /\ procPc \in {"idleWoken", "submitWoken"}
    /\ procPc' = IF procPc = "idleWoken" THEN "idle" ELSE "submit"
    /\ Request("processor")
    /\ UNCHANGED <<queueVars, feedVars, cancelQueue, taskVars, flagVars, staleness,
                   hand, drainFor, reaped, mainPc, monitorPc, callVars>>

Processor ==
    /\ Turn("processor")
    /\ \/ ProcTop \/ ProcFetchWait \/ ProcSetPaused \/ ProcDrain \/ ProcReap
       \/ ProcIdle \/ ProcSubmit \/ ProcWoken

-----------------------------------------------------------------------------
(* _process_single_sample_streaming and the partial rollout servers        *)

TaskFrame ==
    /\ Turn("task")
    /\ UNCHANGED <<feedVars, flagVars, staleness, lockVars, procVars,
                   mainPc, monitorPc, callVars>>

\* The request reaches servers that are not cancelled.
TaskStart(s) ==
    /\ task[s] = "new" /\ ~serversPaused
    /\ task' = [task EXCEPT ![s] = "gen"]
    /\ UNCHANGED <<queueVars, cancelQueue, stamp, finished, failed, failures>>
    /\ TaskFrame

\* Between cancel and resume the servers return unfinished work at once, and
\* the task ends by putting the sample in the cancel queue.
TaskCut(s) ==
    /\ task[s] \in {"new", "gen"} /\ serversPaused
    /\ task' = [task EXCEPT ![s] = "none"]
    /\ finished' = finished + 1
    /\ cancelQueue' = Append(cancelQueue, s)
    /\ UNCHANGED <<queueVars, stamp, failed, failures>>
    /\ TaskFrame

\* Generation is complete: the sample is stamped with the current version.
TaskGenerated(s) ==
    /\ task[s] = "gen"
    /\ task' = [task EXCEPT ![s] = "put"]
    /\ stamp' = [stamp EXCEPT ![s] = version]
    /\ UNCHANGED <<queueVars, cancelQueue, finished, failed, failures>>
    /\ TaskFrame

TaskPut(s) ==
    /\ task[s] = "put"
    /\ MQ!PutSample(s)
    /\ task' = [task EXCEPT ![s] = "none"]
    /\ finished' = finished + 1
    /\ UNCHANGED <<cancelQueue, stamp, failed, failures>>
    /\ TaskFrame

\* The generation call raises.
TaskFail(s) ==
    /\ task[s] = "gen" /\ failures < MaxFailures
    /\ task' = [task EXCEPT ![s] = "none"]
    /\ finished' = finished + 1
    /\ failed' = TRUE
    /\ failures' = failures + 1
    /\ UNCHANGED <<queueVars, cancelQueue, stamp>>
    /\ TaskFrame

Task(s) == TaskStart(s) \/ TaskCut(s) \/ TaskGenerated(s) \/ TaskPut(s)

-----------------------------------------------------------------------------
(* _streaming_generation_main and _async_monitor_loop                      *)

\* The processor has returned or raised; either way the end is signalled.
MainPutEnd ==
    /\ Turn("main")
    /\ mainPc = "streaming" /\ procPc \in {"exited", "dead"}
    /\ MQ!PutSample(EndOfStream)
    /\ mainPc' = "stopping" /\ Request("main")
    /\ UNCHANGED <<feedVars, cancelQueue, taskVars, flagVars, staleness, procVars,
                   monitorPc, callVars>>

MainStop ==
    /\ Turn("main")
    /\ mainPc = "stopping" /\ Holds("main")
    /\ running' = FALSE
    /\ mainPc' = "stopped" /\ Release
    /\ UNCHANGED <<queueVars, feedVars, cancelQueue, taskVars, paused, monitorTrigger,
                   serversPaused, version, staleness, procVars, monitorPc, callVars>>

MonitorCheck ==
    /\ monitorPc = "check" /\ Holds("monitor")
    /\ monitorPc' = IF running THEN "sleep" ELSE "exited"
    /\ Release
    /\ UNCHANGED <<queueVars, feedVars, cancelQueue, taskVars, flagVars, staleness,
                   procVars, mainPc, callVars>>

\* After the sleep the flags are read without the lock.
MonitorPoll ==
    /\ monitorPc = "sleep"
    /\ monitorPc' = IF monitorTrigger /\ ~ShouldPause THEN "unpause" ELSE "check"
    /\ Request("monitor")
    /\ UNCHANGED <<queueVars, feedVars, cancelQueue, taskVars, flagVars, staleness,
                   procVars, mainPc, callVars>>

MonitorUnpause ==
    /\ monitorPc = "unpause" /\ Holds("monitor")
    /\ paused' = FALSE
    /\ procPc' = Notified(procPc)
    /\ monitorPc' = "check" /\ ReleaseAndRequest("monitor")
    /\ UNCHANGED <<queueVars, feedVars, cancelQueue, taskVars, monitorTrigger, running,
                   serversPaused, version, staleness, hand, drainFor, reaped,
                   mainPc, callVars>>

Monitor == Turn("monitor") /\ (MonitorCheck \/ MonitorPoll \/ MonitorUnpause)

-----------------------------------------------------------------------------
(* pause()                                                                 *)

PauseArrive ==
    /\ pausePc = "called"
    /\ pausePc' = "lock" /\ Request("pause")
    /\ UNCHANGED <<queueVars, feedVars, cancelQueue, taskVars, flagVars, staleness,
                   procVars, mainPc, monitorPc, updatePc, resumePc, updateArg, snapshot, validating>>

PauseStart ==
    /\ pausePc = "lock" /\ Holds("pause")
    /\ paused' = TRUE
    /\ serversPaused' = Partial
    /\ pausePc' = "gather" /\ Suspend
    /\ UNCHANGED <<queueVars, feedVars, cancelQueue, taskVars, monitorTrigger, running,
                   version, staleness, procVars, mainPc, monitorPc,
                   updatePc, resumePc, updateArg, snapshot, validating>>

\* gather(return_exceptions=True) returns, and active_tasks is cleared.
PauseGathered ==
    /\ pausePc = "gather" /\ Live = {}
    /\ finished' = 0 /\ failed' = FALSE
    /\ pausePc' = "flush"
    /\ UNCHANGED <<queueVars, feedVars, cancelQueue, task, stamp, failures, flagVars,
                   staleness, lockVars, procVars, mainPc, monitorPc,
                   updatePc, resumePc, updateArg, snapshot, validating>>

\* clear_kv_cache() returns.
PauseEnd ==
    /\ pausePc = "flush"
    /\ monitorTrigger' = FALSE
    /\ pausePc' = "done" /\ Release
    /\ UNCHANGED <<queueVars, feedVars, cancelQueue, taskVars, paused, running,
                   serversPaused, version, staleness, procVars, mainPc, monitorPc,
                   updatePc, resumePc, updateArg, snapshot, validating>>

Pause == Turn("pause") /\ (PauseArrive \/ PauseStart \/ PauseGathered \/ PauseEnd)

-----------------------------------------------------------------------------
(* update_param_version() and do_validate_async()                          *)

UpdateFrame == UNCHANGED <<feedVars, cancelQueue, taskVars, paused, monitorTrigger,
                           running, serversPaused, procVars, mainPc, monitorPc,
                           pausePc, resumePc, updateArg>>

UpdateArrive ==
    /\ updatePc = "called"
    /\ updatePc' = "lock" /\ Request("update")
    /\ UNCHANGED <<queueVars, version, staleness, snapshot, validating>>
    /\ UpdateFrame

\* Mutants of UpdateStart: one of the two counts, or the version, is forgotten.
UpdateStartWith(v, n) ==
    /\ updatePc = "lock" /\ Holds("update")
    /\ version' = v
    /\ snapshot' = n
    /\ updatePc' = "count" /\ Suspend
    /\ UNCHANGED <<queueVars, staleness, validating>>
    /\ UpdateFrame
UpdateStartCancelledOnly == UpdateStartWith(updateArg.version, Len(cancelQueue))
UpdateStartNoVersion == UpdateStartWith(version, ActiveCount + Len(cancelQueue))

\* active_tasks and cancel_queue are counted before the call to the message
\* queue suspends.
UpdateStart ==
    /\ updatePc = "lock" /\ Holds("update")
    /\ version' = updateArg.version
    /\ snapshot' = ActiveCount + Len(cancelQueue)
    /\ updatePc' = "count" /\ Suspend
    /\ UNCHANGED <<queueVars, staleness, validating>>
    /\ UpdateFrame

UpdateCount ==
    /\ updatePc = "count"
    /\ staleness' = snapshot + Len(queue)
    /\ updatePc' = "publish" /\ Suspend
    /\ UNCHANGED <<queueVars, version, snapshot, validating>>
    /\ UpdateFrame

NeedValidate == (version % TestFreq = 0 /\ version > 0) \/ updateArg.validate

\* Validation runs inside the lock and blocks the event loop; its result, or
\* the timing alone, is put in the validation queue.
UpdatePublish ==
    /\ updatePc = "publish"
    /\ ~(NeedValidate /\ ParallelValidate)
    /\ MQ!PutValidate([version |-> version, metrics |-> NeedValidate])
    /\ updatePc' = "done" /\ Release
    /\ UNCHANGED <<version, staleness, snapshot, validating>>
    /\ UpdateFrame

\* Validation becomes a task of its own after the lock is released.  When the
\* last one still runs, the call Task.get() raises: Task has no such method.
UpdateSpawnValidation ==
    /\ updatePc = "publish"
    /\ NeedValidate /\ ParallelValidate
    /\ IF validating = {} THEN validating' = {version} /\ updatePc' = "done"
                          ELSE UNCHANGED validating /\ updatePc' = "failed"
    /\ Release
    /\ UNCHANGED <<queueVars, version, staleness, snapshot>>
    /\ UpdateFrame

Update ==
    /\ Turn("update")
    /\ \/ UpdateArrive \/ UpdateStart \/ UpdateCount
       \/ UpdatePublish \/ UpdateSpawnValidation

ValidationDone ==
    /\ Turn("validate")
    /\ \E v \in validating :
          /\ MQ!PutValidate([version |-> v, metrics |-> TRUE])
          /\ validating' = validating \ {v}
    /\ UNCHANGED <<updatePc, version, staleness, snapshot, lockVars>>
    /\ UpdateFrame

-----------------------------------------------------------------------------
(* resume(), which Ray starts when update_param_version has returned       *)

ResumeArrive ==
    /\ resumePc = "called" /\ updatePc \in {"done", "failed"}
    /\ IF updatePc = "failed" THEN resumePc' = "failed" /\ Suspend
                              ELSE resumePc' = "lock" /\ Request("resume")
    /\ UNCHANGED <<queueVars, feedVars, cancelQueue, taskVars, flagVars, staleness,
                   procVars, mainPc, monitorPc, pausePc, updatePc, updateArg, snapshot, validating>>

ResumeServers ==
    /\ Partial
    /\ resumePc = "lock" /\ Holds("resume")
    /\ serversPaused' = FALSE
    /\ resumePc' = "servers" /\ Suspend
    /\ UNCHANGED <<queueVars, feedVars, cancelQueue, taskVars, paused, monitorTrigger,
                   running, version, staleness, procVars, mainPc, monitorPc,
                   pausePc, updatePc, updateArg, snapshot, validating>>

ResumeRun ==
    /\ resumePc = (IF Partial THEN "servers" ELSE "lock") /\ Holds("resume")
    /\ paused' = FALSE
    /\ monitorTrigger' = TRUE
    /\ procPc' = Notified(procPc)
    /\ resumePc' = "done" /\ Release
    /\ UNCHANGED <<queueVars, feedVars, cancelQueue, taskVars, running, serversPaused,
                   version, staleness, hand, drainFor, reaped, mainPc, monitorPc,
                   pausePc, updatePc, updateArg, snapshot, validating>>

Resume == Turn("resume") /\ (ResumeArrive \/ ResumeServers \/ ResumeRun)

RollNext ==
    \/ Feed \/ Processor \/ MainPutEnd \/ MainStop \/ Monitor
    \/ \E s \in Samples : Task(s) \/ TaskFail(s)
    \/ Pause \/ Update \/ ValidationDone \/ Resume
=============================================================================
