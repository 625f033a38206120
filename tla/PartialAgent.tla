---------------------------- MODULE PartialAgent ----------------------------
(***************************************************************************)
(* Agent loops over partial rollout servers: the workers that run the      *)
(* trajectories of a sample, the state machine of a trajectory             *)
(* (AsyncPartialToolAgentLoop, PartialSingleTurnAgentLoop), and the        *)
(* manager's cancel() and resume() around a change of weights.             *)
(*                                                                         *)
(* A handler of the state machine runs to its next suspension in one       *)
(* action.  The cancellation event is read at the top of the loop only, so *)
(* that a tool call may be taken to happen at once.                        *)
(*                                                                         *)
(* The rollouter submits samples whenever its lock is free: the monitor    *)
(* may clear its flag "paused" after pause() has returned.                 *)
(***************************************************************************)
EXTENDS PartialServer, FiniteSets, SequencesExt

CONSTANTS Workers,
          Samples, N,          \* Loops = Samples \X (1..N)
          ResponseLength,
          MaxAnswer,           \* longest answer of a tool or a user
          Interaction,         \* interaction_config_file is set
          MaxAssistantTurns, MaxUserTurns,   \* 0: no limit
          MaxVersion           \* bound: changes of weights

\* The last generation always has room: the context holds the response and
\* the longest answer after the prompt.
ASSUME AgentAssumption ==
    /\ Loops = Samples \X (1..N) /\ ToolLoops \subseteq Loops /\ Workers \in Nat \ {0}
    /\ ResponseLength \in Nat \ {0} /\ MaxAnswer \in Nat \ {0}
    /\ MaxTokens >= ResponseLength + MaxAnswer

VARIABLES
    data,        \* data[l]: agent_data and agent_state of trajectory l
    output,      \* output[l]: "none", "cancelled" or "completed"
    pc,          \* pc[l]: where the coroutine of trajectory l is
    callee,      \* callee[l]: the server of the call in progress
    reply,       \* reply[l]: the answer on its way back
    bounds,      \* bounds[l]: param_version_start and param_version_end
    task,        \* task[s]: "waiting", "active" or "finished"
    workerOf,    \* workerOf[s]: the worker that runs sample s
    paramOf,     \* paramOf[s]: param_version the batch of s was given
    nextWorker,  \* _worker_index
    cancellation,\* cancellation[w]: cancellation_event of worker w
    route,       \* route[w]: request_id_to_server of worker w's manager
    load,        \* load[w][s]: weighted_serveres of worker w's manager
    param,       \* current_param_version of the rollouter
    phase,       \* what the rollouter is doing with the manager
    toTell       \* servers and workers whose cancel or resume is under way

loopVars == <<data, output, pc, callee, reply, bounds>>
taskVars == <<task, workerOf, paramOf, nextWorker>>
routeVars == <<route, load>>
managerVars == <<cancellation, param, phase, toTell>>
vars == <<serverVars, loopVars, taskVars, routeVars, managerVars>>

LoopsOf(s) == {l \in Loops : l[1] = s}
Worker(l) == workerOf[l[1]]
SingleTurn == Loops \ ToolLoops

FreshData == [state |-> "pending", text |-> <<>>, chunk |-> <<>>, logprobs |-> 0,
              assistant |-> 0, user |-> 0]

NoReply == [ids |-> <<>>, cancel |-> FALSE]

----------------------------------------------------------------------------
(* Samples: generate_single_sample_async and generate_sequences_no_post.   *)

\* Mutant of Restored: a cancelled trajectory starts from its prompt again.
RestoredFresh(l) == IF output[l] = "completed" THEN data[l] ELSE FreshData

\* _restore_from_output, or the agent data of a first run.
Restored(l) == IF output[l] = "none" THEN FreshData ELSE data[l]

\* _partial_run_agent_loop: a completed output is returned as it is.
ReturnedDirectly(l) == output[l] = "completed"

\* pause and resume hold the rollouter's lock while they wait.
LockFree == phase \notin {"cancelling", "resuming"}

\* Mutant of FirstVersion: a trajectory that is continued is stamped again.
FirstVersionAgain(l) == param

\* param_version_start is the version the trajectory was first submitted with.
FirstVersion(l) == IF output[l] = "none" THEN param ELSE bounds[l].first

\* The next worker in turn runs every trajectory of the sample.
Dispatch(s) ==
    /\ LockFree /\ task[s] = "waiting"
    /\ task' = [task EXCEPT ![s] = "active"]
    /\ workerOf' = [workerOf EXCEPT ![s] = nextWorker]
    /\ nextWorker' = (nextWorker % Workers) + 1
    /\ paramOf' = [paramOf EXCEPT ![s] = param]
    /\ pc' = [l \in Loops |-> IF l \notin LoopsOf(s) THEN pc[l]
                              ELSE IF ReturnedDirectly(l) THEN "returned" ELSE "loop"]
    /\ data' = [l \in Loops |-> IF l \in LoopsOf(s) THEN Restored(l) ELSE data[l]]
    /\ output' = [l \in Loops |-> IF l \in LoopsOf(s) /\ ~ReturnedDirectly(l)
                                  THEN "none" ELSE output[l]]
    /\ bounds' = [l \in Loops |->
                    IF l \in LoopsOf(s) /\ ~ReturnedDirectly(l)
                    THEN [bounds[l] EXCEPT !.first = FirstVersion(l)] ELSE bounds[l]]
    /\ UNCHANGED <<serverVars, callee, reply, routeVars, managerVars>>

\* gather has all outputs: one that is cancelled makes the sample cancelled.
SampleReturn(s) ==
    /\ task[s] = "active"
    /\ \A l \in LoopsOf(s) : pc[l] = "returned"
    /\ task' = [task EXCEPT ![s] =
                  IF \E l \in LoopsOf(s) : output[l] = "cancelled" THEN "waiting" ELSE "finished"]
    /\ pc' = [l \in Loops |-> IF l \in LoopsOf(s) THEN "idle" ELSE pc[l]]
    /\ UNCHANGED <<serverVars, data, output, callee, reply, bounds, workerOf, paramOf,
                   nextWorker, routeVars, managerVars>>

----------------------------------------------------------------------------
(* The state machine of a trajectory.                                      *)

Capped(text) == SubSeq(text, 1, Min({Len(text), ResponseLength}))

\* run ends with the output "kind"; a completed one is cut to response_length.
Return(l, d, kind) ==
    /\ pc' = [pc EXCEPT ![l] = "returned"]
    /\ output' = [output EXCEPT ![l] = kind]
    /\ data' = [data EXCEPT ![l] = IF kind = "completed" THEN [d EXCEPT !.text = Capped(@)] ELSE d]
    /\ bounds' = [bounds EXCEPT ![l].last = paramOf[l[1]]]

\* Mutant of Interrupted: the event is not looked at.
InterruptedNever(l) == FALSE

\* _run_state_machine: the event is looked at before each state.
Interrupted(l) == cancellation[Worker(l)]

AtState(l, state) ==
    /\ pc[l] = "loop" /\ l \in ToolLoops
    /\ data[l].state = state
    /\ ~Interrupted(l)

\* run: _build_completed_output
LoopCompleted(l) ==
    /\ pc[l] = "loop" /\ l \in ToolLoops /\ data[l].state = "terminated"
    /\ Return(l, data[l], "completed")
    /\ UNCHANGED <<serverVars, callee, reply, taskVars, routeVars, managerVars>>

\* run: _build_cancelled_output
LoopCancelled(l) ==
    /\ pc[l] = "loop" /\ l \in ToolLoops /\ data[l].state # "terminated"
    /\ Interrupted(l)
    /\ Return(l, data[l], "cancelled")
    /\ UNCHANGED <<serverVars, callee, reply, taskVars, routeVars, managerVars>>

HandlePending(l) ==
    /\ AtState(l, "pending")
    /\ data' = [data EXCEPT ![l].state = "generating"]
    /\ UNCHANGED <<serverVars, output, pc, callee, reply, bounds, taskVars, routeVars, managerVars>>

\* _choose_server: the server the request has been sent to, or one with the
\* fewest requests.  A single-turn loop takes a new request id for every run.
ServerFor(w, l) ==
    IF l \in ToolLoops /\ route[w][l] # 0 THEN {route[w][l]}
    ELSE {s \in Servers : \A t \in Servers : load[w][s] <= load[w][t]}

\* A request more for server s.  The heap only compares loads, so that the least is
\* taken off.
OneMore(loads, s) ==
    LET more == [loads EXCEPT ![s] = @ + 1]
    IN  [t \in Servers |-> more[t] - Min({more[u] : u \in Servers})]

\* _handle_generating_state_partial and the single-turn loop, up to the call.
SendGenerate(l) ==
    /\ AtState(l, "generating") \/ (pc[l] = "loop" /\ l \in SingleTurn)
    /\ \E s \in ServerFor(Worker(l), l) :
         /\ callee' = [callee EXCEPT ![l] = s]
         /\ load' = IF l \in ToolLoops /\ route[Worker(l)][l] = s THEN load
                    ELSE [load EXCEPT ![Worker(l)] = OneMore(@, s)]
         /\ route' = IF l \in ToolLoops THEN [route EXCEPT ![Worker(l)][l] = s] ELSE route
    /\ pc' = [pc EXCEPT ![l] = "sent"]
    /\ UNCHANGED <<serverVars, data, output, reply, bounds, taskVars, managerVars>>

\* The call reaches the server, which registers it or, being paused, refuses it.
Accepted(l) ==
    /\ pc[l] = "sent"
    /\ GenerateBegin(callee[l], l)
    /\ pc' = [pc EXCEPT ![l] = "waiting"]
    /\ UNCHANGED <<data, output, callee, reply, bounds, taskVars, routeVars, managerVars>>

Refused(l) ==
    /\ pc[l] = "sent" /\ paused[callee[l]]
    /\ reply' = [reply EXCEPT ![l] = [ids |-> <<>>, cancel |-> TRUE]]
    /\ pc' = [pc EXCEPT ![l] = "reply"]
    /\ callee' = [callee EXCEPT ![l] = 0]
    /\ UNCHANGED <<serverVars, data, output, bounds, taskVars, routeVars, managerVars>>

Streamed(l) ==
    /\ pc[l] = "waiting"
    /\ GenerateStep(callee[l], l, data[l].text)
    /\ UNCHANGED <<loopVars, taskVars, routeVars, managerVars>>

Answered(l) ==
    /\ pc[l] = "waiting"
    /\ GenerateEnd(callee[l], l)
    /\ reply' = [reply EXCEPT ![l] = Result(callee[l], l)]
    /\ pc' = [pc EXCEPT ![l] = "reply"]
    /\ callee' = [callee EXCEPT ![l] = 0]
    /\ UNCHANGED <<data, output, bounds, taskVars, routeVars, managerVars>>

----------------------------------------------------------------------------
\* tool_parser.extract_tool_calls on the last chunk.
HasCall(text) == \E i \in 1..Len(text) - 1 : text[i].kind = "open" /\ text[i + 1].kind = "close"

\* agent_data with the tokens of a reply added to it
Extended(d, ids) ==
    [d EXCEPT !.text = @ \o ids, !.chunk = ids, !.logprobs = @ + Len(ids)]

\* Mutant of CutChunk: the log probabilities of the cut part are forgotten.
CutChunkNoLogprobs(d, ids) ==
    LET e == [Extended(d, ids) EXCEPT !.logprobs = d.logprobs]
    IN  IF Len(e.text) >= ResponseLength
        THEN [e EXCEPT !.state = "terminated", !.assistant = @ + 1]
        ELSE [e EXCEPT !.state = "generating"]

\* _handle_generating_state_partial after a cut: generation goes on later
\* unless the response is long enough.
CutChunk(d, ids) ==
    LET e == Extended(d, ids)
    IN  IF Len(e.text) >= ResponseLength
        THEN [e EXCEPT !.state = "terminated", !.assistant = @ + 1]
        ELSE [e EXCEPT !.state = "generating"]

\* ... and after a whole generation: lengths, turn limits, then the tool calls
\* of the tokens this call returned.
WholeChunk(d, ids) ==
    LET e == [Extended(d, ids) EXCEPT !.assistant = @ + 1]
    IN  [e EXCEPT !.state =
           IF \/ Len(e.text) >= ResponseLength
              \/ MaxAssistantTurns > 0 /\ e.assistant >= MaxAssistantTurns
              \/ MaxUserTurns > 0 /\ e.user >= MaxUserTurns
           THEN "terminated"
           ELSE IF HasCall(e.chunk) THEN "tools"
           ELSE IF Interaction THEN "interacting" ELSE "terminated"]

HandleReply(l) ==
    /\ pc[l] = "reply" /\ l \in ToolLoops
    /\ data' = [data EXCEPT ![l] = IF reply[l].cancel THEN CutChunk(@, reply[l].ids)
                                   ELSE WholeChunk(@, reply[l].ids)]
    /\ pc' = [pc EXCEPT ![l] = "loop"]
    /\ reply' = [reply EXCEPT ![l] = NoReply]
    /\ UNCHANGED <<serverVars, output, callee, bounds, taskVars, routeVars, managerVars>>

\* PartialSingleTurnAgentLoop.run after its call: a response that is long
\* enough counts as complete although it was cut.
SingleTurnReply(l) ==
    /\ pc[l] = "reply" /\ l \in SingleTurn
    /\ LET d == Extended(data[l], reply[l].ids)
           cut == reply[l].cancel /\ Len(d.text) < ResponseLength
       IN  Return(l, d, IF cut THEN "cancelled" ELSE "completed")
    /\ reply' = [reply EXCEPT ![l] = NoReply]
    /\ UNCHANGED <<serverVars, callee, taskVars, routeVars, managerVars>>

\* Tokens the environment adds: mask 0, and log probability 0.0 if there are any.
Observed(d, n) ==
    [d EXCEPT !.text = @ \o [i \in 1..n |-> [kind |-> "env", version |-> version]],
              !.logprobs = IF @ > 0 THEN @ + n ELSE @,
              !.user = @ + 1, !.state = "generating"]

\* _handle_processing_tools_state: an answer that does not fit ends the trajectory.
HandleTools(l) ==
    /\ AtState(l, "tools")
    /\ \E n \in 1..MaxAnswer :
         data' = [data EXCEPT ![l] = IF Len(@.text) + n >= ResponseLength
                                     THEN [@ EXCEPT !.state = "terminated"]
                                     ELSE Observed(@, n)]
    /\ UNCHANGED <<serverVars, output, pc, callee, reply, bounds, taskVars, routeVars, managerVars>>

\* _handle_interacting_state: the answer is added whatever its length.
HandleInteracting(l) ==
    /\ AtState(l, "interacting")
    /\ \E n \in 1..MaxAnswer, stop \in BOOLEAN :
         data' = [data EXCEPT ![l] = [Observed(@, n) EXCEPT
                    !.state = IF stop THEN "terminated" ELSE "generating"]]
    /\ UNCHANGED <<serverVars, output, pc, callee, reply, bounds, taskVars, routeVars, managerVars>>

----------------------------------------------------------------------------
(* The manager's cancel and resume, called by the rollouter's pause and    *)
(* resume with its lock held.                                              *)

Everyone == (Servers \X {"server"}) \cup ((1..Workers) \X {"worker"})

\* pause takes the lock.
Cancel ==
    /\ phase = "running" /\ version < MaxVersion
    /\ \E s \in Samples : task[s] # "finished"
    /\ phase' = "cancelling" /\ toTell' = Everyone
    /\ UNCHANGED <<serverVars, loopVars, taskVars, routeVars, cancellation, param>>

TellServer(s) ==
    /\ <<s, "server">> \in toTell
    /\ IF phase = "cancelling" THEN CancelServer(s) ELSE ResumeServer(s)
    /\ toTell' = toTell \ {<<s, "server">>}
    /\ UNCHANGED <<loopVars, taskVars, routeVars, cancellation, param, phase>>

\* cancel_agent_loops, resume_agent_loops
TellWorker(w) ==
    /\ <<w, "worker">> \in toTell
    /\ cancellation' = [cancellation EXCEPT ![w] = (phase = "cancelling")]
    /\ toTell' = toTell \ {<<w, "worker">>}
    /\ UNCHANGED <<serverVars, loopVars, taskVars, routeVars, param, phase>>

\* Mutant of Drained: pause does not wait for the active tasks.
DrainedAtOnce == toTell = {}

\* gather(*rollout_cancel_tasks, *worker_cancel_tasks), then gather(*active_tasks)
Drained == toTell = {} /\ \A s \in Samples : task[s] # "active"

Paused ==
    /\ phase = "cancelling" /\ Drained
    /\ phase' = "paused"
    /\ UNCHANGED <<serverVars, loopVars, taskVars, routeVars, cancellation, param, toTell>>

\* The synchronizer transfers the weights.
SyncWeights ==
    /\ phase = "paused"
    /\ version' = version + 1
    /\ phase' = "synced"
    /\ UNCHANGED <<engine, paused, req, handle, loopVars, taskVars, routeVars, cancellation,
                   param, toTell>>

UpdateParamVersion ==
    /\ phase = "synced"
    /\ param' = version
    /\ phase' = "updated"
    /\ UNCHANGED <<serverVars, loopVars, taskVars, routeVars, cancellation, toTell>>

\* resume takes the lock and tells everyone.
Resume ==
    /\ phase = "updated"
    /\ phase' = "resuming" /\ toTell' = Everyone
    /\ UNCHANGED <<serverVars, loopVars, taskVars, routeVars, cancellation, param>>

Resumed ==
    /\ phase = "resuming" /\ toTell = {}
    /\ phase' = "running"
    /\ UNCHANGED <<serverVars, loopVars, taskVars, routeVars, cancellation, param, toTell>>

----------------------------------------------------------------------------
Init ==
    /\ ServerInit
    /\ data = [l \in Loops |-> FreshData]
    /\ output = [l \in Loops |-> "none"]
    /\ pc = [l \in Loops |-> "idle"]
    /\ callee = [l \in Loops |-> 0]
    /\ reply = [l \in Loops |-> NoReply]
    /\ bounds = [l \in Loops |-> [first |-> 0, last |-> 0]]
    /\ task = [s \in Samples |-> "waiting"]
    /\ workerOf = [s \in Samples |-> 0]
    /\ paramOf = [s \in Samples |-> 0]
    /\ nextWorker = 1
    /\ cancellation = [w \in 1..Workers |-> FALSE]
    /\ route = [w \in 1..Workers |-> [l \in Loops |-> 0]]
    /\ load = [w \in 1..Workers |-> [s \in Servers |-> 0]]
    /\ param = 0 /\ phase = "running" /\ toTell = {}

StepOf(l) ==
    \/ LoopCompleted(l) \/ LoopCancelled(l) \/ HandlePending(l)
    \/ SendGenerate(l) \/ Accepted(l) \/ Refused(l) \/ Streamed(l) \/ Answered(l)
    \/ HandleReply(l) \/ SingleTurnReply(l) \/ HandleTools(l) \/ HandleInteracting(l)

SampleStep(s) == Dispatch(s) \/ SampleReturn(s)

Tell == (\E s \in Servers : TellServer(s)) \/ (\E w \in 1..Workers : TellWorker(w))

GoOn == Paused \/ SyncWeights \/ UpdateParamVersion \/ Resume \/ Resumed

Manager == Cancel \/ Tell \/ GoOn

Next == Manager \/ (\E s \in Samples : SampleStep(s)) \/ (\E l \in Loops : StepOf(l))

\* Coroutines that can run do, calls and messages arrive, the engine hands over
\* tokens, the rollouter goes on with pause and resume, and submits a sample in the
\* end when it is not between them.
Spec == Init /\ [][Next]_vars

FairSpec ==
    /\ Init /\ [][Next]_vars
    /\ WF_vars(Tell) /\ WF_vars(GoOn)
    /\ \A s \in Samples : WF_vars(phase = "running" /\ Dispatch(s)) /\ WF_vars(SampleReturn(s))
    /\ \A l \in Loops : WF_vars(StepOf(l))

----------------------------------------------------------------------------
(* Properties.                                                             *)

\* From the return of pause until resume tells them, no server has a request under
\* way, so that the weights can change: whatever the order in which servers and workers
\* learnt of the cancellation, and although samples may be submitted meanwhile.
Quiescent ==
    phase \in {"paused", "synced", "updated"} =>
        \A l \in Loops : handle[l] = "none" /\ pc[l] # "waiting"

\* The engine's log probabilities stay aligned with the response: as many of
\* them as tokens, over cuts, answers of tools and resumptions.
LogprobsAligned ==
    \A l \in Loops : output[l] # "completed" => data[l].logprobs = Len(data[l].text)

\* The tokens of a completed trajectory were written by weights not older than its
\* param_version_start and at most one version newer than its param_version_end, in
\* order: newer by one when its sample was submitted between the transfer of the
\* weights and update_param_version, and reached a worker after resume.
VersionsEnclosed ==
    \A l \in Loops : output[l] = "completed" =>
        LET text == data[l].text
        IN  /\ \A i \in 1..Len(text) : text[i].version \in bounds[l].first..bounds[l].last + 1
            /\ \A i \in 1..Len(text) - 1 : text[i].version <= text[i + 1].version

\* Once its call has ended, a server remembers a request only if it is a vLLM
\* server and the request was cut before its first token.
RequestsForgotten ==
    \A s \in Servers, l \in Loops :
        req[s][l] # NoRequest /\ ~(pc[l] = "waiting" /\ callee[l] = s)
            => engine = "vllm" /\ req[s][l].out = <<>>

\* The text of a trajectory, with the tokens still in the server's answer.
InFlight(l) ==
    CASE pc[l] = "waiting" -> req[callee[l]][l].out
      [] pc[l] = "reply" -> reply[l].ids
      [] OTHER -> <<>>

Whole == INSTANCE Trajectory WITH
    text <- [l \in Loops |-> data[l].text \o InFlight(l)],
    complete <- [l \in Loops |-> output[l] = "completed"]

\* Every token a server has generated is in the trajectory, once and in its
\* place; what has been said is never unsaid, and a completed output is final,
\* also when its sample is cancelled because of another trajectory.
RefinesTrajectory == Whole!Spec

\* Every sample is finished in the end: a cancellation reaches every trajectory,
\* and each that was cut is taken up again.
SamplesFinish == <>(\A s \in Samples : task[s] = "finished")

=============================================================================
