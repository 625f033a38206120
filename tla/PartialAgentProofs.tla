------------------------- MODULE PartialAgentProofs -------------------------
(***************************************************************************)
(* Partial rollout for any number of samples, workers, servers and changes *)
(* of weights: pause() leaves nothing running, a response keeps its log    *)
(* probabilities and the versions that wrote it, a server forgets the      *)
(* requests it has answered, and a trajectory unfolds as in Trajectory,    *)
(* whatever cuts it.                                                       *)
(***************************************************************************)
EXTENDS PartialAgent, TLAPS

PcValues == {"idle", "loop", "sent", "waiting", "reply", "returned"}

\* The shapes the other parts need
Shapes ==
    /\ handle \in [Loops -> {"none", "running", "done"}]
    /\ pc \in [Loops -> PcValues]
    /\ task \in [Samples -> {"waiting", "active", "finished"}]
    /\ DOMAIN reply = Loops /\ paused \in [Servers -> BOOLEAN]

\* A generation task belongs to a call that waits ...
HandleWaits == \A l \in Loops : handle[l] # "none" => pc[l] = "waiting"

\* ... a call to a sample that is active ...
LoopOfActive == \A l \in Loops : pc[l] # "idle" => task[l[1]] = "active"

\* ... pause goes on when every server has learnt of it ...
ServersTold == phase = "cancelling" => \A s \in Servers : paused[s] \/ <<s, "server">> \in toTell

\* ... and from its return until resume the servers take no call, and answer those
\* of samples that are submitted meanwhile with nothing.
Window == {"paused", "synced", "updated"}

Hushed ==
    phase \in Window =>
        /\ toTell = {} /\ \A s \in Servers : paused[s]
        /\ \A l \in Loops : pc[l] # "waiting" /\ (pc[l] = "reply" => reply[l].ids = <<>>)

QuietInv == Shapes /\ HandleWaits /\ LoopOfActive /\ ServersTold /\ Hushed

\* Trajectories are pairs of a sample and an index.
LEMMA LoopPairs == \A l \in Loops : l[1] \in Samples
  BY AgentAssumption

LEMMA QuietInit == Init => QuietInv
  BY LoopPairs DEF Init, ServerInit, QuietInv, Shapes, PcValues, HandleWaits, LoopOfActive,
     ServersTold, Hushed, Window

\* A step of a trajectory moves the trajectory alone, away from "idle" never,
\* and starts a generation task only when its call begins to wait, at a server that
\* is not paused.
LEMMA LoopStep ==
  ASSUME QuietInv, NEW l \in Loops, StepOf(l), pc[l] = "sent" => callee[l] \in Servers
  PROVE  QuietInv'
<1>1. UNCHANGED <<task, phase, toTell, paused>>
  BY DEF StepOf, LoopCompleted, LoopCancelled, HandlePending, SendGenerate, Accepted, Refused,
     Streamed, Answered, HandleReply, SingleTurnReply, HandleTools, HandleInteracting,
     GenerateBegin, GenerateStep, GenerateEnd, serverVars, taskVars, managerVars
<1>2. ServersTold'
  BY <1>1 DEF QuietInv, ServersTold
<1>3. CASE UNCHANGED <<pc, handle, reply>>
  BY <1>1, <1>2, <1>3 DEF QuietInv, Shapes, HandleWaits, LoopOfActive, Hushed
<1>4. CASE /\ pc[l] \notin {"idle", "waiting"} /\ UNCHANGED handle
           /\ \E v \in PcValues \ {"idle", "waiting", "reply"} : pc' = [pc EXCEPT ![l] = v]
           /\ reply' = reply \/ \E x : reply' = [reply EXCEPT ![l] = x]
  <2>1. PICK v \in PcValues \ {"idle", "waiting", "reply"} : pc' = [pc EXCEPT ![l] = v]
    BY <1>4
  <2>2. Shapes' /\ HandleWaits' /\ LoopOfActive'
    BY <1>1, <1>4, <2>1 DEF QuietInv, Shapes, HandleWaits, LoopOfActive, PcValues
  <2>3. \A m \in Loops \ {l} : pc'[m] = pc[m] /\ reply'[m] = reply[m]
    BY <1>4, <2>1 DEF QuietInv, Shapes
  <2>4. pc'[l] = v
    BY <2>1 DEF QuietInv, Shapes
  <2>5. Hushed'
    BY <1>1, <2>1, <2>3, <2>4 DEF QuietInv, Hushed
  <2>. QED BY <1>2, <2>2, <2>5 DEF QuietInv
<1>5. CASE Accepted(l)
  <2>1. /\ pc[l] = "sent" /\ pc' = [pc EXCEPT ![l] = "waiting"]
        /\ handle' = [handle EXCEPT ![l] = "running"] /\ ~paused[callee[l]] /\ reply' = reply
    BY <1>5 DEF Accepted, GenerateBegin
  <2>2. phase \notin Window
    BY <2>1 DEF QuietInv, Hushed
  <2>. QED BY <1>1, <1>2, <2>1, <2>2 DEF QuietInv, Shapes, HandleWaits, LoopOfActive, Hushed, PcValues
<1>6. CASE Streamed(l)
  <2>1. /\ pc[l] = "waiting" /\ UNCHANGED <<pc, reply>>
        /\ \E v \in {"running", "done"} : handle' = [handle EXCEPT ![l] = v]
    BY <1>6 DEF Streamed, GenerateStep, loopVars
  <2>. QED BY <1>1, <1>2, <2>1 DEF QuietInv, Shapes, HandleWaits, LoopOfActive, Hushed
<1>7. CASE Answered(l)
  <2>1. /\ pc[l] = "waiting" /\ pc' = [pc EXCEPT ![l] = "reply"]
        /\ handle' = [handle EXCEPT ![l] = "none"] /\ DOMAIN reply' = DOMAIN reply
    BY <1>7 DEF Answered, GenerateEnd
  <2>2. phase \notin Window
    BY <2>1 DEF QuietInv, Hushed
  <2>. QED BY <1>1, <1>2, <2>1, <2>2 DEF QuietInv, Shapes, HandleWaits, LoopOfActive, Hushed, PcValues
<1>8. CASE Refused(l)
  <2>1. /\ pc[l] = "sent" /\ pc' = [pc EXCEPT ![l] = "reply"] /\ UNCHANGED handle
        /\ reply' = [reply EXCEPT ![l] = [ids |-> <<>>, cancel |-> TRUE]]
    BY <1>8 DEF Refused, serverVars
  <2>2. Shapes' /\ HandleWaits' /\ LoopOfActive'
    BY <1>1, <2>1 DEF QuietInv, Shapes, HandleWaits, LoopOfActive, PcValues
  <2>3. \A m \in Loops \ {l} : pc'[m] = pc[m] /\ reply'[m] = reply[m]
    BY <2>1 DEF QuietInv, Shapes
  <2>4. pc'[l] = "reply" /\ reply'[l].ids = <<>>
    BY <2>1 DEF QuietInv, Shapes
  <2>5. Hushed'
    BY <1>1, <2>3, <2>4 DEF QuietInv, Shapes, Hushed
  <2>. QED BY <1>2, <2>2, <2>5 DEF QuietInv
<1>9. CASE LoopCompleted(l) \/ LoopCancelled(l) \/ SendGenerate(l)
           \/ HandleReply(l) \/ SingleTurnReply(l)
  BY <1>4, <1>9 DEF LoopCompleted, LoopCancelled, SendGenerate, HandleReply,
     SingleTurnReply, Return, AtState, serverVars, PcValues
<1>10. CASE HandlePending(l) \/ HandleTools(l) \/ HandleInteracting(l)
  BY <1>3, <1>10 DEF HandlePending, HandleTools, HandleInteracting, serverVars
<1>. QED BY <1>5, <1>6, <1>7, <1>8, <1>9, <1>10 DEF StepOf

\* Dispatch makes a sample active before its trajectories leave "idle"; a sample
\* ends when all of them have returned.
LEMMA SampleKeeps ==
  ASSUME QuietInv, NEW s \in Samples, SampleStep(s)
  PROVE  QuietInv'
<1>1. UNCHANGED <<phase, toTell, paused, handle, reply>>
  BY DEF SampleStep, Dispatch, SampleReturn, managerVars, serverVars
<1>2. ServersTold'
  BY <1>1 DEF QuietInv, ServersTold
<1>3. CASE Dispatch(s)
  <2>1. /\ task[s] = "waiting" /\ task' = [task EXCEPT ![s] = "active"]
        /\ pc' \in [Loops -> PcValues]
        /\ \A l \in Loops : IF l \in LoopsOf(s) THEN pc'[l] \in {"returned", "loop"}
                            ELSE pc'[l] = pc[l]
    BY <1>3 DEF Dispatch, QuietInv, Shapes, PcValues
  <2>2. \A l \in LoopsOf(s) : handle[l] = "none"
    BY <2>1 DEF QuietInv, HandleWaits, LoopOfActive, LoopsOf
  <2>3. Shapes' /\ HandleWaits' /\ LoopOfActive'
    BY <1>1, <2>1, <2>2, LoopPairs DEF QuietInv, Shapes, HandleWaits, LoopOfActive, LoopsOf
  <2>4. Hushed'
    BY <1>1, <2>1 DEF QuietInv, Hushed
  <2>. QED BY <1>2, <2>3, <2>4 DEF QuietInv
<1>4. CASE SampleReturn(s)
  <2>1. /\ \A l \in LoopsOf(s) : pc[l] = "returned"
        /\ \E v \in {"waiting", "finished"} : task' = [task EXCEPT ![s] = v]
        /\ pc' = [l \in Loops |-> IF l \in LoopsOf(s) THEN "idle" ELSE pc[l]]
    BY <1>4 DEF SampleReturn
  <2>2. Shapes' /\ HandleWaits' /\ LoopOfActive'
    BY <1>1, <2>1, LoopPairs DEF QuietInv, Shapes, HandleWaits, LoopOfActive, LoopsOf, PcValues
  <2>3. Hushed'
    BY <1>1, <2>1 DEF QuietInv, Hushed
  <2>. QED BY <1>2, <2>2, <2>3 DEF QuietInv
<1>. QED BY <1>3, <1>4 DEF SampleStep

\* The manager waits for the active samples before it reports the pause.
LEMMA ManagerKeeps ==
  ASSUME QuietInv, Manager
  PROVE  QuietInv'
<1>1. UNCHANGED <<pc, task, handle, reply>>
  BY DEF Manager, GoOn, Tell, Cancel, TellServer, TellWorker, Paused, SyncWeights,
     UpdateParamVersion, Resume, Resumed, CancelServer, ResumeServer, loopVars, taskVars, serverVars
<1>3. paused' \in [Servers -> BOOLEAN]
  BY DEF Manager, GoOn, Tell, Cancel, TellServer, TellWorker, Paused, SyncWeights,
     UpdateParamVersion, Resume, Resumed, CancelServer, ResumeServer, serverVars, QuietInv, Shapes
<1>2. ServersTold' /\ Hushed'
  <2>1. CASE Cancel
    BY <2>1 DEF Cancel, ServersTold, Hushed, Window, Everyone
  <2>2. CASE \E s \in Servers : TellServer(s)
    <3>1. PICK s \in Servers : TellServer(s)
      BY <2>2
    <3>2. /\ <<s, "server">> \in toTell /\ toTell' = toTell \ {<<s, "server">>} /\ phase' = phase
          /\ phase = "cancelling" => paused' = [paused EXCEPT ![s] = TRUE]
      BY <3>1 DEF TellServer, CancelServer
    <3>3. Hushed'
      BY <3>2 DEF QuietInv, Hushed, Window
    <3>4. ServersTold'
      BY <3>2 DEF QuietInv, ServersTold, Shapes
    <3>. QED BY <3>3, <3>4
  <2>3. CASE \E w \in 1..Workers : TellWorker(w)
    <3>1. PICK w \in 1..Workers : TellWorker(w)
      BY <2>3
    <3>2. /\ <<w, "worker">> \in toTell /\ toTell' = toTell \ {<<w, "worker">>}
          /\ UNCHANGED <<phase, paused>>
      BY <3>1 DEF TellWorker, serverVars
    <3>3. \A s : <<s, "server">> # <<w, "worker">>
      OBVIOUS
    <3>. QED BY <3>2, <3>3 DEF QuietInv, ServersTold, Hushed, Window
  <2>4. CASE Paused
    <3>1. /\ phase = "cancelling" /\ phase' = "paused" /\ toTell = {}
          /\ \A s \in Samples : task[s] # "active"
          /\ UNCHANGED <<toTell, paused>>
      BY <2>4 DEF Paused, Drained, serverVars
    <3>2. \A l \in Loops : pc[l] = "idle"
      BY <3>1, LoopPairs DEF QuietInv, LoopOfActive
    <3>. QED BY <1>1, <3>1, <3>2 DEF QuietInv, ServersTold, Hushed, Window
  <2>5. CASE SyncWeights \/ UpdateParamVersion
    <3>1. phase \in Window /\ phase' \in Window /\ UNCHANGED <<toTell, paused>>
      BY <2>5 DEF SyncWeights, UpdateParamVersion, serverVars, Window
    <3>. QED BY <1>1, <3>1 DEF QuietInv, ServersTold, Hushed, Window
  <2>6. CASE Resume \/ Resumed
    BY <2>6 DEF Resume, Resumed, ServersTold, Hushed, Window
  <2>. QED BY <2>1, <2>2, <2>3, <2>4, <2>5, <2>6 DEF Manager, Tell, GoOn
<1>. QED
  <2>1. Shapes' /\ HandleWaits' /\ LoopOfActive'
    BY <1>1, <1>3 DEF QuietInv, Shapes, HandleWaits, LoopOfActive
  <2>. QED BY <1>2, <2>1 DEF QuietInv

----------------------------------------------------------------------------
(* Types of what a trajectory says, and where it says it                    *)

Token == [kind : Kinds, version : Nat]
States == {"pending", "generating", "tools", "interacting", "terminated"}
DataType == [state : States, text : Seq(Token), chunk : Seq(Token), logprobs : Nat,
             assistant : Nat, user : Nat]
ReplyType == [ids : Seq(Token), cancel : BOOLEAN]
RequestType == [event : {"absent", "clear", "set"}, out : Seq(Token)]

TextTypes ==
    /\ version \in Nat
    /\ req \in [Servers -> [Loops -> RequestType]]
    /\ data \in [Loops -> DataType]
    /\ reply \in [Loops -> ReplyType]
    /\ output \in [Loops -> {"none", "cancelled", "completed"}]
    /\ bounds \in [Loops -> [first : Nat, last : Nat]]

PlaceTypes ==
    /\ paramOf \in [Samples -> Nat]
    /\ nextWorker \in 1..Workers
    /\ workerOf \in [Samples -> 0..Workers]
    /\ route \in [1..Workers -> [Loops -> Servers \cup {0}]]
    /\ callee \in [Loops -> Servers \cup {0}]
    /\ \A s \in Samples : task[s] = "active" => workerOf[s] \in 1..Workers
    /\ \A l \in Loops : pc[l] \in {"sent", "waiting"} => callee[l] \in Servers

LEMMA FreshTypes == FreshData \in DataType /\ NoReply \in ReplyType /\ NoRequest \in RequestType
<1>1. <<>> \in Seq(Token)
  OBVIOUS
<1>. QED BY <1>1 DEF FreshData, NoReply, NoRequest, DataType, ReplyType, RequestType, States

\* What the handlers make of the tokens of a reply
LEMMA ExtendedShape ==
  ASSUME NEW d \in DataType, NEW ids \in Seq(Token)
  PROVE  /\ Extended(d, ids) \in DataType
         /\ Extended(d, ids).text = d.text \o ids
         /\ Extended(d, ids).logprobs = d.logprobs + Len(ids)
         /\ Extended(d, ids).state = d.state
<1>1. d.text \in Seq(Token) /\ d.logprobs \in Nat
  BY DEF DataType
<1>2. d.text \o ids \in Seq(Token) /\ d.logprobs + Len(ids) \in Nat
  BY <1>1
<1>. DEFINE t == d.text \o ids
            n == d.logprobs + Len(ids)
<1>. HIDE DEF t, n
<1>3. Extended(d, ids) = [d EXCEPT !.text = t, !.chunk = ids, !.logprobs = n]
  BY DEF Extended, t, n
<1>4. t \in Seq(Token) /\ n \in Nat
  BY <1>2 DEF t, n
<1>5. /\ Extended(d, ids) \in DataType /\ Extended(d, ids).text = t
      /\ Extended(d, ids).logprobs = n /\ Extended(d, ids).state = d.state
  BY <1>3, <1>4 DEF DataType
<1>. QED BY <1>5 DEF t, n

LEMMA CutChunkShape ==
  ASSUME NEW d \in DataType, NEW ids \in Seq(Token)
  PROVE  /\ CutChunk(d, ids) \in DataType
         /\ CutChunk(d, ids).text = d.text \o ids
         /\ CutChunk(d, ids).logprobs = d.logprobs + Len(ids)
         /\ CutChunk(d, ids).state \in {"terminated", "generating"}
<1>. DEFINE e == Extended(d, ids)
<1>1. /\ e \in DataType /\ e.text = d.text \o ids /\ e.logprobs = d.logprobs + Len(ids)
  BY ExtendedShape
<1>2. CutChunk(d, ids) = IF Len(e.text) >= ResponseLength
                         THEN [e EXCEPT !.state = "terminated", !.assistant = @ + 1]
                         ELSE [e EXCEPT !.state = "generating"]
  BY DEF CutChunk
<1>. HIDE DEF e
<1>3. e.assistant + 1 \in Nat
  BY <1>1 DEF DataType
<1>4. CASE Len(e.text) >= ResponseLength
  <2>1. CutChunk(d, ids) = [e EXCEPT !.state = "terminated", !.assistant = @ + 1]
    BY <1>2, <1>4
  <2>. QED BY <1>1, <1>3, <2>1 DEF DataType, States
<1>5. CASE ~(Len(e.text) >= ResponseLength)
  <2>1. CutChunk(d, ids) = [e EXCEPT !.state = "generating"]
    BY <1>2, <1>5
  <2>. QED BY <1>1, <2>1 DEF DataType, States
<1>. QED BY <1>4, <1>5

LEMMA WholeChunkShape ==
  ASSUME NEW d \in DataType, NEW ids \in Seq(Token)
  PROVE  /\ WholeChunk(d, ids) \in DataType
         /\ WholeChunk(d, ids).text = d.text \o ids
         /\ WholeChunk(d, ids).logprobs = d.logprobs + Len(ids)
<1>. DEFINE f == Extended(d, ids)
            e == [f EXCEPT !.assistant = @ + 1]
            x == IF \/ Len(e.text) >= ResponseLength
                    \/ MaxAssistantTurns > 0 /\ e.assistant >= MaxAssistantTurns
                    \/ MaxUserTurns > 0 /\ e.user >= MaxUserTurns
                 THEN "terminated"
                 ELSE IF HasCall(e.chunk) THEN "tools"
                 ELSE IF Interaction THEN "interacting" ELSE "terminated"
<1>1. /\ f \in DataType /\ f.text = d.text \o ids /\ f.logprobs = d.logprobs + Len(ids)
  BY ExtendedShape
<1>2. WholeChunk(d, ids) = [e EXCEPT !.state = x]
  BY DEF WholeChunk
<1>3. x \in States
  BY DEF States
<1>. HIDE DEF f, x
<1>4. /\ e \in DataType /\ e.text = d.text \o ids /\ e.logprobs = d.logprobs + Len(ids)
  <2>1. f.assistant + 1 \in Nat
    BY <1>1 DEF DataType
  <2>2. e \in DataType
    BY <1>1, <2>1 DEF DataType
  <2>3. e.text = f.text /\ e.logprobs = f.logprobs
    BY <1>1 DEF DataType
  <2>. QED BY <1>1, <2>2, <2>3
<1>. HIDE DEF e
<1>. QED BY <1>2, <1>3, <1>4 DEF DataType

\* The answer of the environment, n tokens long
Answer(n) == [i \in 1..n |-> [kind |-> "env", version |-> version]]

LEMMA ObservedShape ==
  ASSUME NEW d \in DataType, NEW n \in Nat, version \in Nat
  PROVE  /\ Answer(n) \in Seq(Token) /\ Len(Answer(n)) = n
         /\ Observed(d, n) \in DataType
         /\ Observed(d, n).text = d.text \o Answer(n)
         /\ Observed(d, n).logprobs = IF d.logprobs > 0 THEN d.logprobs + n ELSE d.logprobs
<1>1. [kind |-> "env", version |-> version] \in Token
  BY DEF Token, Kinds
<1>2. Answer(n) \in Seq(Token) /\ Len(Answer(n)) = n
  BY <1>1 DEF Answer
<1>3. d.text \o Answer(n) \in Seq(Token) /\ d.logprobs \in Nat
  BY <1>2 DEF DataType
<1>. DEFINE t == d.text \o Answer(n)
            k == IF d.logprobs > 0 THEN d.logprobs + n ELSE d.logprobs
<1>4. t \in Seq(Token) /\ k \in Nat
  BY <1>3
<1>5. Observed(d, n) = [d EXCEPT !.text = t, !.logprobs = k, !.user = @ + 1, !.state = "generating"]
  BY DEF Observed, Answer
<1>. HIDE DEF t, k
<1>6. d.user + 1 \in Nat /\ "generating" \in States
  BY DEF DataType, States
<1>7. Observed(d, n) \in DataType
  BY <1>4, <1>5, <1>6 DEF DataType
<1>8. Observed(d, n).text = t /\ Observed(d, n).logprobs = k
  BY <1>5 DEF DataType
<1>. QED BY <1>2, <1>7, <1>8 DEF t, k

LEMMA CappedShape ==
  ASSUME NEW t \in Seq(Token)
  PROVE  /\ Capped(t) \in Seq(Token) /\ Len(Capped(t)) \in 0..Len(t)
         /\ \A i \in 1..Len(Capped(t)) : Capped(t)[i] = t[i]
<1>. DEFINE m == Min({Len(t), ResponseLength})
<1>1. m \in 0..Len(t)
  <2>1. Len(t) \in Nat /\ ResponseLength \in Nat
    BY AgentAssumption
  <2>2. \E x \in {Len(t), ResponseLength} : \A y \in {Len(t), ResponseLength} : x <= y
    BY <2>1
  <2>3. m \in {Len(t), ResponseLength} /\ m <= Len(t)
    BY <2>2 DEF Min
  <2>. QED BY <2>1, <2>3
<1>. HIDE DEF m
<1>2. Capped(t) = SubSeq(t, 1, m)
  BY DEF Capped, m
<1>. QED BY <1>1, <1>2

----------------------------------------------------------------------------
(* What a trajectory has said                                               *)

Within(t, lo, hi) == \A i \in 1..Len(t) : t[i].version \in lo..hi
Ordered(t) == \A i \in 1..Len(t) - 1 : t[i].version <= t[i + 1].version

\* What the server of a call that waits has generated for it
OutOf(l) == req[callee[l]][l].out

\* A completed trajectory is at rest, a whole reply is not empty, and tools and
\* users answer something that has been said.
Said(l) ==
    /\ output[l] = "completed" => pc[l] \in {"idle", "returned"}
    /\ pc[l] = "reply" /\ ~reply[l].cancel => reply[l].ids # <<>>
    /\ output[l] # "completed" =>
         /\ data[l].logprobs = Len(data[l].text)
         /\ data[l].state \in {"tools", "interacting"} => data[l].text # <<>>

\* A call is answered by the weights it was made with, and a trajectory ends with
\* weights at most one version newer than its sample was given.
Versioned(l) ==
    /\ bounds[l].first <= version
    /\ Within(data[l].text, bounds[l].first, version) /\ Ordered(data[l].text)
    /\ pc[l] = "waiting" => Within(OutOf(l), version, version)
    /\ pc[l] = "reply" => Within(reply[l].ids, version, version)
    /\ output[l] = "completed" => Within(data[l].text, bounds[l].first, bounds[l].last + 1)

Remembered(s, l) ==
    req[s][l] # NoRequest /\ ~(pc[l] = "waiting" /\ callee[l] = s)
        => engine = "vllm" /\ req[s][l].out = <<>>

LoopInv(l) == Said(l) /\ Versioned(l) /\ \A s \in Servers : Remembered(s, l)

\* The rollouter learns of the weights one step after the servers; a sample that is
\* submitted in between is given the version before.
ParamRecent ==
    /\ param \in Nat /\ version = IF phase = "synced" THEN param + 1 ELSE param
    /\ \A s \in Samples : task[s] = "active" =>
         /\ paramOf[s] \in Nat /\ version <= paramOf[s] + 1
         /\ phase = "paused" => paramOf[s] = param

AgentInv ==
    /\ QuietInv /\ TextTypes /\ PlaceTypes /\ ParamRecent /\ engine \in {"vllm", "sglang"}
    /\ \A l \in Loops : LoopInv(l)

LEMMA JoinedLengths ==
  ASSUME NEW t \in Seq(Token), NEW u \in Seq(Token)
  PROVE  /\ Len(t \o u) = Len(t) + Len(u)
         /\ t # <<>> => Len(t) > 0 /\ t \o u # <<>>
         /\ u # <<>> => t \o u # <<>>
  OBVIOUS

LEMMA JoinedTexts ==
  ASSUME NEW t \in Seq(Token), NEW u \in Seq(Token), NEW lo \in Nat, NEW v \in Nat, lo <= v,
         Within(t, lo, v), Ordered(t), Within(u, v, v)
  PROVE  Within(t \o u, lo, v) /\ Ordered(t \o u)
<1>. DEFINE w == t \o u
<1>1. /\ Len(w) = Len(t) + Len(u) /\ Len(t) \in Nat /\ Len(u) \in Nat
      /\ \A i \in 1..Len(t) : w[i] = t[i]
      /\ \A i \in Len(t) + 1..Len(w) : w[i] = u[i - Len(t)]
  OBVIOUS
<1>. HIDE DEF w
<1>2. \A i \in 1..Len(t) : w[i].version \in lo..v
  BY <1>1 DEF Within
<1>3. \A i \in Len(t) + 1..Len(w) : w[i].version = v
  <2>. SUFFICES ASSUME NEW i \in Len(t) + 1..Len(w) PROVE w[i].version = v
    OBVIOUS
  <2>1. i - Len(t) \in 1..Len(u)
    BY <1>1
  <2>. QED BY <1>1, <2>1 DEF Within
<1>4. Within(w, lo, v)
  BY <1>1, <1>2, <1>3 DEF Within
<1>5. Ordered(w)
  <2>. SUFFICES ASSUME NEW i \in 1..Len(w) - 1 PROVE w[i].version <= w[i + 1].version
    BY DEF Ordered
  <2>1. CASE i < Len(t)
    <3>1. i \in 1..Len(t) - 1 /\ i \in 1..Len(t) /\ i + 1 \in 1..Len(t)
      BY <1>1, <2>1
    <3>. QED BY <1>1, <3>1 DEF Ordered
  <2>2. CASE i >= Len(t)
    <3>1. i + 1 \in Len(t) + 1..Len(w) /\ i \in 1..Len(w)
      BY <1>1, <2>2
    <3>2. w[i + 1].version = v
      BY <1>3, <3>1
    <3>. QED BY <1>4, <3>1, <3>2 DEF Within
  <2>. QED BY <1>1, <2>1, <2>2
<1>. QED BY <1>4, <1>5 DEF w

LEMMA AppendedText ==
  ASSUME NEW t \in Seq(Token), NEW k \in Token, NEW v \in Nat, Within(t, v, v), k.version = v
  PROVE  Append(t, k) \in Seq(Token) /\ Within(Append(t, k), v, v)
<1>. DEFINE w == Append(t, k)
<1>1. /\ w \in Seq(Token) /\ Len(w) = Len(t) + 1 /\ Len(t) \in Nat
      /\ w[Len(t) + 1] = k /\ \A i \in 1..Len(t) : w[i] = t[i]
  OBVIOUS
<1>. HIDE DEF w
<1>2. Within(w, v, v)
  <2>. SUFFICES ASSUME NEW i \in 1..Len(w) PROVE w[i].version \in v..v
    BY DEF Within
  <2>1. i \in 1..Len(t) \/ i = Len(t) + 1
    BY <1>1
  <2>. QED BY <1>1, <2>1 DEF Within
<1>. QED BY <1>1, <1>2 DEF w

LEMMA CappedTexts ==
  ASSUME NEW t \in Seq(Token), NEW lo, NEW hi, Within(t, lo, hi), Ordered(t)
  PROVE  Within(Capped(t), lo, hi) /\ Ordered(Capped(t))
<1>1. /\ Capped(t) \in Seq(Token) /\ Len(Capped(t)) \in 0..Len(t) /\ Len(t) \in Nat
      /\ \A i \in 1..Len(Capped(t)) : Capped(t)[i] = t[i]
  BY CappedShape
<1>. DEFINE c == Capped(t)
<1>. HIDE DEF c
<1>2. /\ Len(c) \in 0..Len(t) /\ Len(t) \in Nat
      /\ \A i \in 1..Len(c) : c[i] = t[i]
  BY <1>1 DEF c
<1>3. Within(c, lo, hi)
  <2>. SUFFICES ASSUME NEW i \in 1..Len(c) PROVE c[i].version \in lo..hi
    BY DEF Within
  <2>1. i \in 1..Len(t) /\ c[i] = t[i]
    BY <1>2
  <2>. QED BY <2>1 DEF Within
<1>4. Ordered(c)
  <2>. SUFFICES ASSUME NEW i \in 1..Len(c) - 1 PROVE c[i].version <= c[i + 1].version
    BY DEF Ordered
  <2>1. i \in 1..Len(c) /\ i + 1 \in 1..Len(c) /\ i \in 1..Len(t) - 1
    BY <1>2
  <2>2. c[i] = t[i] /\ c[i + 1] = t[i + 1]
    BY <1>2, <2>1
  <2>. QED BY <2>1, <2>2 DEF Ordered
<1>. QED BY <1>3, <1>4 DEF c

\* Writing one request of one server
LEMMA RequestSet ==
  ASSUME NEW S, NEW L, NEW R, NEW f \in [S -> [L -> R]], NEW s \in S, NEW l \in L, NEW x \in R
  PROVE  /\ [f EXCEPT ![s][l] = x] \in [S -> [L -> R]]
         /\ [f EXCEPT ![s][l] = x][s][l] = x
         /\ \A t \in S, m \in L : t # s \/ m # l => [f EXCEPT ![s][l] = x][t][m] = f[t][m]
<1>1. [f[s] EXCEPT ![l] = x] \in [L -> R]
  OBVIOUS
<1>. QED BY <1>1

----------------------------------------------------------------------------
(* A step of a trajectory                                                   *)

\* A step of trajectory l leaves the others, the samples and the weights alone.
Alone(l) ==
    /\ UNCHANGED <<version, engine, taskVars>>
    /\ \A m \in Loops \ {l} :
         /\ data'[m] = data[m] /\ output'[m] = output[m] /\ pc'[m] = pc[m]
         /\ callee'[m] = callee[m] /\ reply'[m] = reply[m] /\ bounds'[m] = bounds[m]
         /\ \A s \in Servers : req'[s][m] = req[s][m]

LEMMA OthersKept ==
  ASSUME NEW l \in Loops, Alone(l), NEW m \in Loops, m # l, LoopInv(m), PlaceTypes
  PROVE  LoopInv(m)'
<1>1. /\ data'[m] = data[m] /\ output'[m] = output[m] /\ pc'[m] = pc[m]
      /\ callee'[m] = callee[m] /\ reply'[m] = reply[m] /\ bounds'[m] = bounds[m]
      /\ version' = version /\ engine' = engine
      /\ \A s \in Servers : req'[s][m] = req[s][m]
  BY DEF Alone
<1>2. pc[m] = "waiting" => OutOf(m)' = OutOf(m)
  BY <1>1 DEF OutOf, PlaceTypes
<1>3. Said(m)'
  BY <1>1 DEF LoopInv, Said
<1>4. Versioned(m)'
  BY <1>1, <1>2 DEF LoopInv, Versioned, Within, Ordered
<1>5. \A s \in Servers : Remembered(s, m)'
  BY <1>1 DEF LoopInv, Remembered
<1>. QED BY <1>3, <1>4, <1>5 DEF LoopInv

LEMMA AloneKeeps ==
  ASSUME AgentInv, NEW l \in Loops, StepOf(l), Alone(l), TextTypes',
         route' \in [1..Workers -> [Loops -> Servers \cup {0}]],
         callee' \in [Loops -> Servers \cup {0}],
         pc'[l] \in {"sent", "waiting"} => callee'[l] \in Servers,
         LoopInv(l)'
  PROVE  AgentInv'
<1>1. QuietInv'
  BY LoopStep DEF AgentInv, PlaceTypes
<1>2. PlaceTypes'
  BY DEF AgentInv, PlaceTypes, Alone, taskVars
<1>3. ParamRecent' /\ (engine \in {"vllm", "sglang"})'
  <2>1. UNCHANGED <<param, phase>>
    BY DEF StepOf, LoopCompleted, LoopCancelled, HandlePending, SendGenerate, Accepted, Refused,
       Streamed, Answered, HandleReply, SingleTurnReply, HandleTools, HandleInteracting, managerVars
  <2>. QED BY <2>1 DEF AgentInv, ParamRecent, Alone, taskVars
<1>4. \A m \in Loops : LoopInv(m)'
  BY OthersKept DEF AgentInv
<1>. QED BY <1>1, <1>2, <1>3, <1>4 DEF AgentInv

\* What is known of a trajectory that is under way
LEMMA UnderWay ==
  ASSUME AgentInv, NEW l \in Loops, pc[l] \in {"loop", "sent", "waiting", "reply"}
  PROVE  /\ output[l] # "completed" /\ Worker(l) \in 1..Workers
         /\ paramOf[l[1]] \in Nat /\ version <= paramOf[l[1]] + 1
         /\ version \in Nat /\ data[l] \in DataType /\ bounds[l] \in [first : Nat, last : Nat]
         /\ bounds[l].first <= version /\ data[l].logprobs = Len(data[l].text)
         /\ data[l].state \in {"tools", "interacting"} => data[l].text # <<>>
         /\ Within(data[l].text, bounds[l].first, version) /\ Ordered(data[l].text)
  BY LoopPairs DEF AgentInv, QuietInv, LoopOfActive, ParamRecent, PlaceTypes, TextTypes, LoopInv,
     Said, Versioned, Worker

\* A handler that changes what the trajectory has said
LEMMA DataStep ==
  ASSUME AgentInv, NEW l \in Loops, StepOf(l), pc[l] \in {"loop", "reply"},
         NEW d \in DataType, data' = [data EXCEPT ![l] = d],
         d.logprobs = Len(d.text), d.state \in {"tools", "interacting"} => d.text # <<>>,
         Within(d.text, bounds[l].first, version), Ordered(d.text),
         pc' = [pc EXCEPT ![l] = "loop"],
         reply' = reply \/ reply' = [reply EXCEPT ![l] = NoReply],
         UNCHANGED <<serverVars, output, callee, bounds, taskVars, routeVars>>
  PROVE  AgentInv'
<1>1. Alone(l)
  BY DEF Alone, serverVars, taskVars, AgentInv, TextTypes, QuietInv, Shapes
<1>2. TextTypes'
  BY FreshTypes DEF AgentInv, TextTypes, serverVars
<1>3. data'[l] = d /\ pc'[l] = "loop"
  BY DEF AgentInv, TextTypes, QuietInv, Shapes
<1>4. /\ version' = version /\ output'[l] = output[l] /\ output[l] # "completed"
      /\ bounds'[l] = bounds[l] /\ bounds[l].first <= version /\ req' = req /\ engine' = engine
  BY UnderWay DEF serverVars
<1>5. Said(l)'
  BY <1>3, <1>4 DEF Said
<1>6. Versioned(l)'
  BY <1>3, <1>4 DEF Versioned
<1>7. \A s \in Servers : Remembered(s, l)'
  BY <1>3, <1>4 DEF Remembered, AgentInv, LoopInv
<1>8. LoopInv(l)'
  BY <1>5, <1>6, <1>7 DEF LoopInv
<1>. QED BY <1>1, <1>2, <1>3, <1>8, AloneKeeps DEF routeVars, AgentInv, PlaceTypes

LEMMA PcAtLoop ==
  ASSUME AgentInv, NEW l \in Loops, pc[l] = "loop", UNCHANGED pc
  PROVE  pc' = [pc EXCEPT ![l] = "loop"]
  BY DEF AgentInv, QuietInv, Shapes

LEMMA StateSet ==
  ASSUME NEW d \in DataType, NEW x \in States
  PROVE  /\ [d EXCEPT !.state = x] \in DataType
         /\ [d EXCEPT !.state = x].state = x
         /\ [d EXCEPT !.state = x].text = d.text
         /\ [d EXCEPT !.state = x].logprobs = d.logprobs
  BY DEF DataType

LEMMA PendingKeeps == ASSUME AgentInv, NEW l \in Loops, HandlePending(l) PROVE AgentInv'
<1>. DEFINE d == [data[l] EXCEPT !.state = "generating"]
<1>1. /\ pc[l] = "loop" /\ data' = [data EXCEPT ![l] = d]
      /\ UNCHANGED <<serverVars, output, pc, callee, reply, bounds, taskVars, routeVars>>
  BY DEF HandlePending, AtState
<1>2. pc' = [pc EXCEPT ![l] = "loop"]
  BY <1>1, PcAtLoop
<1>3. data[l] \in DataType /\ "generating" \in States
  BY <1>1, UnderWay DEF States
<1>4. d \in DataType /\ d.state = "generating" /\ d.text = data[l].text /\ d.logprobs = data[l].logprobs
  BY <1>3, StateSet
<1>. HIDE DEF d
<1>5. /\ data[l].logprobs = Len(data[l].text)
      /\ Within(data[l].text, bounds[l].first, version) /\ Ordered(data[l].text)
  BY <1>1, UnderWay
<1>6. StepOf(l)
  BY DEF StepOf
<1>. QED BY <1>1, <1>2, <1>4, <1>5, <1>6, DataStep

\* The answer of a tool or of the user is dated by the weights in use.
LEMMA AnswerJoins ==
  ASSUME AgentInv, NEW l \in Loops, pc[l] = "loop", data[l].text # <<>>, NEW n \in Nat
  PROVE  LET d == Observed(data[l], n)
         IN  /\ d \in DataType /\ d.logprobs = Len(d.text) /\ d.text # <<>>
             /\ Within(d.text, bounds[l].first, version) /\ Ordered(d.text)
<1>1. /\ version \in Nat /\ data[l] \in DataType /\ data[l].logprobs = Len(data[l].text)
      /\ Within(data[l].text, bounds[l].first, version) /\ Ordered(data[l].text)
      /\ bounds[l].first \in Nat /\ bounds[l].first <= version /\ data[l].text \in Seq(Token)
  BY UnderWay DEF DataType
<1>2. /\ Answer(n) \in Seq(Token) /\ Len(Answer(n)) = n
      /\ Observed(data[l], n) \in DataType
      /\ Observed(data[l], n).text = data[l].text \o Answer(n)
      /\ Observed(data[l], n).logprobs = IF data[l].logprobs > 0 THEN data[l].logprobs + n ELSE data[l].logprobs
  BY <1>1, ObservedShape
<1>3. Within(Answer(n), version, version)
  BY <1>1 DEF Within, Answer
<1>. DEFINE t == data[l].text
            a == Answer(n)
<1>4. Within(t \o a, bounds[l].first, version) /\ Ordered(t \o a)
  BY <1>1, <1>2, <1>3, JoinedTexts
<1>5. Len(t \o a) = Len(t) + n /\ Len(t) > 0 /\ t \o a # <<>>
  BY <1>1, <1>2, JoinedLengths
<1>. QED BY <1>1, <1>2, <1>4, <1>5

LEMMA ToolsKeeps == ASSUME AgentInv, NEW l \in Loops, HandleTools(l) PROVE AgentInv'
<1>1. /\ pc[l] = "loop" /\ data[l].state = "tools"
      /\ UNCHANGED <<serverVars, output, pc, callee, reply, bounds, taskVars, routeVars>>
  BY DEF HandleTools, AtState
<1>2. PICK n \in 1..MaxAnswer :
        data' = [data EXCEPT ![l] = IF Len(data[l].text) + n >= ResponseLength
                                     THEN [data[l] EXCEPT !.state = "terminated"]
                                     ELSE Observed(data[l], n)]
  BY DEF HandleTools
<1>3. pc' = [pc EXCEPT ![l] = "loop"] /\ n \in Nat /\ StepOf(l)
  BY <1>1, PcAtLoop, AgentAssumption DEF StepOf
<1>4. /\ data[l] \in DataType /\ data[l].logprobs = Len(data[l].text) /\ data[l].text # <<>>
      /\ Within(data[l].text, bounds[l].first, version) /\ Ordered(data[l].text)
  BY <1>1, UnderWay
<1>5. CASE Len(data[l].text) + n >= ResponseLength
  <2>. DEFINE d == [data[l] EXCEPT !.state = "terminated"]
  <2>1. data' = [data EXCEPT ![l] = d]
    BY <1>2, <1>5
  <2>2. /\ d \in DataType /\ d.state = "terminated"
        /\ d.text = data[l].text /\ d.logprobs = data[l].logprobs
    BY <1>4, StateSet DEF States
  <2>. HIDE DEF d
  <2>. QED BY <1>1, <1>3, <1>4, <2>1, <2>2, DataStep
<1>6. CASE ~(Len(data[l].text) + n >= ResponseLength)
  <2>. DEFINE d == Observed(data[l], n)
  <2>1. data' = [data EXCEPT ![l] = d]
    BY <1>2, <1>6
  <2>2. /\ d \in DataType /\ d.logprobs = Len(d.text) /\ d.text # <<>>
        /\ Within(d.text, bounds[l].first, version) /\ Ordered(d.text)
    BY <1>1, <1>3, <1>4, AnswerJoins
  <2>. HIDE DEF d
  <2>. QED BY <1>1, <1>3, <2>1, <2>2, DataStep
<1>. QED BY <1>5, <1>6

LEMMA InteractingKeeps == ASSUME AgentInv, NEW l \in Loops, HandleInteracting(l) PROVE AgentInv'
<1>1. /\ pc[l] = "loop" /\ data[l].state = "interacting"
      /\ UNCHANGED <<serverVars, output, pc, callee, reply, bounds, taskVars, routeVars>>
  BY DEF HandleInteracting, AtState
<1>2. PICK n \in 1..MaxAnswer, stop \in BOOLEAN :
        data' = [data EXCEPT ![l] = [Observed(data[l], n) EXCEPT
                   !.state = IF stop THEN "terminated" ELSE "generating"]]
  BY DEF HandleInteracting
<1>3. pc' = [pc EXCEPT ![l] = "loop"] /\ n \in Nat /\ StepOf(l) /\ data[l].text # <<>>
  BY <1>1, PcAtLoop, AgentAssumption, UnderWay DEF StepOf
<1>. DEFINE o == Observed(data[l], n)
            x == IF stop THEN "terminated" ELSE "generating"
            d == [o EXCEPT !.state = x]
<1>4. /\ o \in DataType /\ o.logprobs = Len(o.text) /\ o.text # <<>>
      /\ Within(o.text, bounds[l].first, version) /\ Ordered(o.text)
  BY <1>1, <1>3, AnswerJoins
<1>5. x \in States
  BY DEF States
<1>6. data' = [data EXCEPT ![l] = d]
  BY <1>2
<1>. HIDE DEF o, x
<1>7. d \in DataType /\ d.text = o.text /\ d.logprobs = o.logprobs
  BY <1>4, <1>5, StateSet
<1>. HIDE DEF d
<1>. QED BY <1>1, <1>3, <1>4, <1>6, <1>7, DataStep

\* A reply joins what has been said: its tokens are of the weights in use.
LEMMA ReplyJoins ==
  ASSUME AgentInv, NEW l \in Loops, pc[l] = "reply"
  PROVE  /\ reply[l].ids \in Seq(Token) /\ data[l] \in DataType
         /\ data[l].logprobs + Len(reply[l].ids) = Len(data[l].text \o reply[l].ids)
         /\ Within(data[l].text \o reply[l].ids, bounds[l].first, version)
         /\ Ordered(data[l].text \o reply[l].ids)
         /\ reply[l].ids # <<>> => data[l].text \o reply[l].ids # <<>>
<1>1. /\ version \in Nat /\ data[l] \in DataType /\ data[l].logprobs = Len(data[l].text)
      /\ Within(data[l].text, bounds[l].first, version) /\ Ordered(data[l].text)
      /\ bounds[l].first \in Nat /\ bounds[l].first <= version /\ data[l].text \in Seq(Token)
  BY UnderWay DEF DataType
<1>2. reply[l].ids \in Seq(Token) /\ Within(reply[l].ids, version, version)
  BY DEF AgentInv, TextTypes, ReplyType, LoopInv, Versioned
<1>. DEFINE t == data[l].text
            u == reply[l].ids
<1>3. Within(t \o u, bounds[l].first, version) /\ Ordered(t \o u)
  BY <1>1, <1>2, JoinedTexts
<1>4. Len(t \o u) = Len(t) + Len(u) /\ (u # <<>> => t \o u # <<>>)
  BY <1>1, <1>2, JoinedLengths
<1>. QED BY <1>1, <1>2, <1>3, <1>4

LEMMA ReplyKeeps == ASSUME AgentInv, NEW l \in Loops, HandleReply(l) PROVE AgentInv'
<1>1. /\ pc[l] = "reply" /\ pc' = [pc EXCEPT ![l] = "loop"]
      /\ reply' = [reply EXCEPT ![l] = NoReply]
      /\ data' = [data EXCEPT ![l] = IF reply[l].cancel THEN CutChunk(data[l], reply[l].ids)
                                     ELSE WholeChunk(data[l], reply[l].ids)]
      /\ UNCHANGED <<serverVars, output, callee, bounds, taskVars, routeVars>>
      /\ StepOf(l)
  BY DEF HandleReply, StepOf
<1>. DEFINE u == reply[l].ids
            t == data[l].text \o u
<1>2. /\ u \in Seq(Token) /\ data[l] \in DataType /\ data[l].logprobs + Len(u) = Len(t)
      /\ Within(t, bounds[l].first, version) /\ Ordered(t) /\ (u # <<>> => t # <<>>)
  BY <1>1, ReplyJoins
<1>3. CASE reply[l].cancel
  <2>. DEFINE d == CutChunk(data[l], u)
  <2>1. /\ d \in DataType /\ d.text = t /\ d.logprobs = data[l].logprobs + Len(u)
        /\ d.state \in {"terminated", "generating"}
    BY <1>2, CutChunkShape
  <2>2. data' = [data EXCEPT ![l] = d]
    BY <1>1, <1>3
  <2>. HIDE DEF d, t
  <2>. QED BY <1>1, <1>2, <2>1, <2>2, DataStep
<1>4. CASE ~reply[l].cancel
  <2>. DEFINE d == WholeChunk(data[l], u)
  <2>1. d \in DataType /\ d.text = t /\ d.logprobs = data[l].logprobs + Len(u)
    BY <1>2, WholeChunkShape
  <2>2. data' = [data EXCEPT ![l] = d]
    BY <1>1, <1>4
  <2>3. t # <<>>
    BY <1>1, <1>2, <1>4 DEF AgentInv, LoopInv, Said
  <2>. HIDE DEF d, t
  <2>. QED BY <1>1, <1>2, <2>1, <2>2, <2>3, DataStep
<1>. QED BY <1>3, <1>4

\* The end of a run: what is returned was written up to the version the sample
\* was given.
LEMMA ReturnStep ==
  ASSUME AgentInv, NEW l \in Loops, StepOf(l), pc[l] \in {"loop", "reply"},
         NEW d \in DataType, NEW kind \in {"completed", "cancelled"}, Return(l, d, kind),
         kind = "cancelled" => /\ d.logprobs = Len(d.text)
                               /\ d.state \in {"tools", "interacting"} => d.text # <<>>,
         Within(d.text, bounds[l].first, version), Ordered(d.text),
         reply' = reply \/ reply' = [reply EXCEPT ![l] = NoReply],
         UNCHANGED <<serverVars, callee, taskVars, routeVars>>
  PROVE  AgentInv'
<1>. DEFINE c == Capped(d.text)
            e == IF kind = "completed" THEN [d EXCEPT !.text = c] ELSE d
            v == paramOf[l[1]]
            b == [bounds[l] EXCEPT !.last = v]
<1>1. d.text \in Seq(Token)
  BY DEF DataType
<1>2. c \in Seq(Token) /\ Within(c, bounds[l].first, version) /\ Ordered(c)
  BY <1>1, CappedShape, CappedTexts
<1>3. /\ pc' = [pc EXCEPT ![l] = "returned"] /\ output' = [output EXCEPT ![l] = kind]
      /\ data' = [data EXCEPT ![l] = e] /\ bounds' = [bounds EXCEPT ![l].last = paramOf[l[1]]]
  BY DEF Return
<1>. HIDE DEF c
<1>4. /\ e \in DataType /\ Within(e.text, bounds[l].first, version) /\ Ordered(e.text)
      /\ kind = "cancelled" => e = d
  <2>1. CASE kind = "completed"
    <3>1. e = [d EXCEPT !.text = c]
      BY <2>1
    <3>2. e \in DataType /\ e.text = c
      BY <1>2, <3>1 DEF DataType
    <3>. QED BY <1>2, <2>1, <3>2
  <2>2. CASE kind = "cancelled"
    BY <2>2
  <2>. QED BY <2>1, <2>2
<1>. HIDE DEF e
<1>5. /\ bounds[l] \in [first : Nat, last : Nat] /\ bounds[l].first <= version /\ version \in Nat
      /\ v \in Nat /\ version <= v + 1
  BY UnderWay
<1>6. /\ b \in [first : Nat, last : Nat] /\ b.first = bounds[l].first /\ b.last = v
  BY <1>5
<1>7. bounds' = [bounds EXCEPT ![l] = b]
  BY <1>3, <1>5 DEF AgentInv, TextTypes
<1>. HIDE DEF b
<1>8. Alone(l)
  BY <1>3, <1>7 DEF Alone, serverVars, taskVars, AgentInv, TextTypes, QuietInv, Shapes
<1>9. /\ version' \in Nat /\ req' \in [Servers -> [Loops -> RequestType]]
      /\ reply' \in [Loops -> ReplyType]
  BY FreshTypes DEF AgentInv, TextTypes, serverVars
<1>10. /\ data' \in [Loops -> DataType] /\ bounds' \in [Loops -> [first : Nat, last : Nat]]
       /\ output' \in [Loops -> {"none", "cancelled", "completed"}]
  <2>1. bounds' \in [Loops -> [first : Nat, last : Nat]]
    BY <1>6, <1>7 DEF AgentInv, TextTypes
  <2>2. /\ data' \in [Loops -> DataType]
        /\ output' \in [Loops -> {"none", "cancelled", "completed"}]
    BY <1>3, <1>4 DEF AgentInv, TextTypes
  <2>. QED BY <2>1, <2>2
<1>11. TextTypes'
  BY <1>9, <1>10 DEF TextTypes
<1>12. /\ data'[l] = e /\ pc'[l] = "returned" /\ output'[l] = kind /\ bounds'[l] = b
       /\ version' = version /\ req' = req /\ engine' = engine
  BY <1>3, <1>7 DEF AgentInv, TextTypes, QuietInv, Shapes, serverVars
<1>13. Said(l)'
  BY <1>4, <1>12 DEF Said
<1>14. Versioned(l)'
  <2>. HIDE DEF v
  <2>1. e.text \in Seq(Token)
    BY <1>4 DEF DataType
  <2>2. Within(e.text, bounds[l].first, v + 1)
    BY <1>4, <1>5, <2>1 DEF Within, Token
  <2>. QED BY <1>4, <1>5, <1>6, <1>12, <2>2 DEF Versioned
<1>15. \A s \in Servers : Remembered(s, l)'
  BY <1>12 DEF Remembered, AgentInv, LoopInv
<1>16. LoopInv(l)'
  BY <1>13, <1>14, <1>15 DEF LoopInv
<1>. QED BY <1>8, <1>11, <1>12, <1>16, AloneKeeps DEF routeVars, AgentInv, PlaceTypes

LEMMA LoopReturns ==
  ASSUME AgentInv, NEW l \in Loops, LoopCompleted(l) \/ LoopCancelled(l)
  PROVE  AgentInv'
<1>1. PICK kind \in {"completed", "cancelled"} : Return(l, data[l], kind)
  BY DEF LoopCompleted, LoopCancelled
<1>2. /\ pc[l] = "loop" /\ reply' = reply
      /\ UNCHANGED <<serverVars, callee, taskVars, routeVars>> /\ StepOf(l)
  BY DEF LoopCompleted, LoopCancelled, StepOf
<1>3. /\ data[l] \in DataType /\ data[l].logprobs = Len(data[l].text)
      /\ data[l].state \in {"tools", "interacting"} => data[l].text # <<>>
      /\ Within(data[l].text, bounds[l].first, version) /\ Ordered(data[l].text)
  BY <1>2, UnderWay
<1>. QED BY <1>1, <1>2, <1>3, ReturnStep

LEMMA SingleTurnKeeps == ASSUME AgentInv, NEW l \in Loops, SingleTurnReply(l) PROVE AgentInv'
<1>. DEFINE u == reply[l].ids
            t == data[l].text \o u
            d == Extended(data[l], u)
<1>1. /\ pc[l] = "reply" /\ reply' = [reply EXCEPT ![l] = NoReply]
      /\ UNCHANGED <<serverVars, callee, taskVars, routeVars>> /\ StepOf(l)
  BY DEF SingleTurnReply, StepOf
<1>2. PICK kind \in {"completed", "cancelled"} : Return(l, d, kind)
  BY DEF SingleTurnReply
<1>3. /\ u \in Seq(Token) /\ data[l] \in DataType /\ data[l].logprobs + Len(u) = Len(t)
      /\ Within(t, bounds[l].first, version) /\ Ordered(t)
  BY <1>1, ReplyJoins
<1>4. /\ d \in DataType /\ d.text = t /\ d.logprobs = data[l].logprobs + Len(u)
      /\ d.state = data[l].state
  BY <1>3, ExtendedShape
<1>5. data[l].state \in {"tools", "interacting"} => t # <<>>
  <2>1. data[l].text \in Seq(Token)
    BY <1>3 DEF DataType
  <2>2. data[l].state \in {"tools", "interacting"} => data[l].text # <<>>
    BY <1>1, UnderWay
  <2>. QED BY <1>3, <2>1, <2>2, JoinedLengths
<1>. HIDE DEF d, t
<1>. QED BY <1>1, <1>2, <1>3, <1>4, <1>5, ReturnStep

----------------------------------------------------------------------------
(* A call: sent, accepted or refused, streamed and answered                 *)

\* A step of a call of l: its coroutine goes to x, the server is y, the reply z.
CallMoves(l, x, y, z) ==
    /\ UNCHANGED <<version, engine, data, output, bounds, taskVars>>
    /\ x \in {"sent", "waiting", "reply"} /\ pc' = [pc EXCEPT ![l] = x]
    /\ y \in Servers \cup {0} /\ callee' = [callee EXCEPT ![l] = y]
    /\ x \in {"sent", "waiting"} => y \in Servers
    /\ z \in ReplyType /\ reply' = [reply EXCEPT ![l] = z]
    /\ x = "reply" => Within(z.ids, version, version) /\ (~z.cancel => z.ids # <<>>)
    /\ req' \in [Servers -> [Loops -> RequestType]]
    /\ \A s \in Servers, m \in Loops : m # l => req'[s][m] = req[s][m]
    /\ x = "waiting" => Within(req'[y][l].out, version, version)
    /\ \A s \in Servers : req'[s][l] # NoRequest /\ ~(x = "waiting" /\ y = s)
                           => engine = "vllm" /\ req'[s][l].out = <<>>
    /\ route' \in [1..Workers -> [Loops -> Servers \cup {0}]]

LEMMA CallStep ==
  ASSUME AgentInv, NEW l \in Loops, StepOf(l), output[l] # "completed",
         NEW x, NEW y, NEW z, CallMoves(l, x, y, z)
  PROVE  AgentInv'
<1>1. /\ pc'[l] = x /\ callee'[l] = y /\ reply'[l] = z
      /\ callee' \in [Loops -> Servers \cup {0}]
  BY DEF CallMoves, AgentInv, TextTypes, QuietInv, Shapes, PlaceTypes
<1>2. Alone(l)
  BY DEF CallMoves, Alone, taskVars, AgentInv, TextTypes, QuietInv, Shapes, PlaceTypes
<1>3. TextTypes'
  BY DEF CallMoves, AgentInv, TextTypes
<1>4. Said(l)'
  BY <1>1 DEF CallMoves, AgentInv, LoopInv, Said
<1>5. Versioned(l)'
  BY <1>1 DEF CallMoves, AgentInv, LoopInv, Versioned, OutOf
<1>6. \A s \in Servers : Remembered(s, l)'
  BY <1>1 DEF CallMoves, Remembered
<1>7. LoopInv(l)'
  BY <1>4, <1>5, <1>6 DEF LoopInv
<1>. QED BY <1>1, <1>2, <1>3, <1>7, AloneKeeps DEF CallMoves

\* What CallStep needs of the state before
LEMMA CallFacts ==
  ASSUME AgentInv, NEW l \in Loops, pc[l] \in {"loop", "sent", "waiting", "reply"}
  PROVE  /\ output[l] # "completed" /\ callee[l] \in Servers \cup {0} /\ reply[l] \in ReplyType
         /\ callee = [callee EXCEPT ![l] = callee[l]] /\ reply = [reply EXCEPT ![l] = reply[l]]
         /\ pc = [pc EXCEPT ![l] = pc[l]]
         /\ req \in [Servers -> [Loops -> RequestType]]
         /\ route \in [1..Workers -> [Loops -> Servers \cup {0}]]
         /\ pc[l] \in {"sent", "waiting"} => callee[l] \in Servers
         /\ \A s \in Servers : Remembered(s, l)
<1>1. output[l] # "completed"
  BY UnderWay
<1>. QED BY <1>1 DEF AgentInv, TextTypes, QuietInv, Shapes, PlaceTypes, LoopInv

LEMMA ServerChosen ==
  ASSUME AgentInv, NEW l \in Loops, NEW w \in 1..Workers
  PROVE  ServerFor(w, l) \subseteq Servers
  BY DEF ServerFor, AgentInv, PlaceTypes

LEMMA SendKeeps == ASSUME AgentInv, NEW l \in Loops, SendGenerate(l) PROVE AgentInv'
<1>1. /\ pc[l] = "loop" /\ pc' = [pc EXCEPT ![l] = "sent"] /\ StepOf(l)
      /\ UNCHANGED <<version, engine, req, data, output, reply, bounds, taskVars>>
  BY DEF SendGenerate, AtState, serverVars, StepOf
<1>2. PICK s \in ServerFor(Worker(l), l) :
        /\ callee' = [callee EXCEPT ![l] = s]
        /\ route' = IF l \in ToolLoops THEN [route EXCEPT ![Worker(l)][l] = s] ELSE route
  BY DEF SendGenerate
<1>3. Worker(l) \in 1..Workers
  BY <1>1, UnderWay
<1>4. s \in Servers
  BY <1>2, <1>3, ServerChosen
<1>5. route' \in [1..Workers -> [Loops -> Servers \cup {0}]]
  <2>1. route \in [1..Workers -> [Loops -> Servers \cup {0}]]
    BY <1>1, CallFacts
  <2>2. [route EXCEPT ![Worker(l)][l] = s] \in [1..Workers -> [Loops -> Servers \cup {0}]]
    BY <2>1, <1>3, <1>4, RequestSet
  <2>. QED BY <1>2, <2>1, <2>2
<1>6. /\ output[l] # "completed" /\ reply[l] \in ReplyType
      /\ reply' = [reply EXCEPT ![l] = reply[l]]
      /\ req' \in [Servers -> [Loops -> RequestType]]
  BY <1>1, CallFacts
<1>7. \A t \in Servers : req'[t][l] # NoRequest => engine = "vllm" /\ req'[t][l].out = <<>>
  BY <1>1, CallFacts DEF Remembered
<1>8. CallMoves(l, "sent", s, reply[l])
  BY <1>1, <1>2, <1>4, <1>5, <1>6, <1>7 DEF CallMoves
<1>. QED BY <1>1, <1>6, <1>8, CallStep

LEMMA AcceptedKeeps == ASSUME AgentInv, NEW l \in Loops, Accepted(l) PROVE AgentInv'
<1>. DEFINE s == callee[l]
            r == [event |-> "clear", out |-> <<>>]
<1>1. /\ pc[l] = "sent" /\ pc' = [pc EXCEPT ![l] = "waiting"] /\ StepOf(l)
      /\ req' = [req EXCEPT ![s][l] = r]
      /\ UNCHANGED <<version, engine, data, output, callee, reply, bounds, taskVars, route>>
  BY DEF Accepted, GenerateBegin, StepOf, routeVars
<1>2. r \in RequestType /\ r.out = <<>>
  BY DEF RequestType
<1>3. /\ output[l] # "completed" /\ s \in Servers /\ reply[l] \in ReplyType
      /\ callee' = [callee EXCEPT ![l] = s] /\ reply' = [reply EXCEPT ![l] = reply[l]]
      /\ req \in [Servers -> [Loops -> RequestType]]
      /\ route' \in [1..Workers -> [Loops -> Servers \cup {0}]]
  BY <1>1, CallFacts
<1>. HIDE DEF r
<1>4. /\ req' \in [Servers -> [Loops -> RequestType]] /\ req'[s][l] = r
      /\ \A t \in Servers, m \in Loops : t # s \/ m # l => req'[t][m] = req[t][m]
  BY <1>1, <1>2, <1>3, RequestSet
<1>5. Within(req'[s][l].out, version, version)
  BY <1>2, <1>4 DEF Within
<1>6. \A t \in Servers : req'[t][l] # NoRequest /\ s # t => engine = "vllm" /\ req'[t][l].out = <<>>
  BY <1>1, <1>4, CallFacts DEF Remembered
<1>7. CallMoves(l, "waiting", s, reply[l])
  BY <1>1, <1>3, <1>4, <1>5, <1>6 DEF CallMoves
<1>. QED BY <1>1, <1>3, <1>7, CallStep

LEMMA RefusedKeeps == ASSUME AgentInv, NEW l \in Loops, Refused(l) PROVE AgentInv'
<1>. DEFINE z == [ids |-> <<>>, cancel |-> TRUE]
<1>1. /\ pc[l] = "sent" /\ pc' = [pc EXCEPT ![l] = "reply"] /\ StepOf(l)
      /\ reply' = [reply EXCEPT ![l] = z]
      /\ callee' = [callee EXCEPT ![l] = 0]
      /\ UNCHANGED <<version, engine, req, data, output, bounds, taskVars, route>>
  BY DEF Refused, StepOf, routeVars, serverVars
<1>2. z \in ReplyType /\ z.cancel /\ Within(z.ids, version, version)
  BY DEF ReplyType, Within
<1>3. /\ output[l] # "completed"
      /\ req' \in [Servers -> [Loops -> RequestType]]
      /\ route' \in [1..Workers -> [Loops -> Servers \cup {0}]]
  BY <1>1, CallFacts
<1>4. \A t \in Servers : req'[t][l] # NoRequest => engine = "vllm" /\ req'[t][l].out = <<>>
  BY <1>1, CallFacts DEF Remembered
<1>. HIDE DEF z
<1>5. CallMoves(l, "reply", 0, z)
  BY <1>1, <1>2, <1>3, <1>4 DEF CallMoves
<1>. QED BY <1>1, <1>3, <1>5, CallStep

LEMMA StreamedKeeps == ASSUME AgentInv, NEW l \in Loops, Streamed(l) PROVE AgentInv'
<1>. DEFINE s == callee[l]
<1>1. /\ pc[l] = "waiting" /\ StepOf(l)
      /\ UNCHANGED <<version, engine, data, output, pc, callee, reply, bounds, taskVars, route>>
  BY DEF Streamed, GenerateStep, StepOf, loopVars, routeVars
<1>2. PICK kind \in Kinds :
        req' = [req EXCEPT ![s][l].out = Append(@, [kind |-> kind, version |-> version])]
  BY DEF Streamed, GenerateStep, NextKinds, Kinds
<1>3. /\ output[l] # "completed" /\ s \in Servers /\ reply[l] \in ReplyType
      /\ callee' = [callee EXCEPT ![l] = s] /\ reply' = [reply EXCEPT ![l] = reply[l]]
      /\ pc' = [pc EXCEPT ![l] = "waiting"]
      /\ req \in [Servers -> [Loops -> RequestType]]
      /\ route' \in [1..Workers -> [Loops -> Servers \cup {0}]]
  BY <1>1, CallFacts
<1>. DEFINE k == [kind |-> kind, version |-> version]
            o == Append(req[s][l].out, k)
            r == [req[s][l] EXCEPT !.out = o]
<1>4. /\ version \in Nat /\ k \in Token /\ k.version = version
      /\ req[s][l] \in RequestType /\ req[s][l].out \in Seq(Token)
      /\ Within(req[s][l].out, version, version)
  <2>1. version \in Nat
    BY <1>1, UnderWay
  <2>2. req[s][l] \in RequestType
    BY <1>3
  <2>3. Within(req[s][l].out, version, version)
    BY <1>1 DEF AgentInv, LoopInv, Versioned, OutOf
  <2>. QED BY <2>1, <2>2, <2>3 DEF Token, RequestType
<1>5. o \in Seq(Token) /\ Within(o, version, version)
  <2>. HIDE DEF k
  <2>. QED BY <1>4, AppendedText
<1>6. req' = [req EXCEPT ![s][l] = r]
  BY <1>2, <1>3
<1>. HIDE DEF k, o
<1>7. r \in RequestType /\ r.out = o
  BY <1>4, <1>5 DEF RequestType
<1>. HIDE DEF r
<1>8. /\ req' \in [Servers -> [Loops -> RequestType]] /\ req'[s][l] = r
      /\ \A t \in Servers, m \in Loops : t # s \/ m # l => req'[t][m] = req[t][m]
  BY <1>3, <1>6, <1>7, RequestSet
<1>9. \A t \in Servers : req'[t][l] # NoRequest /\ s # t => engine = "vllm" /\ req'[t][l].out = <<>>
  BY <1>8, <1>1, CallFacts DEF Remembered
<1>10. CallMoves(l, "waiting", s, reply[l])
  BY <1>1, <1>3, <1>5, <1>7, <1>8, <1>9 DEF CallMoves
<1>. QED BY <1>1, <1>3, <1>10, CallStep

LEMMA AnsweredKeeps == ASSUME AgentInv, NEW l \in Loops, Answered(l) PROVE AgentInv'
<1>. DEFINE s == callee[l]
            z == Result(s, l)
<1>1. /\ pc[l] = "waiting" /\ pc' = [pc EXCEPT ![l] = "reply"] /\ StepOf(l)
      /\ reply' = [reply EXCEPT ![l] = z]
      /\ req' = IF Forgotten(s, l) THEN [req EXCEPT ![s][l] = NoRequest] ELSE req
      /\ callee' = [callee EXCEPT ![l] = 0]
      /\ UNCHANGED <<version, engine, data, output, bounds, taskVars, route>>
  BY DEF Answered, GenerateEnd, StepOf, routeVars
<1>2. /\ output[l] # "completed" /\ s \in Servers
      /\ req \in [Servers -> [Loops -> RequestType]]
      /\ route' \in [1..Workers -> [Loops -> Servers \cup {0}]]
  BY <1>1, CallFacts
<1>3. req[s][l].out \in Seq(Token) /\ Within(req[s][l].out, version, version)
  BY <1>1, <1>2 DEF RequestType, AgentInv, LoopInv, Versioned, OutOf
<1>4. /\ z \in ReplyType /\ Within(z.ids, version, version) /\ (~z.cancel => z.ids # <<>>)
  BY <1>3 DEF Result, ReplyType
<1>. HIDE DEF z
<1>5. /\ req' \in [Servers -> [Loops -> RequestType]]
      /\ \A t \in Servers, m \in Loops : t # s \/ m # l => req'[t][m] = req[t][m]
      /\ req'[s][l] = IF Forgotten(s, l) THEN NoRequest ELSE req[s][l]
  <2>1. CASE Forgotten(s, l)
    <3>1. req' = [req EXCEPT ![s][l] = NoRequest]
      BY <1>1, <2>1
    <3>. QED BY <1>2, <2>1, <3>1, FreshTypes, RequestSet
  <2>2. CASE ~Forgotten(s, l)
    BY <1>1, <1>2, <2>2
  <2>. QED BY <2>1, <2>2
<1>6. \A t \in Servers : req'[t][l] # NoRequest => engine = "vllm" /\ req'[t][l].out = <<>>
  <2>. SUFFICES ASSUME NEW t \in Servers, req'[t][l] # NoRequest
                PROVE  engine = "vllm" /\ req'[t][l].out = <<>>
    OBVIOUS
  <2>1. CASE t = s
    BY <1>5, <2>1 DEF Forgotten, AgentInv
  <2>2. CASE t # s
    BY <1>1, <1>5, <2>2, CallFacts DEF Remembered
  <2>. QED BY <2>1, <2>2
<1>7. CallMoves(l, "reply", 0, z)
  BY <1>1, <1>2, <1>4, <1>5, <1>6 DEF CallMoves
<1>. QED BY <1>1, <1>2, <1>7, CallStep

LEMMA StepOfKeeps == ASSUME AgentInv, NEW l \in Loops, StepOf(l) PROVE AgentInv'
  BY LoopReturns, PendingKeeps, SendKeeps, AcceptedKeeps, RefusedKeeps, StreamedKeeps, AnsweredKeeps,
     ReplyKeeps, SingleTurnKeeps, ToolsKeeps, InteractingKeeps DEF StepOf

----------------------------------------------------------------------------
(* Samples and the manager                                                  *)

\* A sample that is taken up again goes on with what its trajectories have said.
LEMMA DispatchKeeps == ASSUME AgentInv, NEW s \in Samples, Dispatch(s) PROVE AgentInv'
<1>1. /\ task[s] = "waiting" /\ task' = [task EXCEPT ![s] = "active"]
      /\ workerOf' = [workerOf EXCEPT ![s] = nextWorker]
      /\ nextWorker' = (nextWorker % Workers) + 1
      /\ paramOf' = [paramOf EXCEPT ![s] = param]
      /\ UNCHANGED <<version, engine, req, callee, reply, route, param, phase>>
      /\ param \in Nat /\ param <= version /\ version <= param + 1
  BY DEF Dispatch, serverVars, routeVars, managerVars, AgentInv, ParamRecent
<1>2. \A l \in Loops : l \notin LoopsOf(s) => /\ pc'[l] = pc[l] /\ data'[l] = data[l]
                                              /\ output'[l] = output[l] /\ bounds'[l] = bounds[l]
  BY DEF Dispatch, LoopsOf
<1>3. \A l \in LoopsOf(s) :
        /\ l \in Loops /\ pc[l] = "idle"
        /\ pc'[l] = IF output[l] = "completed" THEN "returned" ELSE "loop"
        /\ data'[l] = IF output[l] = "none" THEN FreshData ELSE data[l]
        /\ output'[l] = IF output[l] = "completed" THEN "completed" ELSE "none"
  BY <1>1 DEF Dispatch, LoopsOf, Restored, ReturnedDirectly, AgentInv, QuietInv, LoopOfActive
<1>10. \A l \in LoopsOf(s) :
         /\ bounds'[l] \in [first : Nat, last : Nat]
         /\ IF output[l] = "none" THEN bounds'[l].first = param ELSE bounds'[l] = bounds[l]
  <2>. SUFFICES ASSUME NEW l \in LoopsOf(s)
                PROVE  /\ bounds'[l] \in [first : Nat, last : Nat]
                       /\ IF output[l] = "none" THEN bounds'[l].first = param
                          ELSE bounds'[l] = bounds[l]
    OBVIOUS
  <2>1. l \in Loops /\ bounds[l] \in [first : Nat, last : Nat] /\ param \in Nat
    BY <1>1 DEF AgentInv, TextTypes, LoopsOf
  <2>2. bounds'[l] = IF output[l] = "completed" THEN bounds[l]
                     ELSE [bounds[l] EXCEPT !.first = FirstVersion(l)]
    BY <2>1 DEF Dispatch, ReturnedDirectly
  <2>3. FirstVersion(l) = IF output[l] = "none" THEN param ELSE bounds[l].first
    BY DEF FirstVersion
  <2>. QED BY <2>1, <2>2, <2>3
<1>4. QuietInv'
  BY SampleKeeps DEF SampleStep, AgentInv
<1>5. TextTypes'
  <2>1. \A l \in Loops : /\ data'[l] \in DataType /\ output'[l] \in {"none", "cancelled", "completed"}
                         /\ bounds'[l] \in [first : Nat, last : Nat]
    BY <1>2, <1>3, <1>10, FreshTypes DEF AgentInv, TextTypes
  <2>2. /\ data' = [l \in Loops |-> data'[l]] /\ output' = [l \in Loops |-> output'[l]]
        /\ bounds' = [l \in Loops |-> bounds'[l]]
    BY DEF Dispatch
  <2>3. /\ data' \in [Loops -> DataType] /\ output' \in [Loops -> {"none", "cancelled", "completed"}]
        /\ bounds' \in [Loops -> [first : Nat, last : Nat]]
    BY <2>1, <2>2
  <2>. QED BY <1>1, <2>3 DEF AgentInv, TextTypes
<1>6. PlaceTypes'
  <2>1. version \in Nat /\ nextWorker \in 1..Workers /\ nextWorker' \in 1..Workers
    BY <1>1, AgentAssumption DEF AgentInv, TextTypes, PlaceTypes
  <2>2. \A l \in Loops : pc'[l] \in {"sent", "waiting"} => callee'[l] \in Servers
    BY <1>1, <1>2, <1>3 DEF AgentInv, PlaceTypes
  <2>3. \A t \in Samples : task'[t] = "active" => workerOf'[t] \in 1..Workers
    BY <1>1, <2>1 DEF AgentInv, PlaceTypes, QuietInv, Shapes
  <2>. QED BY <1>1, <2>1, <2>2, <2>3 DEF AgentInv, PlaceTypes
<1>7. ParamRecent'
  BY <1>1 DEF AgentInv, ParamRecent, QuietInv, Shapes, PlaceTypes
<1>8. \A l \in Loops : l \notin LoopsOf(s) => LoopInv(l)'
  <2>. SUFFICES ASSUME NEW l \in Loops, l \notin LoopsOf(s) PROVE LoopInv(l)'
    OBVIOUS
  <2>1. /\ LoopInv(l) /\ pc'[l] = pc[l] /\ data'[l] = data[l] /\ output'[l] = output[l]
        /\ bounds'[l] = bounds[l]
    BY <1>2 DEF AgentInv
  <2>2. Said(l)'
    BY <1>1, <2>1 DEF LoopInv, Said
  <2>3. Versioned(l)'
    BY <1>1, <2>1 DEF LoopInv, Versioned, Within, Ordered, OutOf
  <2>4. \A t \in Servers : Remembered(t, l)'
    BY <1>1, <2>1 DEF LoopInv, Remembered
  <2>. QED BY <2>2, <2>3, <2>4 DEF LoopInv
<1>9. \A l \in LoopsOf(s) : LoopInv(l)'
  <2>. SUFFICES ASSUME NEW l \in LoopsOf(s) PROVE LoopInv(l)'
    OBVIOUS
  <2>1. /\ l \in Loops /\ LoopInv(l) /\ pc[l] = "idle" /\ pc'[l] \in {"returned", "loop"}
        /\ version \in Nat
    BY <1>3 DEF AgentInv, TextTypes
  <2>2. \A t \in Servers : Remembered(t, l)'
    BY <1>1, <2>1 DEF LoopInv, Remembered
  <2>3. CASE output[l] = "none"
    <3>1. /\ data'[l] = FreshData /\ output'[l] = "none" /\ bounds'[l].first = param
      BY <1>3, <1>10, <2>3
    <3>2. Said(l)'
      BY <2>1, <3>1 DEF Said, FreshData
    <3>3. FreshData.text = <<>>
      BY DEF FreshData
    <3>4. Versioned(l)'
      BY <1>1, <2>1, <3>1, <3>3 DEF Versioned, Within, Ordered
    <3>. QED BY <2>2, <3>2, <3>4 DEF LoopInv
  <2>4. CASE output[l] = "completed"
    <3>1. /\ data'[l] = data[l] /\ output'[l] = "completed" /\ bounds'[l] = bounds[l]
          /\ pc'[l] = "returned"
      BY <1>3, <1>10, <2>4
    <3>. QED BY <1>1, <2>1, <2>2, <2>4, <3>1 DEF LoopInv, Said, Versioned, Within, Ordered
  <2>5. CASE output[l] = "cancelled"
    <3>1. data'[l] = data[l] /\ output'[l] = "none" /\ bounds'[l] = bounds[l]
      BY <1>3, <1>10, <2>5
    <3>. QED BY <1>1, <2>1, <2>2, <2>5, <3>1 DEF LoopInv, Said, Versioned, Within, Ordered
  <2>. QED BY <2>1, <2>3, <2>4, <2>5 DEF AgentInv, TextTypes
<1>. QED BY <1>1, <1>4, <1>5, <1>6, <1>7, <1>8, <1>9 DEF AgentInv

LEMMA SampleReturnKeeps == ASSUME AgentInv, NEW s \in Samples, SampleReturn(s) PROVE AgentInv'
<1>1. /\ UNCHANGED <<version, engine, req, data, output, callee, reply, bounds, workerOf, paramOf,
                     nextWorker, route>>
      /\ \E v \in {"waiting", "finished"} : task' = [task EXCEPT ![s] = v]
      /\ \A l \in Loops : pc'[l] = pc[l] \/ (pc[l] = "returned" /\ pc'[l] = "idle")
  BY DEF SampleReturn, serverVars, routeVars, LoopsOf
<1>2. QuietInv'
  BY SampleKeeps DEF SampleStep, AgentInv
<1>3. TextTypes' /\ PlaceTypes' /\ ParamRecent'
  <2>1. UNCHANGED <<param, phase>>
    BY DEF SampleReturn, managerVars
  <2>. QED BY <1>1, <2>1 DEF AgentInv, TextTypes, PlaceTypes, ParamRecent, QuietInv, Shapes
<1>4. \A l \in Loops : LoopInv(l)'
  <2>. SUFFICES ASSUME NEW l \in Loops PROVE LoopInv(l)'
    OBVIOUS
  <2>1. LoopInv(l) /\ (pc'[l] = pc[l] \/ (pc[l] = "returned" /\ pc'[l] = "idle"))
    BY <1>1 DEF AgentInv
  <2>2. Said(l)'
    BY <1>1, <2>1 DEF LoopInv, Said
  <2>3. Versioned(l)'
    BY <1>1, <2>1 DEF LoopInv, Versioned, Within, Ordered, OutOf
  <2>4. \A t \in Servers : Remembered(t, l)'
    BY <1>1, <2>1 DEF LoopInv, Remembered
  <2>. QED BY <2>2, <2>3, <2>4 DEF LoopInv
<1>. QED BY <1>1, <1>2, <1>3, <1>4 DEF AgentInv

\* A cancellation marks the requests of a server and changes none of their tokens.
LEMMA CancelServerKeeps ==
  ASSUME AgentInv, NEW s \in Servers, CancelServer(s)
  PROVE  /\ req' \in [Servers -> [Loops -> RequestType]]
         /\ \A t \in Servers, l \in Loops :
              req'[t][l].out = req[t][l].out /\ (req[t][l] = NoRequest => req'[t][l] = NoRequest)
<1>. DEFINE x(l) == IF req[s][l].event = "absent" THEN req[s][l]
                    ELSE [req[s][l] EXCEPT !.event = "set"]
            g == [l \in Loops |-> x(l)]
<1>1. req \in [Servers -> [Loops -> RequestType]]
  BY DEF AgentInv, TextTypes
<1>2. req' = [req EXCEPT ![s] = g]
  BY <1>1 DEF CancelServer
<1>3. \A l \in Loops : /\ x(l) \in RequestType /\ x(l).out = req[s][l].out
                       /\ req[s][l] = NoRequest => x(l) = NoRequest
  <2>. SUFFICES ASSUME NEW l \in Loops
                PROVE  /\ x(l) \in RequestType /\ x(l).out = req[s][l].out
                       /\ req[s][l] = NoRequest => x(l) = NoRequest
    OBVIOUS
  <2>1. req[s][l] \in RequestType
    BY <1>1
  <2>. QED BY <2>1 DEF RequestType, NoRequest
<1>. HIDE DEF x
<1>4. g \in [Loops -> RequestType] /\ \A l \in Loops : g[l] = x(l)
  BY <1>3
<1>. HIDE DEF g
<1>5. req' \in [Servers -> [Loops -> RequestType]] /\ \A t \in Servers : req'[t] = IF t = s THEN g ELSE req[t]
  BY <1>1, <1>2, <1>4
<1>. QED BY <1>3, <1>4, <1>5

LEMMA ManagerHolds == ASSUME AgentInv, Manager PROVE AgentInv'
<1>1. UNCHANGED <<engine, loopVars, taskVars, routeVars>>
  BY DEF Manager, GoOn, Tell, Cancel, TellServer, TellWorker, Paused, SyncWeights,
     UpdateParamVersion, Resume, Resumed,
     CancelServer, ResumeServer, serverVars
<1>2. QuietInv'
  BY ManagerKeeps DEF AgentInv
<1>3. /\ req' \in [Servers -> [Loops -> RequestType]]
      /\ \A t \in Servers, l \in Loops :
           req'[t][l].out = req[t][l].out /\ (req[t][l] = NoRequest => req'[t][l] = NoRequest)
  <2>1. CASE \E s \in Servers : CancelServer(s)
    BY <2>1, CancelServerKeeps
  <2>2. CASE UNCHANGED req
    BY <2>2 DEF AgentInv, TextTypes
  <2>. QED BY <2>1, <2>2 DEF Manager, GoOn, Tell, Cancel, TellServer, TellWorker, Paused, SyncWeights,
           UpdateParamVersion, Resume, Resumed, ResumeServer, serverVars
<1>4. \/ version' = version
      \/ version' = version + 1 /\ phase = "paused"
  BY DEF Manager, GoOn, Tell, Cancel, TellServer, TellWorker, Paused, SyncWeights,
     UpdateParamVersion, Resume, Resumed,
     CancelServer, ResumeServer, serverVars
<1>5. version \in Nat /\ version' \in Nat /\ version <= version'
  BY <1>4 DEF AgentInv, TextTypes
<1>6. TextTypes' /\ PlaceTypes' /\ (engine \in {"vllm", "sglang"})'
  BY <1>1, <1>3, <1>5 DEF AgentInv, TextTypes, PlaceTypes, loopVars, taskVars, routeVars
<1>7. ParamRecent'
  <2>1. CASE SyncWeights
    BY <1>1, <2>1 DEF SyncWeights, AgentInv, TextTypes, ParamRecent, taskVars
  <2>2. CASE UpdateParamVersion
    BY <1>1, <2>2 DEF UpdateParamVersion, serverVars, AgentInv, TextTypes, ParamRecent, taskVars
  <2>3. CASE Paused
    BY <1>1, <2>3 DEF Paused, Drained, serverVars, AgentInv, ParamRecent, taskVars
  <2>4. CASE Cancel \/ Tell \/ Resume \/ Resumed
    <3>1. /\ UNCHANGED <<version, param>>
          /\ phase' = phase \/ (phase # "synced" /\ phase' \notin {"synced", "paused"})
      BY <2>4 DEF Cancel, Tell, TellServer, TellWorker, CancelServer, ResumeServer, Resume, Resumed,
         serverVars
    <3>. QED BY <1>1, <3>1 DEF AgentInv, ParamRecent, taskVars
  <2>. QED BY <2>1, <2>2, <2>3, <2>4 DEF Manager, GoOn
<1>8. \A l \in Loops : LoopInv(l)'
  <2>. SUFFICES ASSUME NEW l \in Loops PROVE LoopInv(l)'
    OBVIOUS
  <2>1. LoopInv(l)
    BY DEF AgentInv
  <2>2. Said(l)'
    BY <1>1, <2>1 DEF LoopInv, Said, loopVars
  <2>3. \A t \in Servers : Remembered(t, l)'
    BY <1>1, <1>3, <2>1 DEF LoopInv, Remembered, loopVars
  <2>4. Versioned(l)'
    <3>1. CASE version' = version
      <4>1. pc[l] = "waiting" => OutOf(l)' = OutOf(l)
        BY <1>1, <1>3 DEF OutOf, loopVars, AgentInv, PlaceTypes
      <4>. QED BY <1>1, <2>1, <3>1, <4>1 DEF LoopInv, Versioned, Within, Ordered, loopVars
    <3>2. CASE phase = "paused"
      <4>1. /\ pc[l] # "waiting" /\ (pc[l] = "reply" => reply[l].ids = <<>>) /\ pc' = pc
            /\ reply' = reply /\ data' = data /\ bounds' = bounds /\ output' = output
        BY <1>1, <3>2 DEF AgentInv, QuietInv, Hushed, Window, loopVars
      <4>2. bounds[l].first \in Nat /\ bounds[l].first <= version' /\ data[l].text \in Seq(Token)
        BY <1>5, <2>1 DEF LoopInv, Versioned, AgentInv, TextTypes, DataType
      <4>3. Within(data[l].text, bounds[l].first, version')
        BY <1>5, <2>1, <4>2 DEF LoopInv, Versioned, Within, Token
      <4>. QED BY <2>1, <4>1, <4>2, <4>3 DEF LoopInv, Versioned, Within, Ordered
    <3>. QED BY <1>4, <3>1, <3>2
  <2>. QED BY <2>2, <2>3, <2>4 DEF LoopInv
<1>. QED BY <1>2, <1>6, <1>7, <1>8 DEF AgentInv

LEMMA AgentInit == Init => AgentInv
<1>. SUFFICES ASSUME Init PROVE AgentInv
  OBVIOUS
<1>1. QuietInv
  BY QuietInit
<1>2. TextTypes
  BY FreshTypes DEF Init, ServerInit, TextTypes
<1>3. PlaceTypes
  BY AgentAssumption DEF Init, PlaceTypes
<1>4. ParamRecent /\ engine \in {"vllm", "sglang"}
  BY ServerAssumption DEF Init, ServerInit, ParamRecent
<1>5. FreshData.text = <<>> /\ FreshData.logprobs = 0 /\ FreshData.state = "pending"
  BY DEF FreshData
<1>6. \A l \in Loops : LoopInv(l)
  BY <1>5 DEF Init, ServerInit, LoopInv, Said, Versioned, Remembered, Within, Ordered
<1>. QED BY <1>1, <1>2, <1>3, <1>4, <1>6 DEF AgentInv

LEMMA AgentStep == AgentInv /\ [Next]_vars => AgentInv'
<1>. SUFFICES ASSUME AgentInv, [Next]_vars PROVE AgentInv'
  OBVIOUS
<1>1. CASE UNCHANGED vars
  <2>1. QuietInv'
    BY <1>1 DEF vars, loopVars, taskVars, managerVars, serverVars, AgentInv, QuietInv, Shapes,
       HandleWaits, LoopOfActive, ServersTold, Hushed
  <2>. QED BY <1>1, <2>1 DEF vars, loopVars, taskVars, routeVars, managerVars, serverVars, AgentInv,
           TextTypes, PlaceTypes, ParamRecent, LoopInv, Said, Versioned, Remembered, Within,
           Ordered, OutOf
<1>. QED BY <1>1, StepOfKeeps, DispatchKeeps, SampleReturnKeeps, ManagerHolds DEF Next, SampleStep

\* The whole invariant
THEOREM AgentInvariance == Spec => []AgentInv
  BY AgentInit, AgentStep, PTL DEF Spec

\* From the return of pause until resume no server has a request under way, so that
\* the weights can be transferred, although samples may be submitted meanwhile.
THEOREM CancelQuiesces == Spec => []Quiescent
<1>1. AgentInv => Quiescent
  BY DEF AgentInv, QuietInv, Shapes, HandleWaits, Hushed, Window, Quiescent
<1>. QED BY <1>1, AgentInvariance, PTL

\* The engine's log probabilities stay aligned with the response, over cuts,
\* answers of tools and resumptions.
THEOREM Aligned == Spec => []LogprobsAligned
<1>1. AgentInv => LogprobsAligned
  BY DEF AgentInv, LoopInv, Said, LogprobsAligned
<1>. QED BY <1>1, AgentInvariance, PTL

\* The tokens of a completed trajectory were written by weights not older than its
\* param_version_start and at most one version newer than its param_version_end, in
\* order, although samples may be submitted while the weights change.
THEOREM Enclosed == Spec => []VersionsEnclosed
<1>1. AgentInv => VersionsEnclosed
  BY DEF AgentInv, LoopInv, Versioned, Within, Ordered, VersionsEnclosed
<1>. QED BY <1>1, AgentInvariance, PTL

\* Once its call has ended, a server remembers a request only if it is a vLLM
\* server and the request was cut before its first token.
THEOREM Forgets == Spec => []RequestsForgotten
<1>1. AgentInv => RequestsForgotten
  BY DEF AgentInv, LoopInv, Remembered, RequestsForgotten
<1>. QED BY <1>1, AgentInvariance, PTL

----------------------------------------------------------------------------
(* The refinement of Trajectory                                             *)

\* Tokens a server hands over are the model's ...
FromModel(t) == \A i \in 1..Len(t) : t[i].kind # "env"

\* ... and a text has one of them before the environment adds anything.
Opened(t) == t # <<>> => \E i \in 1..Len(t) : t[i].kind # "env"

Spoken(l) ==
    /\ output[l] # "completed" =>
         /\ Opened(data[l].text)
         /\ data[l].state = "terminated" => data[l].text # <<>>
    /\ output[l] = "none" => pc[l] # "returned" /\ (pc[l] = "idle" => data[l].text = <<>>)
    /\ pc[l] = "waiting" => FromModel(OutOf(l))
    /\ pc[l] = "reply" => FromModel(reply[l].ids)

SpokenInv == \A l \in Loops : Spoken(l)

\* The abstract state of one trajectory
Told(l) == data[l].text \o InFlight(l)
Done(l) == output[l] = "completed"

LEMMA OpenedJoin ==
  ASSUME NEW t \in Seq(Token), NEW u \in Seq(Token), Opened(t)
  PROVE  /\ FromModel(u) => Opened(t \o u)
         /\ t # <<>> => Opened(t \o u)
<1>. DEFINE w == t \o u
<1>1. /\ Len(w) = Len(t) + Len(u) /\ Len(t) \in Nat /\ Len(u) \in Nat
      /\ \A i \in 1..Len(t) : w[i] = t[i]
      /\ \A i \in 1..Len(u) : w[i + Len(t)] = u[i]
  OBVIOUS
<1>2. t = <<>> => w = u
  OBVIOUS
<1>. HIDE DEF w
<1>3. CASE t # <<>>
  <2>1. PICK i \in 1..Len(t) : t[i].kind # "env"
    BY <1>3 DEF Opened
  <2>2. i \in 1..Len(w) /\ w[i].kind # "env"
    BY <1>1, <2>1
  <2>. QED BY <2>2 DEF Opened, w
<1>4. CASE t = <<>>
  <2>1. u # <<>> => Len(u) > 0
    OBVIOUS
  <2>2. FromModel(u) /\ u # <<>> => 1 \in 1..Len(u) /\ u[1].kind # "env"
    BY <2>1, <1>1 DEF FromModel
  <2>. QED BY <1>2, <1>4, <2>2 DEF Opened, w
<1>. QED BY <1>3, <1>4

\* A step of a trajectory leaves the others alone.
LEMMA StepAlone ==
  ASSUME AgentInv, NEW l \in Loops, StepOf(l)
  PROVE  Alone(l)
<1>1. UNCHANGED <<version, engine, taskVars>>
  BY DEF StepOf, LoopCompleted, LoopCancelled, HandlePending, SendGenerate, Accepted, Refused, Streamed,
     Answered, HandleReply, SingleTurnReply, HandleTools, HandleInteracting, GenerateBegin, GenerateStep,
     GenerateEnd, serverVars
<1>2. \A m \in Loops \ {l} :
        /\ data'[m] = data[m] /\ output'[m] = output[m] /\ pc'[m] = pc[m]
        /\ callee'[m] = callee[m] /\ reply'[m] = reply[m] /\ bounds'[m] = bounds[m]
  <2>1. CASE LoopCompleted(l) \/ LoopCancelled(l) \/ SingleTurnReply(l)
    BY <2>1 DEF LoopCompleted, LoopCancelled, SingleTurnReply, Return, AgentInv, TextTypes, QuietInv,
       Shapes, PlaceTypes
  <2>2. CASE HandlePending(l) \/ HandleReply(l) \/ HandleTools(l) \/ HandleInteracting(l)
    BY <2>2 DEF HandlePending, HandleReply, HandleTools, HandleInteracting, AtState, AgentInv,
       TextTypes, QuietInv, Shapes
  <2>3. CASE SendGenerate(l) \/ Accepted(l) \/ Refused(l) \/ Streamed(l) \/ Answered(l)
    BY <2>3 DEF SendGenerate, Accepted, Refused, Streamed, Answered, AgentInv, TextTypes, QuietInv,
       Shapes, PlaceTypes, loopVars
  <2>. QED BY <2>1, <2>2, <2>3 DEF StepOf
<1>3. \A s \in Servers, m \in Loops \ {l} : req'[s][m] = req[s][m]
  <2>1. CASE UNCHANGED req
    BY <2>1
  <2>2. CASE Accepted(l) \/ Streamed(l) \/ Answered(l)
    <3>1. /\ callee[l] \in Servers /\ req \in [Servers -> [Loops -> RequestType]]
      BY <2>2, CallFacts DEF Accepted, Streamed, Answered
    <3>2. \/ req' = req
          \/ \E x : req' = [req EXCEPT ![callee[l]][l] = x]
          \/ \E x : req' = [req EXCEPT ![callee[l]][l].out = x]
      BY <2>2 DEF Accepted, Streamed, Answered, GenerateBegin, GenerateStep, GenerateEnd
    <3>. QED BY <3>1, <3>2
  <2>. QED BY <2>1, <2>2 DEF StepOf, LoopCompleted, LoopCancelled, HandlePending, SendGenerate, Refused,
           HandleReply, SingleTurnReply, HandleTools, HandleInteracting, serverVars
<1>. QED BY <1>1, <1>2, <1>3 DEF Alone

\* The trajectory m is told nothing and stays as complete as it was.
Still(m) == Told(m)' = Told(m) /\ Done(m)' = Done(m)

LEMMA OthersStill ==
  ASSUME NEW l \in Loops, Alone(l), NEW m \in Loops, m # l, Spoken(m), PlaceTypes
  PROVE  Spoken(m)' /\ Still(m)
<1>1. /\ data'[m] = data[m] /\ output'[m] = output[m] /\ pc'[m] = pc[m]
      /\ callee'[m] = callee[m] /\ reply'[m] = reply[m]
      /\ \A s \in Servers : req'[s][m] = req[s][m]
  BY DEF Alone
<1>2. pc[m] = "waiting" => OutOf(m)' = OutOf(m)
  BY <1>1 DEF OutOf, PlaceTypes
<1>3. Spoken(m)'
  BY <1>1, <1>2 DEF Spoken, Opened, FromModel
<1>4. InFlight(m)' = InFlight(m)
  BY <1>1, <1>2 DEF InFlight, OutOf
<1>. QED BY <1>1, <1>3, <1>4 DEF Still, Told, Done

\* What a step of trajectory l does to its text, in the terms of Trajectory
Spoke(t) == \E i \in 1..Len(t) : t[i].kind # "env"

Hears(l) ==
    \/ Still(l)
    \/ ~Done(l) /\ ~Done(l)' /\ \E kind \in {"word", "open", "close"} :
         Told(l)' = Append(Told(l), [kind |-> kind, version |-> version])
    \/ ~Done(l) /\ ~Done(l)' /\ Spoke(Told(l)) /\ \E n \in 1..MaxAnswer : Told(l)' = Told(l) \o Answer(n)
    \/ ~Done(l) /\ Done(l)' /\ Spoke(Told(l)) /\ Told(l)' = Capped(Told(l))

\* What is known of a trajectory that takes a step, and of its text
LEMMA Speaking ==
  ASSUME AgentInv, SpokenInv, NEW l \in Loops, pc[l] \in {"loop", "sent", "waiting", "reply"}
  PROVE  /\ ~Done(l) /\ output[l] # "completed" /\ data[l] \in DataType /\ data[l].text \in Seq(Token)
         /\ Opened(data[l].text) /\ (data[l].state = "terminated" => data[l].text # <<>>)
         /\ data[l].state \in {"tools", "interacting"} => data[l].text # <<>>
         /\ pc[l] \in {"loop", "sent"} => Told(l) = data[l].text
         /\ pc[l] = "waiting" => Told(l) = data[l].text \o OutOf(l)
         /\ pc[l] = "reply" => Told(l) = data[l].text \o reply[l].ids
<1>1. /\ output[l] # "completed" /\ data[l] \in DataType
      /\ data[l].state \in {"tools", "interacting"} => data[l].text # <<>>
  BY UnderWay
<1>2. data[l].text \in Seq(Token) /\ data[l].text \o <<>> = data[l].text
  BY <1>1 DEF DataType
<1>3. Spoken(l)
  BY DEF SpokenInv
<1>4. InFlight(l) = IF pc[l] = "waiting" THEN OutOf(l) ELSE IF pc[l] = "reply" THEN reply[l].ids ELSE <<>>
  BY DEF InFlight, OutOf
<1>. QED BY <1>1, <1>2, <1>3, <1>4 DEF Spoken, Done, Told

\* A text that goes on and is not empty has been begun by the model.
LEMMA OpenedSpoke ==
  ASSUME NEW t, Opened(t), t # <<>>
  PROVE  Spoke(t)
  BY DEF Opened, Spoke

\* A handler that only changes the state, or the place of the coroutine
LEMMA QuietHears ==
  ASSUME AgentInv, SpokenInv, NEW l \in Loops,
         pc[l] = "loop", pc'[l] \in {"loop", "sent", "returned"}, pc'[l] = "returned" => output'[l] = "cancelled",
         data'[l].text = data[l].text, output'[l] # "completed",
         data'[l].state = "terminated" => data'[l].text # <<>>
  PROVE  Spoken(l)' /\ Hears(l)
<1>1. /\ ~Done(l) /\ Opened(data[l].text) /\ Told(l) = data[l].text /\ data[l].text \in Seq(Token)
  BY Speaking
<1>2. Told(l)' = data'[l].text \o <<>>
  BY DEF Told, InFlight
<1>3. Still(l)
  BY <1>1, <1>2 DEF Still, Done
<1>4. Opened(data[l].text)'
  BY <1>1 DEF Opened
<1>5. Spoken(l)'
  BY <1>4 DEF Spoken
<1>. QED BY <1>3, <1>5 DEF Hears

LEMMA PendingHears == ASSUME AgentInv, SpokenInv, NEW l \in Loops, HandlePending(l) PROVE Spoken(l)' /\ Hears(l)
<1>1. data[l] \in DataType /\ output[l] # "completed" /\ pc[l] = "loop"
  BY Speaking DEF HandlePending, AtState
<1>2. /\ data'[l] = [data[l] EXCEPT !.state = "generating"] /\ pc'[l] = "loop" /\ output'[l] = output[l]
  BY <1>1 DEF HandlePending, AgentInv, TextTypes
<1>3. data'[l].text = data[l].text /\ data'[l].state = "generating"
  BY <1>1, <1>2 DEF DataType
<1>. QED BY <1>1, <1>2, <1>3, QuietHears

LEMMA SendHears == ASSUME AgentInv, SpokenInv, NEW l \in Loops, SendGenerate(l) PROVE Spoken(l)' /\ Hears(l)
<1>1. pc[l] = "loop" /\ data'[l] = data[l] /\ output'[l] = output[l] /\ pc'[l] = "sent"
  BY DEF SendGenerate, AtState, AgentInv, QuietInv, Shapes
<1>2. output[l] # "completed" /\ (data[l].state = "terminated" => data[l].text # <<>>)
  BY <1>1, Speaking
<1>. QED BY <1>1, <1>2, QuietHears

LEMMA CancelledHears == ASSUME AgentInv, SpokenInv, NEW l \in Loops, LoopCancelled(l) PROVE Spoken(l)' /\ Hears(l)
<1>1. /\ pc[l] = "loop" /\ data'[l] = data[l] /\ output'[l] = "cancelled" /\ pc'[l] = "returned"
  BY DEF LoopCancelled, Return, AgentInv, QuietInv, Shapes, TextTypes
<1>2. data[l].state = "terminated" => data[l].text # <<>>
  BY <1>1, Speaking
<1>. QED BY <1>1, <1>2, QuietHears

\* The end of a trajectory that has been told t: it is capped, once and for all.
LEMMA CompleteHears ==
  ASSUME AgentInv, SpokenInv, NEW l \in Loops, NEW d \in DataType, Return(l, d, "completed"),
         ~Done(l), Told(l) = d.text, Opened(d.text), d.text # <<>>
  PROVE  Spoken(l)' /\ Hears(l)
<1>1. d.text \in Seq(Token)
  BY DEF DataType
<1>2. Capped(d.text) \in Seq(Token)
  BY <1>1, CappedShape
<1>3. /\ pc'[l] = "returned" /\ output'[l] = "completed"
      /\ data'[l] = [d EXCEPT !.text = Capped(d.text)]
  BY DEF Return, AgentInv, QuietInv, Shapes, TextTypes
<1>4. data'[l].text = Capped(d.text)
  BY <1>3 DEF DataType
<1>5. Told(l)' = data'[l].text \o <<>>
  BY <1>3 DEF Told, InFlight
<1>6. Told(l)' = Capped(Told(l))
  BY <1>2, <1>4, <1>5
<1>7. Spoke(Told(l))
  BY OpenedSpoke
<1>8. Spoken(l)'
  BY <1>3 DEF Spoken
<1>9. Done(l)'
  BY <1>3 DEF Done
<1>. QED BY <1>6, <1>7, <1>8, <1>9 DEF Hears

LEMMA CompletedHears == ASSUME AgentInv, SpokenInv, NEW l \in Loops, LoopCompleted(l) PROVE Spoken(l)' /\ Hears(l)
<1>1. pc[l] = "loop" /\ data[l].state = "terminated" /\ Return(l, data[l], "completed")
  BY DEF LoopCompleted
<1>. QED BY <1>1, Speaking, CompleteHears

LEMMA SingleTurnHears ==
  ASSUME AgentInv, SpokenInv, NEW l \in Loops, SingleTurnReply(l)
  PROVE  Spoken(l)' /\ Hears(l)
<1>. DEFINE u == reply[l].ids
            t == data[l].text \o u
            d == Extended(data[l], u)
            cut == reply[l].cancel /\ Len(d.text) < ResponseLength
<1>1. pc[l] = "reply" /\ Return(l, d, IF cut THEN "cancelled" ELSE "completed")
  BY DEF SingleTurnReply
<1>2. /\ ~Done(l) /\ data[l] \in DataType /\ data[l].text \in Seq(Token) /\ Opened(data[l].text)
      /\ data[l].state = "terminated" => data[l].text # <<>>
      /\ Told(l) = t
  BY <1>1, Speaking
<1>3. u \in Seq(Token) /\ FromModel(u) /\ (~reply[l].cancel => u # <<>>)
  BY <1>1 DEF AgentInv, TextTypes, ReplyType, LoopInv, Said, SpokenInv, Spoken
<1>4. d \in DataType /\ d.text = t /\ d.state = data[l].state
  BY <1>2, <1>3, ExtendedShape
<1>5. Opened(t)
  BY <1>2, <1>3, OpenedJoin
<1>6. Len(t) \in Nat /\ (data[l].text # <<>> \/ u # <<>> => t # <<>>) /\ (t = <<>> => Len(t) = 0)
  <2>1. t \in Seq(Token)
    BY <1>2, <1>3
  <2>2. data[l].text # <<>> \/ u # <<>> => t # <<>>
    BY <1>2, <1>3, JoinedLengths
  <2>. HIDE DEF t
  <2>. QED BY <2>1, <2>2
<1>7. CASE cut
  <2>1. Return(l, d, "cancelled")
    BY <1>1, <1>7
  <2>2. pc'[l] = "returned" /\ output'[l] = "cancelled" /\ data'[l] = d
    BY <2>1 DEF Return, AgentInv, QuietInv, Shapes, TextTypes
  <2>3. Told(l)' = data'[l].text \o <<>>
    BY <2>2 DEF Told, InFlight
  <2>4. t \in Seq(Token)
    BY <1>2, <1>3
  <2>5. Told(l)' = Told(l) /\ Done(l)' = FALSE
    BY <1>2, <1>4, <2>2, <2>3, <2>4 DEF Done
  <2>. HIDE DEF d
  <2>6. Opened(data[l].text)'
    BY <1>4, <1>5, <2>2 DEF Opened
  <2>7. Spoken(l)'
    BY <1>2, <1>4, <1>6, <2>2, <2>6 DEF Spoken
  <2>8. Still(l)
    <3>1. Done(l) = FALSE
      BY <1>2 DEF Done
    <3>. QED BY <2>5, <3>1 DEF Still
  <2>. QED BY <2>7, <2>8 DEF Hears
<1>8. CASE ~cut
  <2>1. Return(l, d, "completed")
    BY <1>1, <1>8
  <2>2. t # <<>>
    <3>1. ~reply[l].cancel \/ Len(t) >= ResponseLength
      <4>1. Len(t) < ResponseLength \/ Len(t) >= ResponseLength
        <5>. HIDE DEF t
        <5>. QED BY <1>6, AgentAssumption
      <4>2. ~reply[l].cancel \/ ~(Len(t) < ResponseLength)
        BY <1>4, <1>8
      <4>. QED BY <4>1, <4>2
    <3>2. Len(t) >= ResponseLength => t # <<>>
      <4>. HIDE DEF t
      <4>. QED BY <1>6, AgentAssumption
    <3>. QED BY <1>3, <1>6, <3>1, <3>2
  <2>. HIDE DEF d, t
  <2>. QED BY <1>2, <1>4, <1>5, <2>1, <2>2, CompleteHears
<1>. QED BY <1>7, <1>8

LEMMA ReplyHears == ASSUME AgentInv, SpokenInv, NEW l \in Loops, HandleReply(l) PROVE Spoken(l)' /\ Hears(l)
<1>. DEFINE u == reply[l].ids
            t == data[l].text \o u
            d == IF reply[l].cancel THEN CutChunk(data[l], u) ELSE WholeChunk(data[l], u)
<1>1. pc[l] = "reply" /\ pc'[l] = "loop" /\ data'[l] = d /\ output'[l] = output[l]
  BY DEF HandleReply, AgentInv, QuietInv, Shapes, TextTypes
<1>2. /\ ~Done(l) /\ data[l] \in DataType /\ data[l].text \in Seq(Token) /\ Opened(data[l].text)
      /\ Told(l) = t /\ output[l] # "completed"
  BY <1>1, Speaking
<1>3. u \in Seq(Token) /\ FromModel(u) /\ (~reply[l].cancel => u # <<>>)
  BY <1>1 DEF AgentInv, TextTypes, ReplyType, LoopInv, Said, SpokenInv, Spoken
<1>4. Opened(t)
  BY <1>2, <1>3, OpenedJoin
<1>5. t \in Seq(Token) /\ (u # <<>> => t # <<>>)
  BY <1>2, <1>3, JoinedLengths
<1>6. d.text = t /\ (d.state = "terminated" => t # <<>>)
  <2>1. CASE reply[l].cancel
    <3>1. CutChunk(data[l], u).text = t
      BY <1>2, <1>3, CutChunkShape
    <3>2. Extended(data[l], u).text = t /\ Extended(data[l], u) \in DataType
      BY <1>2, <1>3, ExtendedShape
    <3>3. CutChunk(data[l], u).state = "terminated" => Len(t) >= ResponseLength
      <4>. DEFINE e == Extended(data[l], u)
      <4>1. ~(Len(e.text) >= ResponseLength) => CutChunk(data[l], u) = [e EXCEPT !.state = "generating"]
        BY DEF CutChunk
      <4>2. [e EXCEPT !.state = "generating"].state = "generating"
        BY <3>2 DEF DataType
      <4>. HIDE DEF e
      <4>. QED BY <3>2, <4>1, <4>2 DEF e
    <3>4. Len(t) >= ResponseLength => t # <<>>
      <4>. HIDE DEF t
      <4>. QED BY <1>5, AgentAssumption
    <3>. QED BY <2>1, <3>1, <3>3, <3>4
  <2>2. CASE ~reply[l].cancel
    BY <1>2, <1>3, <1>5, <2>2, WholeChunkShape
  <2>. QED BY <2>1, <2>2
<1>. HIDE DEF d, t
<1>7. Told(l)' = data'[l].text \o <<>>
  BY <1>1 DEF Told, InFlight
<1>8. Told(l)' = Told(l)
  BY <1>1, <1>2, <1>5, <1>6, <1>7
<1>9. Still(l)
  <2>1. Done(l)' = Done(l)
    BY <1>1 DEF Done
  <2>. QED BY <1>8, <2>1 DEF Still
<1>10. Opened(data[l].text)'
  BY <1>1, <1>4, <1>6 DEF Opened
<1>11. Spoken(l)'
  BY <1>1, <1>2, <1>6, <1>10 DEF Spoken
<1>. QED BY <1>9, <1>11 DEF Hears

\* The environment answers a text the model has begun.
LEMMA AnswerHears ==
  ASSUME AgentInv, SpokenInv, NEW l \in Loops, pc[l] = "loop", pc'[l] = "loop", output'[l] = output[l],
         data[l].text # <<>>, NEW n \in 1..MaxAnswer, data'[l].text = data[l].text \o Answer(n)
  PROVE  Spoken(l)' /\ Hears(l)
<1>1. /\ ~Done(l) /\ output[l] # "completed" /\ data[l].text \in Seq(Token) /\ Opened(data[l].text)
      /\ Told(l) = data[l].text
  BY Speaking
<1>2. n \in Nat /\ version \in Nat
  BY AgentAssumption DEF AgentInv, TextTypes
<1>3. Answer(n) \in Seq(Token)
  <2>1. [kind |-> "env", version |-> version] \in Token
    BY <1>2 DEF Token, Kinds
  <2>. QED BY <1>2, <2>1 DEF Answer
<1>. DEFINE t == data[l].text
            w == t \o Answer(n)
<1>4. Opened(w) /\ w # <<>> /\ w \in Seq(Token)
  BY <1>1, <1>3, OpenedJoin, JoinedLengths
<1>5. Told(l)' = data'[l].text \o <<>>
  BY DEF Told, InFlight
<1>6. Told(l)' = Told(l) \o Answer(n)
  BY <1>1, <1>4, <1>5
<1>7. Spoke(Told(l))
  BY <1>1, OpenedSpoke
<1>8. ~Done(l)'
  BY <1>1 DEF Done
<1>9. Hears(l)
  BY <1>1, <1>6, <1>7, <1>8 DEF Hears
<1>. HIDE DEF w
<1>10. Opened(data[l].text)' /\ data'[l].text # <<>>
  BY <1>4 DEF Opened, w
<1>11. Spoken(l)'
  BY <1>1, <1>10 DEF Spoken
<1>. QED BY <1>9, <1>11

LEMMA ToolsHears == ASSUME AgentInv, SpokenInv, NEW l \in Loops, HandleTools(l) PROVE Spoken(l)' /\ Hears(l)
<1>1. pc[l] = "loop" /\ data[l].state = "tools" /\ pc'[l] = pc[l] /\ output'[l] = output[l]
  BY DEF HandleTools, AtState
<1>2. /\ data[l] \in DataType /\ output[l] # "completed" /\ data[l].text # <<>> /\ version \in Nat
  BY <1>1, Speaking DEF AgentInv, TextTypes
<1>3. PICK n \in 1..MaxAnswer :
        data' = [data EXCEPT ![l] = IF Len(data[l].text) + n >= ResponseLength
                                     THEN [data[l] EXCEPT !.state = "terminated"]
                                     ELSE Observed(data[l], n)]
  BY DEF HandleTools
<1>4. data'[l] = IF Len(data[l].text) + n >= ResponseLength
                 THEN [data[l] EXCEPT !.state = "terminated"] ELSE Observed(data[l], n)
  BY <1>3 DEF AgentInv, TextTypes
<1>5. CASE Len(data[l].text) + n >= ResponseLength
  <2>1. data'[l].text = data[l].text
    BY <1>2, <1>4, <1>5 DEF DataType
  <2>. QED BY <1>1, <1>2, <2>1, QuietHears
<1>6. CASE ~(Len(data[l].text) + n >= ResponseLength)
  <2>1. n \in Nat
    BY AgentAssumption
  <2>2. data'[l].text = data[l].text \o Answer(n)
    BY <1>2, <1>4, <1>6, <2>1, ObservedShape
  <2>. QED BY <1>1, <1>2, <2>2, AnswerHears
<1>. QED BY <1>5, <1>6

LEMMA InteractingHears ==
  ASSUME AgentInv, SpokenInv, NEW l \in Loops, HandleInteracting(l)
  PROVE  Spoken(l)' /\ Hears(l)
<1>1. pc[l] = "loop" /\ data[l].state = "interacting" /\ pc'[l] = pc[l] /\ output'[l] = output[l]
  BY DEF HandleInteracting, AtState
<1>2. /\ data[l] \in DataType /\ data[l].text # <<>> /\ version \in Nat
  BY <1>1, Speaking DEF AgentInv, TextTypes
<1>3. PICK n \in 1..MaxAnswer, stop \in BOOLEAN :
        data' = [data EXCEPT ![l] = [Observed(data[l], n) EXCEPT
                   !.state = IF stop THEN "terminated" ELSE "generating"]]
  BY DEF HandleInteracting
<1>. DEFINE o == Observed(data[l], n)
            x == IF stop THEN "terminated" ELSE "generating"
<1>4. n \in Nat /\ x \in States
  BY AgentAssumption DEF States
<1>5. o \in DataType /\ o.text = data[l].text \o Answer(n)
  BY <1>2, <1>4, ObservedShape
<1>6. data'[l] = [o EXCEPT !.state = x]
  BY <1>3 DEF AgentInv, TextTypes
<1>. HIDE DEF o, x
<1>7. data'[l].text = data[l].text \o Answer(n)
  BY <1>4, <1>5, <1>6, StateSet
<1>. QED BY <1>1, <1>2, <1>7, AnswerHears

\* A call: what the server has generated counts as told, and so does its answer.
LEMMA CallHears ==
  ASSUME AgentInv, SpokenInv, NEW l \in Loops, Accepted(l) \/ Refused(l) \/ Answered(l)
  PROVE  Spoken(l)' /\ Hears(l)
<1>1. pc[l] \in {"sent", "waiting"} /\ data'[l] = data[l] /\ output'[l] = output[l]
  BY DEF Accepted, Refused, Answered
<1>2. /\ ~Done(l) /\ output[l] # "completed" /\ data[l].text \in Seq(Token) /\ Opened(data[l].text)
      /\ data[l].state = "terminated" => data[l].text # <<>>
      /\ pc[l] = "sent" => Told(l) = data[l].text
      /\ pc[l] = "waiting" => Told(l) = data[l].text \o OutOf(l)
  BY <1>1, Speaking
<1>3. callee[l] \in Servers /\ req \in [Servers -> [Loops -> RequestType]]
  BY <1>1 DEF AgentInv, PlaceTypes, TextTypes
<1>4. Opened(data[l].text)'
  BY <1>1, <1>2 DEF Opened
<1>5. Done(l)' = Done(l)
  BY <1>1 DEF Done
<1>6. CASE Accepted(l)
  <2>1. pc[l] = "sent" /\ pc'[l] = "waiting" /\ OutOf(l)' = <<>>
    BY <1>1, <1>3, <1>6 DEF Accepted, GenerateBegin, OutOf, AgentInv, QuietInv, Shapes
  <2>2. Told(l)' = data'[l].text \o OutOf(l)'
    BY <2>1 DEF Told, InFlight, OutOf
  <2>3. Still(l)
    BY <1>1, <1>2, <1>5, <2>1, <2>2 DEF Still
  <2>4. FromModel(OutOf(l))'
    BY <2>1 DEF FromModel
  <2>5. Spoken(l)'
    BY <1>1, <1>2, <1>4, <2>1, <2>4 DEF Spoken
  <2>. QED BY <2>3, <2>5 DEF Hears
<1>7. CASE Refused(l) \/ Answered(l)
  <2>. DEFINE u == IF pc[l] = "sent" THEN <<>> ELSE OutOf(l)
  <2>1. pc'[l] = "reply" /\ reply'[l].ids = u
    BY <1>1, <1>7 DEF Refused, Answered, Result, OutOf, AgentInv, QuietInv, Shapes, TextTypes
  <2>2. Told(l) = data[l].text \o u
    <3>1. data[l].text \o <<>> = data[l].text
      BY <1>2
    <3>. QED BY <1>1, <1>2, <3>1
  <2>3. FromModel(u)
    BY <1>1 DEF SpokenInv, Spoken, FromModel
  <2>. HIDE DEF u
  <2>4. Told(l)' = data'[l].text \o reply'[l].ids
    BY <2>1 DEF Told, InFlight
  <2>5. Still(l)
    BY <1>1, <1>5, <2>1, <2>2, <2>4 DEF Still
  <2>6. FromModel(reply[l].ids)'
    BY <2>1, <2>3 DEF FromModel
  <2>7. Spoken(l)'
    BY <1>1, <1>2, <1>4, <2>1, <2>6 DEF Spoken
  <2>. QED BY <2>5, <2>7 DEF Hears
<1>. QED BY <1>6, <1>7

LEMMA JoinedAppend ==
  ASSUME NEW t \in Seq(Token), NEW o \in Seq(Token), NEW k \in Token
  PROVE  t \o Append(o, k) = Append(t \o o, k)
<1>1. /\ Len(t) \in Nat /\ Len(o) \in Nat /\ Len(t \o o) = Len(t) + Len(o)
      /\ Len(Append(o, k)) = Len(o) + 1
  OBVIOUS
<1>2. /\ t \o Append(o, k) \in Seq(Token) /\ Append(t \o o, k) \in Seq(Token)
      /\ Len(t \o Append(o, k)) = Len(t) + Len(o) + 1 /\ Len(Append(t \o o, k)) = Len(t) + Len(o) + 1
  BY <1>1
<1>3. ASSUME NEW i \in 1..Len(t) + Len(o) + 1
      PROVE  (t \o Append(o, k))[i] = Append(t \o o, k)[i]
  BY <1>1, <1>3
<1>. QED BY <1>2, <1>3

LEMMA StreamedHears == ASSUME AgentInv, SpokenInv, NEW l \in Loops, Streamed(l) PROVE Spoken(l)' /\ Hears(l)
<1>. DEFINE s == callee[l]
<1>1. pc[l] = "waiting" /\ UNCHANGED <<data, output, pc, callee>>
  BY DEF Streamed, loopVars
<1>2. PICK kind \in {"word", "open", "close"} :
        req' = [req EXCEPT ![s][l].out = Append(@, [kind |-> kind, version |-> version])]
  BY DEF Streamed, GenerateStep, NextKinds
<1>3. /\ ~Done(l) /\ output[l] # "completed" /\ data[l].text \in Seq(Token) /\ Opened(data[l].text)
      /\ data[l].state = "terminated" => data[l].text # <<>>
      /\ Told(l) = data[l].text \o OutOf(l)
  BY <1>1, Speaking
<1>4. callee[l] \in Servers /\ req \in [Servers -> [Loops -> RequestType]] /\ version \in Nat
  BY <1>1 DEF AgentInv, PlaceTypes, TextTypes
<1>. DEFINE k == [kind |-> kind, version |-> version]
            o == OutOf(l)
<1>5. o \in Seq(Token) /\ FromModel(o)
  BY <1>1, <1>4 DEF OutOf, RequestType, SpokenInv, Spoken
<1>6. k \in Token /\ k.kind # "env"
  BY <1>4 DEF Token, Kinds
<1>7. OutOf(l)' = Append(o, k)
  BY <1>1, <1>2, <1>4 DEF OutOf, RequestType
<1>. HIDE DEF k, o
<1>8. FromModel(Append(o, k))
  BY <1>5, <1>6 DEF FromModel
<1>9. Told(l)' = data[l].text \o OutOf(l)'
  BY <1>1 DEF Told, InFlight, OutOf
<1>10. data[l].text \o Append(o, k) = Append(data[l].text \o o, k)
  BY <1>3, <1>5, <1>6, JoinedAppend
<1>11. Told(l)' = Append(Told(l), k)
  BY <1>3, <1>7, <1>9, <1>10 DEF o
<1>12. ~Done(l)'
  BY <1>1, <1>3 DEF Done
<1>13. Hears(l)
  BY <1>3, <1>11, <1>12 DEF Hears, k
<1>14. Opened(data[l].text)' /\ FromModel(OutOf(l))'
  BY <1>1, <1>3, <1>7, <1>8 DEF Opened, FromModel
<1>15. Spoken(l)'
  BY <1>1, <1>3, <1>14 DEF Spoken
<1>. QED BY <1>13, <1>15

LEMMA StepHears == ASSUME AgentInv, SpokenInv, NEW l \in Loops, StepOf(l) PROVE Spoken(l)' /\ Hears(l)
  BY PendingHears, SendHears, CancelledHears, CompletedHears, SingleTurnHears, ReplyHears, ToolsHears,
     InteractingHears, CallHears, StreamedHears DEF StepOf

LEMMA DispatchStill ==
  ASSUME AgentInv, SpokenInv, NEW s \in Samples, Dispatch(s)
  PROVE  version' = version /\ \A l \in Loops : Spoken(l)' /\ Still(l)
<1>1. UNCHANGED <<version, req, callee, reply>>
  BY DEF Dispatch, serverVars
<1>2. task[s] = "waiting"
  BY DEF Dispatch
<1>3. ASSUME NEW l \in Loops, l \notin LoopsOf(s) PROVE Spoken(l)' /\ Still(l)
  <2>1. pc'[l] = pc[l] /\ data'[l] = data[l] /\ output'[l] = output[l]
    BY <1>3 DEF Dispatch
  <2>2. InFlight(l)' = InFlight(l)
    BY <1>1, <2>1 DEF InFlight
  <2>3. Spoken(l)
    BY DEF SpokenInv
  <2>4. Spoken(l)'
    BY <1>1, <2>1, <2>3 DEF Spoken, Opened, FromModel, OutOf
  <2>. QED BY <2>1, <2>2, <2>4 DEF Still, Told, Done
<1>4. ASSUME NEW l \in Loops, l \in LoopsOf(s) PROVE Spoken(l)' /\ Still(l)
  <2>1. pc[l] = "idle"
    BY <1>2, <1>4 DEF LoopsOf, AgentInv, QuietInv, LoopOfActive
  <2>2. /\ pc'[l] = IF output[l] = "completed" THEN "returned" ELSE "loop"
        /\ data'[l] = IF output[l] = "none" THEN FreshData ELSE data[l]
        /\ output'[l] = IF output[l] = "completed" THEN "completed" ELSE "none"
    BY <1>4 DEF Dispatch, Restored, ReturnedDirectly
  <2>3. Spoken(l)
    BY DEF SpokenInv
  <2>4. FreshData.text = <<>> /\ FreshData.state = "pending"
    BY DEF FreshData
  <2>5. data'[l].text = data[l].text
    BY <2>1, <2>2, <2>3, <2>4 DEF Spoken
  <2>6. InFlight(l) = <<>> /\ InFlight(l)' = <<>>
    BY <2>1, <2>2 DEF InFlight
  <2>7. Told(l)' = Told(l) /\ Done(l)' = Done(l)
    BY <2>2, <2>5, <2>6 DEF Told, Done
  <2>8. Spoken(l)'
    BY <2>1, <2>2, <2>3, <2>4, <2>5 DEF Spoken, Opened
  <2>. QED BY <2>7, <2>8 DEF Still
<1>. QED BY <1>1, <1>3, <1>4

LEMMA SampleReturnStill ==
  ASSUME AgentInv, SpokenInv, NEW s \in Samples, SampleReturn(s)
  PROVE  version' = version /\ \A l \in Loops : Spoken(l)' /\ Still(l)
<1>1. UNCHANGED <<version, req, data, output, callee, reply>>
  BY DEF SampleReturn, serverVars
<1>2. ASSUME NEW l \in Loops PROVE Spoken(l)' /\ Still(l)
  <2>1. pc'[l] = pc[l] \/ (pc[l] = "returned" /\ pc'[l] = "idle")
    BY DEF SampleReturn, LoopsOf
  <2>2. InFlight(l)' = InFlight(l)
    BY <1>1, <2>1 DEF InFlight
  <2>3. Spoken(l)
    BY DEF SpokenInv
  <2>4. Spoken(l)'
    BY <1>1, <2>1, <2>3 DEF Spoken, Opened, FromModel, OutOf
  <2>. QED BY <1>1, <2>2, <2>4 DEF Still, Told, Done
<1>. QED BY <1>1, <1>2

LEMMA ManagerStill ==
  ASSUME AgentInv, SpokenInv, Manager
  PROVE  version' \in {version, version + 1} /\ \A l \in Loops : Spoken(l)' /\ Still(l)
<1>1. UNCHANGED loopVars
  BY DEF Manager, GoOn, Tell, Cancel, TellServer, TellWorker, Paused, SyncWeights,
     UpdateParamVersion, Resume, Resumed
<1>2. \A t \in Servers, l \in Loops : req'[t][l].out = req[t][l].out
  <2>1. CASE \E s \in Servers : CancelServer(s)
    BY <2>1, CancelServerKeeps
  <2>2. CASE UNCHANGED req
    BY <2>2
  <2>. QED BY <2>1, <2>2 DEF Manager, GoOn, Tell, Cancel, TellServer, TellWorker, Paused, SyncWeights,
           UpdateParamVersion, Resume, Resumed, ResumeServer, serverVars
<1>3. version' \in {version, version + 1}
  BY DEF Manager, GoOn, Tell, Cancel, TellServer, TellWorker, Paused, SyncWeights,
     UpdateParamVersion, Resume, Resumed,
     CancelServer, ResumeServer, serverVars
<1>4. ASSUME NEW l \in Loops PROVE Spoken(l)' /\ Still(l)
  <2>1. /\ data'[l] = data[l] /\ output'[l] = output[l] /\ pc'[l] = pc[l] /\ reply'[l] = reply[l]
        /\ callee'[l] = callee[l]
    BY <1>1 DEF loopVars
  <2>2. pc[l] = "waiting" => OutOf(l)' = OutOf(l)
    BY <1>2, <2>1 DEF OutOf, AgentInv, PlaceTypes
  <2>3. InFlight(l)' = InFlight(l)
    BY <2>1, <2>2 DEF InFlight, OutOf
  <2>4. Spoken(l)
    BY DEF SpokenInv
  <2>5. Spoken(l)'
    BY <2>1, <2>2, <2>4 DEF Spoken, Opened, FromModel
  <2>. QED BY <2>1, <2>3, <2>5 DEF Still, Told, Done
<1>. QED BY <1>3, <1>4

\* The steps of Trajectory
LEMMA WholeStill ==
  ASSUME \A l \in Loops : Still(l), version' \in {version, version + 1}
  PROVE  [Whole!Next]_(Whole!vars)
<1>1. [l \in Loops |-> data[l].text \o InFlight(l)]' = [l \in Loops |-> data[l].text \o InFlight(l)]
  BY DEF Still, Told
<1>2. [l \in Loops |-> output[l] = "completed"]' = [l \in Loops |-> output[l] = "completed"]
  BY DEF Still, Done
<1>. QED BY <1>1, <1>2 DEF Whole!vars, Whole!Next, Whole!NewVersion

LEMMA SameMin == \A S : Whole!Min(S) = Min(S)
  BY DEF Whole!Min, Min

LEMMA WholeStep ==
  ASSUME NEW l \in Loops, Hears(l), \A m \in Loops \ {l} : Still(m), version' = version
  PROVE  [Whole!Next]_(Whole!vars)
<1>. DEFINE text == [m \in Loops |-> data[m].text \o InFlight(m)]
            complete == [m \in Loops |-> output[m] = "completed"]
<1>1. \A m \in Loops : text[m] = Told(m) /\ complete[m] = Done(m)
  BY DEF Told, Done
<1>2. text' = [m \in Loops |-> Told(m)'] /\ complete' = [m \in Loops |-> Done(m)']
  BY DEF Told, Done
<1>3. text' = [text EXCEPT ![l] = Told(l)']
  BY <1>1, <1>2 DEF Still
<1>4. ASSUME Done(l)' = Done(l) PROVE complete' = complete
  BY <1>1, <1>2, <1>4 DEF Still
<1>5. ASSUME Done(l)' PROVE complete' = [complete EXCEPT ![l] = TRUE]
  BY <1>1, <1>2, <1>5 DEF Still, Done
<1>6. CASE Still(l)
  <2>1. \A m \in Loops : Still(m)
    BY <1>6
  <2>. QED BY <2>1, WholeStill
<1>7. CASE ~Done(l) /\ ~Done(l)' /\ \E kind \in {"word", "open", "close"} :
             Told(l)' = Append(Told(l), [kind |-> kind, version |-> version])
  <2>1. complete' = complete
    BY <1>4, <1>7 DEF Done
  <2>. HIDE DEF text, complete
  <2>2. /\ ~complete[l] /\ version' = version
        /\ \E kind \in {"word", "open", "close"} :
             text' = [text EXCEPT ![l] = Append(@, [kind |-> kind, version |-> version])]
    BY <1>1, <1>3, <1>7
  <2>. USE DEF text, complete
  <2>3. Whole!Generate(l)
    BY <2>1, <2>2 DEF Whole!Generate
  <2>. QED BY <2>3 DEF Whole!Next
<1>8. CASE ~Done(l) /\ ~Done(l)' /\ Spoke(Told(l)) /\ \E n \in 1..MaxAnswer : Told(l)' = Told(l) \o Answer(n)
  <2>1. complete' = complete
    BY <1>4, <1>8 DEF Done
  <2>. HIDE DEF text, complete
  <2>2. /\ ~complete[l] /\ version' = version /\ Whole!Begun(text[l])
        /\ \E n \in 1..MaxAnswer :
             text' = [text EXCEPT ![l] = @ \o [i \in 1..n |-> [kind |-> "env", version |-> version]]]
    BY <1>1, <1>3, <1>8 DEF Answer, Spoke, Whole!Begun
  <2>. USE DEF text, complete
  <2>3. Whole!Answer(l)
    BY <2>1, <2>2 DEF Whole!Answer
  <2>. QED BY <2>3 DEF Whole!Next
<1>9. CASE ~Done(l) /\ Done(l)' /\ Spoke(Told(l)) /\ Told(l)' = Capped(Told(l))
  <2>1. complete' = [complete EXCEPT ![l] = TRUE]
    BY <1>5, <1>9
  <2>. HIDE DEF text, complete
  <2>2. /\ ~complete[l] /\ version' = version /\ Whole!Begun(text[l])
        /\ text' = [text EXCEPT ![l] = SubSeq(@, 1, Whole!Min({Len(@), ResponseLength}))]
    <3>1. Whole!Begun(Told(l)) /\ text[l] = Told(l) /\ ~complete[l]
      BY <1>1, <1>9 DEF Spoke, Whole!Begun
    <3>2. Told(l)' = SubSeq(text[l], 1, Whole!Min({Len(text[l]), ResponseLength}))
      BY <1>9, <3>1, SameMin DEF Capped
    <3>. QED BY <1>3, <3>1, <3>2
  <2>. USE DEF text, complete
  <2>3. Whole!Complete(l)
    BY <2>1, <2>2 DEF Whole!Complete
  <2>. QED BY <2>3 DEF Whole!Next
<1>. QED BY <1>6, <1>7, <1>8, <1>9 DEF Hears

LEMMA SpokenStep ==
  AgentInv /\ SpokenInv /\ [Next]_vars => SpokenInv' /\ [Whole!Next]_(Whole!vars)
<1>. SUFFICES ASSUME AgentInv, SpokenInv, [Next]_vars PROVE SpokenInv' /\ [Whole!Next]_(Whole!vars)
  OBVIOUS
<1>1. CASE UNCHANGED vars
  <2>1. UNCHANGED <<data, output, pc, callee, reply, req, version>>
    BY <1>1 DEF vars, loopVars, serverVars
  <2>2. SpokenInv'
    BY <2>1 DEF SpokenInv, Spoken, Opened, FromModel, OutOf
  <2>3. \A l \in Loops : Still(l)
    BY <2>1 DEF Still, Told, Done, InFlight
  <2>. QED BY <2>1, <2>2, <2>3, WholeStill
<1>2. CASE Manager
  BY <1>2, ManagerStill, WholeStill DEF SpokenInv
<1>3. ASSUME NEW s \in Samples, SampleStep(s) PROVE SpokenInv' /\ [Whole!Next]_(Whole!vars)
  <2>1. version' = version /\ \A l \in Loops : Spoken(l)' /\ Still(l)
    BY <1>3, DispatchStill, SampleReturnStill DEF SampleStep
  <2>. QED BY <2>1, WholeStill DEF SpokenInv
<1>4. ASSUME NEW l \in Loops, StepOf(l) PROVE SpokenInv' /\ [Whole!Next]_(Whole!vars)
  <2>1. Alone(l) /\ Spoken(l)' /\ Hears(l)
    BY <1>4, StepAlone, StepHears
  <2>2. \A m \in Loops \ {l} : Spoken(m)' /\ Still(m)
    BY <2>1, OthersStill DEF SpokenInv, AgentInv
  <2>3. version' = version
    BY <2>1 DEF Alone
  <2>. QED BY <2>1, <2>2, <2>3, WholeStep DEF SpokenInv
<1>. QED BY <1>1, <1>2, <1>3, <1>4 DEF Next

LEMMA SpokenInit == Init => SpokenInv /\ Whole!Init
<1>. SUFFICES ASSUME Init PROVE SpokenInv /\ Whole!Init
  OBVIOUS
<1>1. FreshData.text = <<>> /\ FreshData.state = "pending" /\ <<>> \o <<>> = <<>>
  BY DEF FreshData
<1>2. \A l \in Loops : data[l] = FreshData /\ output[l] = "none" /\ pc[l] = "idle" /\ version = 0
  BY DEF Init, ServerInit
<1>3. SpokenInv
  BY <1>1, <1>2 DEF SpokenInv, Spoken, Opened
<1>4. \A l \in Loops : data[l].text \o InFlight(l) = <<>>
  BY <1>1, <1>2 DEF InFlight
<1>5. version = 0
  BY DEF Init, ServerInit
<1>. QED BY <1>2, <1>3, <1>4, <1>5 DEF Whole!Init

\* Every token a server has generated is in the trajectory, once and in its place;
\* what has been said is never unsaid, and a completed output is final: partial
\* rollout implements Trajectory, whatever is cancelled, refused and resumed.
THEOREM TrajectoryImplemented == Spec => RefinesTrajectory
<1>1. Spec => [](AgentInv /\ SpokenInv)
  <2>1. Init => AgentInv /\ SpokenInv
    BY AgentInit, SpokenInit
  <2>2. (AgentInv /\ SpokenInv) /\ [Next]_vars => (AgentInv /\ SpokenInv)'
    BY AgentStep, SpokenStep
  <2>. QED BY <2>1, <2>2, PTL DEF Spec
<1>2. Init => Whole!Init
  BY SpokenInit
<1>3. AgentInv /\ SpokenInv /\ [Next]_vars => [Whole!Next]_(Whole!vars)
  BY SpokenStep
<1>. QED BY <1>1, <1>2, <1>3, PTL DEF Spec, RefinesTrajectory, Whole!Spec
=============================================================================
