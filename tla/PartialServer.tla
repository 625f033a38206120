--------------------------- MODULE PartialServer ---------------------------
(***************************************************************************)
(* The rollout server of partial rollout (vLLMHttpServerForPartial and its *)
(* SGLang twin): a generation can be cut short by cancel(), and what has   *)
(* been generated so far is returned.                                      *)
(*                                                                         *)
(* The critical sections of the server's lock do not suspend, so that each *)
(* is one action; between the two sections of a request the engine hands   *)
(* over tokens and cancel() may set the request's event.  A request is     *)
(* identified by the trajectory it extends (a pair of sample and index).   *)
(***************************************************************************)
EXTENDS Integers, Sequences

CONSTANTS Servers, Loops,
          ToolLoops,      \* the requests whose prompt offers tools
          Engines,        \* kinds of server: "vllm", "sglang"
          MaxTokens       \* tokens that fit the model's context after the prompt

ASSUME ServerAssumption ==
    /\ Engines \subseteq {"vllm", "sglang"}
    /\ MaxTokens \in Nat \ {0}

VARIABLES
    engine,      \* which server class the replicas use
    version,     \* version of the weights the servers hold
    paused,      \* paused[s]: self.paused of server s
    req,         \* req[s][l]: cancel_event and req_output of server s
    handle       \* handle[l]: the generation task of the request in progress

serverVars == <<engine, version, paused, req, handle>>

\* A token: a word, the opening or closing mark of a tool call, or a token of
\* the environment (the answer of a tool or of the user).
Kinds == {"word", "open", "close", "env"}

NoRequest == [event |-> "absent", out |-> <<>>]

----------------------------------------------------------------------------
\* generate_for_partial, first critical section: the request is registered and
\* its generation task started.
GenerateBegin(s, l) ==
    /\ ~paused[s]
    /\ req' = [req EXCEPT ![s][l] = [event |-> "clear", out |-> <<>>]]
    /\ handle' = [handle EXCEPT ![l] = "running"]
    /\ UNCHANGED <<engine, version, paused>>

\* The engine: what a model may write after "text".  A call that has been
\* opened is closed, which ends the turn; words may go on or end the turn, and
\* the last token that fits ends it in any case.
NextKinds(l, text) ==
    IF l \notin ToolLoops THEN {"word"}
    ELSE IF text # <<>> /\ text[Len(text)].kind = "open" THEN {"close"} ELSE {"word", "open"}

EndsTurn(kind, length) ==
    IF kind = "close" \/ length >= MaxTokens THEN {TRUE}
    ELSE IF kind = "open" THEN {FALSE} ELSE BOOLEAN

\* _generate_step: one more output of the engine for the request whose prompt
\* ends with "text"; the last one ends the task.
GenerateStep(s, l, text) ==
    /\ handle[l] = "running"
    /\ LET all == text \o req[s][l].out
       IN  \E kind \in NextKinds(l, all) : \E last \in EndsTurn(kind, Len(all) + 1) :
             /\ req' = [req EXCEPT ![s][l].out =
                          Append(@, [kind |-> kind, version |-> version])]
             /\ handle' = [handle EXCEPT ![l] = IF last THEN "done" ELSE "running"]
    /\ UNCHANGED <<engine, version, paused>>

\* What the call returns after asyncio.wait: the tokens, and whether the
\* generation was still running.
Result(s, l) ==
    [ids |-> req[s][l].out, cancel |-> req[s][l].out = <<>> \/ handle[l] # "done"]

\* Mutant of Forgotten: the SGLang server keeps the entry as well.
ForgottenSeldom(s, l) == req[s][l].out # <<>>

\* The vLLM server leaves the entry of a request cut before its first token.
Forgotten(s, l) == req[s][l].out # <<>> \/ engine = "sglang"

\* generate_for_partial after asyncio.wait: the pending task is cancelled and
\* the entry dropped.
GenerateEnd(s, l) ==
    /\ handle[l] = "done" \/ req[s][l].event = "set"
    /\ handle' = [handle EXCEPT ![l] = "none"]
    /\ req' = IF Forgotten(s, l) THEN [req EXCEPT ![s][l] = NoRequest] ELSE req
    /\ UNCHANGED <<engine, version, paused>>

----------------------------------------------------------------------------
\* cancel: later requests are refused and every registered one is interrupted.
CancelServer(s) ==
    /\ paused' = [paused EXCEPT ![s] = TRUE]
    /\ req' = [req EXCEPT ![s] =
                 [l \in Loops |-> IF @[l].event = "absent" THEN @[l]
                                  ELSE [@[l] EXCEPT !.event = "set"]]]
    /\ UNCHANGED <<engine, version, handle>>

\* resume
ResumeServer(s) ==
    /\ paused' = [paused EXCEPT ![s] = FALSE]
    /\ UNCHANGED <<engine, version, req, handle>>

ServerInit ==
    /\ engine \in Engines
    /\ version = 0
    /\ paused = [s \in Servers |-> FALSE]
    /\ req = [s \in Servers |-> [l \in Loops |-> NoRequest]]
    /\ handle = [l \in Loops |-> "none"]
=============================================================================
