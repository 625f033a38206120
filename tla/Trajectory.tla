----------------------------- MODULE Trajectory -----------------------------
(***************************************************************************)
(* What partial rollout promises for a trajectory, whatever cuts it: its   *)
(* text only grows, one token of the current weights or one answer of the  *)
(* environment at a time, until it is complete; then it is cut to the      *)
(* response length and never changes again.                                *)
(***************************************************************************)
EXTENDS Integers, Sequences, SequencesExt

CONSTANTS Loops, ResponseLength, MaxAnswer

\* The model has written something of a text.
Begun(s) == \E i \in 1..Len(s) : s[i].kind # "env"

VARIABLES text, complete, version

vars == <<text, complete, version>>

Init ==
    /\ text = [l \in Loops |-> <<>>]
    /\ complete = [l \in Loops |-> FALSE]
    /\ version = 0

Generate(l) ==
    /\ ~complete[l]
    /\ \E kind \in {"word", "open", "close"} :
         text' = [text EXCEPT ![l] = Append(@, [kind |-> kind, version |-> version])]
    /\ UNCHANGED <<complete, version>>

Answer(l) ==
    /\ ~complete[l]
    /\ Begun(text[l])
    /\ \E n \in 1..MaxAnswer :
         text' = [text EXCEPT ![l] = @ \o [i \in 1..n |-> [kind |-> "env", version |-> version]]]
    /\ UNCHANGED <<complete, version>>

Complete(l) ==
    /\ ~complete[l]
    /\ Begun(text[l])
    /\ text' = [text EXCEPT ![l] = SubSeq(@, 1, Min({Len(@), ResponseLength}))]
    /\ complete' = [complete EXCEPT ![l] = TRUE]
    /\ UNCHANGED version

NewVersion ==
    /\ version' = version + 1
    /\ UNCHANGED <<text, complete>>

Next == NewVersion \/ \E l \in Loops : Generate(l) \/ Answer(l) \/ Complete(l)

Spec == Init /\ [][Next]_vars
=============================================================================
