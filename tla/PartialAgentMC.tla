--------------------------- MODULE PartialAgentMC ---------------------------
(* Two trajectories of one sample, one with tools and one without, on one   *)
(* worker and one server.                                                   *)
EXTENDS PartialAgent

MCLoops == {"s1"} \X (1..2)
MCToolLoops == {<<"s1", 1>>}
MCEngines == {"vllm", "sglang"}
=============================================================================
