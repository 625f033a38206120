--------------------------- MODULE MessageQueueMC ---------------------------
(* Five puts of two values through a queue of two, read by two concurrent   *)
(* consumers: enough to sleep, to drop, to clear, to overtake, to shut down. *)
EXTENDS MessageQueueHistory, TLC

CONSTANTS a, b, c1, c2

MCItems == {a, b}
MCConsumers == {c1, c2}
=============================================================================
