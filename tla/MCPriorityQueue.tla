-------------------------- MODULE MCPriorityQueue --------------------------
(* Small instances of PriorityQueue for TLC. *)
EXTENDS PriorityQueue, TLC

CONSTANTS w1, w2

TwoWorkers == {w1, w2}
=============================================================================
