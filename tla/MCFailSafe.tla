---------------------------- MODULE MCFailSafe ----------------------------
(* Small instances of FailSafe for TLC. *)
EXTENDS FailSafe, TLC

CONSTANTS w1, w2

TwoWorkers == {w1, w2}
OneWorker == {w1}

Symmetry == Permutations(TwoWorkers)
=============================================================================
