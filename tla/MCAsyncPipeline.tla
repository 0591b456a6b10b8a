-------------------------- MODULE MCAsyncPipeline --------------------------
(* Small instances of AsyncPipeline for TLC. *)
EXTENDS AsyncPipeline, TLC

CONSTANTS w1, w2

TwoWorkers == {w1, w2}
OneWorker == {w1}

Symmetry == Permutations(TwoWorkers)
=============================================================================
