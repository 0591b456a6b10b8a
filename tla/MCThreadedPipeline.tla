------------------------- MODULE MCThreadedPipeline -------------------------
(* Small instances of ThreadedPipeline for TLC. *)
EXTENDS ThreadedPipeline, TLC

CONSTANTS w1, w2

TwoWorkers == {w1, w2}

Symmetry == Permutations(TwoWorkers)
=============================================================================
