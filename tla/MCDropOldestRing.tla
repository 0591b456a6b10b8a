-------------------------- MODULE MCDropOldestRing --------------------------
(* Small instances of DropOldestRing for TLC. *)
EXTENDS DropOldestRing, TLC

CONSTANTS a1, a2, a3, b1, b2

Async == {a1, a2, a3}
Blocking == {b1, b2}

Symmetry == Permutations(Async) \union Permutations(Blocking)
=============================================================================
