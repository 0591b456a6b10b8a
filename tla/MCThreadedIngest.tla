-------------------------- MODULE MCThreadedIngest --------------------------
(* Small instances of ThreadedIngest for TLC. *)
EXTENDS ThreadedIngest

SomeLimits == {0, 2}
Unlimited == {NoLimit}
=============================================================================
