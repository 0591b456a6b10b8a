---------------------------- MODULE MCAsyncIngest ----------------------------
(* Small instances of AsyncIngest for TLC. *)
EXTENDS AsyncIngest

SomeLimits == {NoLimit, 0, 4}
=============================================================================
