---------------------------- MODULE MCReplayServer ----------------------------
(* Small instances of ReplayServer for TLC. *)
EXTENDS ReplayServer

CONSTANTS c1, c2

TwoClients == {c1, c2}

\* A recording with gaps of 2, 0 and 1 ticks and a blank line, one put together by hand
\* whose times go back, an empty one, and one that ends in the middle of an event.
FourFiles == {<<1, 3, Blank, 3, 4>>, <<3, 1>>, <<Blank>>, <<1, Bad>>}
=============================================================================
