------------------------------- MODULE EventLife -------------------------------
(***************************************************************************)
(* What both pipelines promise to do with the events of the stream,        *)
(* whatever the runtime: an event is rejected, shed, or queued; a queued   *)
(* one is evicted, started, or left when the workers stop; a started one   *)
(* is finished.  The summary is printed when nothing is being worked on,   *)
(* and nothing happens after it.                                           *)
(***************************************************************************)
EXTENDS Integers

CONSTANT Hands     \* the number of workers

VARIABLES
    stage,         \* "open" to events, "closed", "reported", or "failed"
    room,          \* how many events may wait
    arriving,      \* 1 while an event is being dispatched, else 0
    received, rejected, shed, evicted, waiting, working, done   \* numbers of events

waitingVars == <<room, waiting, working, done>>
lifeVars == <<stage, arriving, received, rejected, shed, evicted, waitingVars>>

LifeInit ==
    /\ stage = "open"
    /\ room \in Nat
    /\ arriving = 0
    /\ received = 0 /\ rejected = 0 /\ shed = 0 /\ evicted = 0
    /\ waiting = 0 /\ working = 0 /\ done = 0

Receive ==
    /\ stage = "open"
    /\ arriving = 0
    /\ arriving' = 1
    /\ received' = received + 1
    /\ UNCHANGED <<stage, rejected, shed, evicted, waitingVars>>

\* The end of a dispatch, which may be that of the last event.
Settle ==
    /\ stage = "open"
    /\ arriving = 1
    /\ arriving' = 0
    /\ stage' \in {"open", "closed"}
    /\ UNCHANGED <<received, room, working, done>>

Refuse ==
    /\ Settle
    /\ \/ rejected' = rejected + 1 /\ UNCHANGED shed
       \/ shed' = shed + 1 /\ UNCHANGED rejected
    /\ UNCHANGED <<evicted, waiting>>

Queue ==
    /\ Settle
    /\ \/ waiting < room /\ waiting' = waiting + 1 /\ UNCHANGED evicted
       \/ waiting > 0 /\ evicted' = evicted + 1 /\ UNCHANGED waiting
    /\ UNCHANGED <<rejected, shed>>

Start ==
    /\ stage # "reported"
    /\ waiting > 0
    /\ working < Hands
    /\ waiting' = waiting - 1
    /\ working' = working + 1
    /\ UNCHANGED <<stage, arriving, received, rejected, shed, evicted, room, done>>

Finish ==
    /\ working > 0
    /\ working' = working - 1
    /\ done' = done + 1
    /\ UNCHANGED <<stage, arriving, received, rejected, shed, evicted, room, waiting>>

\* An error leaves an event that was being dispatched as it is.
Close ==
    /\ stage = "open"
    /\ \/ stage' = "closed" /\ arriving = 0
       \/ stage' = "failed"
    /\ UNCHANGED <<arriving, received, rejected, shed, evicted, waitingVars>>

Report ==
    /\ stage = "closed"
    /\ working = 0
    /\ stage' = "reported"
    /\ UNCHANGED <<arriving, received, rejected, shed, evicted, waitingVars>>

LifeNext == Receive \/ Refuse \/ Queue \/ Start \/ Finish \/ Close \/ Report

LifeSpec == LifeInit /\ [][LifeNext]_lifeVars
-----------------------------------------------------------------------------
(* Properties *)

\* No event is lost or done twice, the bound on waiting events holds, and the summary
\* is printed over idle workers.
NothingLost ==
    /\ received = arriving + rejected + shed + evicted + waiting + working + done
    /\ waiting <= room
    /\ working <= Hands
    /\ stage = "reported" => arriving = 0 /\ working = 0

\* Nothing happens to any event after the summary: what it says remains true.
ReportIsLast == [][stage # "reported"]_lifeVars
=============================================================================
