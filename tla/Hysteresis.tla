----------------------------- MODULE Hysteresis -----------------------------
(***************************************************************************)
(* What the Degraded-Mode controller promises about its mode, in terms of  *)
(* the p99 levels it observes: the mode changes exactly when the last      *)
(* Dwell observations, all made since the previous change, speak for it.   *)
(***************************************************************************)
EXTENDS Integers, Sequences

CONSTANT Dwell    \* how many consecutive observations a change takes

\* Low: below the recovery threshold.  High: above the entry threshold.
Low == 0
Mid == 1
High == 2
Levels == {Low, Mid, High}

VARIABLES
    degraded,     \* the mode
    recent        \* the latest observations since the last change

SpeaksForChange(l) == IF degraded THEN l = Low ELSE l = High

Init == degraded = FALSE /\ recent = <<>>

Change(l) ==
    LET r == Append(recent, l) IN
    /\ Len(r) = Dwell
    /\ \A i \in 1..Dwell : SpeaksForChange(r[i])
    /\ degraded' = ~degraded
    /\ recent' = <<>>

\* Only the last Dwell - 1 observations can matter for the next change.
Keep(l) ==
    LET r == Append(recent, l) IN
    /\ \/ Len(r) < Dwell
       \/ \E i \in 1..Len(r) : ~SpeaksForChange(r[i])
    /\ UNCHANGED degraded
    /\ recent' = IF Len(r) < Dwell THEN r ELSE Tail(r)

Next == \E l \in Levels : Change(l) \/ Keep(l)

Spec == Init /\ [][Next]_<<degraded, recent>>
=============================================================================
