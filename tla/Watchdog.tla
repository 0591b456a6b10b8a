------------------------------- MODULE Watchdog -------------------------------
(***************************************************************************)
(* WatchdogState (crates/rts-core/src/watchdog.rs): one atomic heartbeat,  *)
(* touched by the thread that parses events and compared by a periodic     *)
(* checker.  Neither reads the clock and the heartbeat in one step.        *)
(* Time counts ticks since the start of the process.  ThreadedIngest       *)
(* composes these steps with the thread that touches.                      *)
(***************************************************************************)
EXTENDS Integers

CONSTANTS
    StaleTicks,     \* STALE_NS
    Width,          \* the number of values of the clock, 2^64 in the code
    MaxTime         \* bound: the time at which the clock stops

None == -1

VARIABLES
    clock,          \* now_ns
    last_ns,        \* the heartbeat
    stamp,          \* the time touch has read and not yet stored, or None
    checker,        \* where run_sync_checker is
    now             \* the time is_stale has read

watchdogVars == <<clock, last_ns, stamp, checker, now>>

Positions == {"sleep", "awake", "check", "compare", "done"}

Init ==
    /\ clock = 0
    /\ last_ns = 0
    /\ stamp = None
    /\ checker = "sleep"
    /\ now = 0

Tick ==
    /\ clock < MaxTime
    /\ clock' = clock + 1
    /\ UNCHANGED <<last_ns, stamp, checker, now>>

\* touch: the clock is read ...
ReadStamp ==
    /\ stamp = None
    /\ stamp' = clock
    /\ UNCHANGED <<clock, last_ns, checker, now>>

\* ... and stored, later.
StoreStamp ==
    /\ stamp # None
    /\ last_ns' = stamp
    /\ stamp' = None
    /\ UNCHANGED <<clock, checker, now>>

\* The sleep of the checker ends.
WakeUp ==
    /\ checker = "sleep"
    /\ checker' = "awake"
    /\ UNCHANGED <<clock, last_ns, stamp, now>>

SeeFlag(flag) ==
    /\ checker = "awake"
    /\ checker' = IF flag THEN "done" ELSE "check"
    /\ UNCHANGED <<clock, last_ns, stamp, now>>

\* is_stale: the clock is read first, ...
ReadClock ==
    /\ checker = "check"
    /\ now' = clock
    /\ checker' = "compare"
    /\ UNCHANGED <<clock, last_ns, stamp>>

\* Mutant: the subtraction wraps around.
MutantElapsed == (now - last_ns) % Width

\* saturating_sub: a heartbeat newer than the clock value that was read counts as now.
Elapsed == IF now > last_ns THEN now - last_ns ELSE 0

Stale == Elapsed > StaleTicks

\* ... then the heartbeat; a touch may have come in between.  A stale heartbeat is
\* logged, and nothing else happens.
Compare ==
    /\ checker = "compare"
    /\ checker' = "sleep"
    /\ UNCHANGED <<clock, last_ns, stamp, now>>

CheckerStep(flag) == WakeUp \/ SeeFlag(flag) \/ ReadClock \/ Compare
-----------------------------------------------------------------------------
(* Properties *)

\* Every variable has its type, and no heartbeat comes from the future.
TypeOK ==
    /\ clock \in 0..MaxTime
    /\ last_ns \in 0..clock
    /\ stamp = None \/ stamp \in last_ns..clock
    /\ checker \in Positions
    /\ now \in 0..clock

\* A warning tells the truth: when the comparison finds the heartbeat stale, nothing
\* has been stored for longer than the stale window, wherever a touch fell between
\* the two reads of the check.
NoFalseAlarm == checker = "compare" /\ Stale => clock - last_ns > StaleTicks
=============================================================================
