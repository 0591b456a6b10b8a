------------------------------ MODULE FailSafe ------------------------------
(***************************************************************************)
(* crates/rts-core/src/failsafe.rs: the sliding p99 window over the        *)
(* workers' jitter samples and the hysteresis that switches Degraded Mode. *)
(*                                                                         *)
(* A sample is its level with respect to the two thresholds.  A worker     *)
(* reads the bucket index and locks the bucket in two separate critical    *)
(* sections; a tick locks the buckets one after the other while it merges  *)
(* them.  So a tick may come between the two steps of a sample, and        *)
(* samples may come between the buckets of a merge.                        *)
(***************************************************************************)
EXTENDS Integers, Sequences, FiniteSets, FiniteSetsExt

CONSTANTS
    Workers,       \* the threads that record jitter
    DwellTicks,    \* DWELL_TICKS, 10 in the code
    RingLen,       \* RING_LEN, 5 in the code
    MaxSamples     \* bound: number of samples recorded in a behaviour

ASSUME FailSafeAssumption ==
    /\ DwellTicks \in Nat \ {0}
    /\ RingLen \in Nat \ {0}
    /\ MaxSamples \in Nat

\* Below RECOVER_NS, between the thresholds, above ENTER_NS.
Low == 0
Mid == 1
High == 2
Levels == {Low, Mid, High}

\* A histogram, as far as the thresholds can tell: a count for each level.
Histogram == [Levels -> Nat]
Empty == [l \in Levels |-> 0]
Add(g, h) == [l \in Levels |-> g[l] + h[l]]
Total(h) == h[Low] + h[Mid] + h[High]

Buckets == 0..(RingLen - 1)
None == RingLen      \* no bucket index read

VARIABLES
    idx,          \* the current bucket
    buckets,      \* the histograms
    degraded,     \* the AtomicBool read by the parser
    dwell,        \* consecutive ticks that speak for a change
    chosen,       \* the bucket index a recording worker has read, or None
    tick,         \* the ticker: "sleeping", "merging", "stopped"
    next,         \* the bucket p99_ns merges next
    merged,       \* the scratch histogram of p99_ns
    cancel,       \* the shutdown flag
    samples,      \* history: number of samples recorded
    age,          \* history: ticks since the oldest sample of a bucket
    recent        \* history: levels evaluated since the last change of mode

failVars == <<idx, buckets, degraded, dwell, chosen, tick, next, merged,
              cancel, samples, age, recent>>

Init ==
    /\ idx = 0
    /\ buckets = [b \in Buckets |-> Empty]
    /\ degraded = FALSE
    /\ dwell = 0
    /\ chosen = [w \in Workers |-> None]
    /\ tick = "sleeping"
    /\ next = 0
    /\ merged = Empty
    /\ cancel = FALSE
    /\ samples = 0
    /\ age = [b \in Buckets |-> 0]
    /\ recent = <<>>

-----------------------------------------------------------------------------
(* The 99th percentile.  The Mutant operators are faults that the properties *)
(* below must notice.                                                         *)

\* value_at_quantile(0.99): the smallest level that 99 % of the samples do not
\* exceed; an empty histogram yields 0.
Cumulative(h, l) == IF l = Low THEN h[Low]
                    ELSE IF l = Mid THEN h[Low] + h[Mid] ELSE Total(h)

\* Mutant: an empty window is no evidence of recovery.
MutantP99(h) ==
    IF Total(h) = 0 THEN Mid
    ELSE Min({l \in Levels : 100 * Cumulative(h, l) >= 99 * Total(h)})

P99(h) ==
    IF Total(h) = 0 THEN Low
    ELSE Min({l \in Levels : 100 * Cumulative(h, l) >= 99 * Total(h)})

-----------------------------------------------------------------------------
(* record_jitter *)

\* The index is read and its lock released.
ReadIndex(w) ==
    /\ chosen[w] = None
    /\ samples < MaxSamples
    /\ chosen' = [chosen EXCEPT ![w] = idx]
    /\ samples' = samples + 1
    /\ UNCHANGED <<idx, buckets, degraded, dwell, tick, next, merged, cancel,
                   age, recent>>

\* The bucket is locked and the sample counted.
Record(w, l) ==
    /\ chosen[w] # None
    /\ buckets' = [buckets EXCEPT ![chosen[w]][l] = @ + 1]
    /\ age' = IF Total(buckets[chosen[w]]) = 0
                THEN [age EXCEPT ![chosen[w]] = 0] ELSE age
    /\ chosen' = [chosen EXCEPT ![w] = None]
    /\ UNCHANGED <<idx, degraded, dwell, tick, next, merged, cancel, samples,
                   recent>>

-----------------------------------------------------------------------------
(* tick *)

\* Mutant: the new bucket keeps its old samples.
MutantCleared(i) == buckets

Cleared(i) == [buckets EXCEPT ![i] = Empty]

\* advance: move on and clear, then start p99_ns with an empty scratch histogram.
Advance ==
    /\ tick = "sleeping"
    /\ ~cancel
    /\ idx' = (idx + 1) % RingLen
    /\ buckets' = Cleared(idx')
    /\ age' = [b \in Buckets |-> IF Total(buckets'[b]) = 0 THEN 0 ELSE age[b] + 1]
    /\ tick' = "merging"
    /\ next' = 0
    /\ merged' = Empty
    /\ UNCHANGED <<degraded, dwell, chosen, cancel, samples, recent>>

MergeBucket ==
    /\ tick = "merging"
    /\ next < RingLen
    /\ merged' = Add(merged, buckets[next])
    /\ next' = next + 1
    /\ UNCHANGED <<idx, buckets, degraded, dwell, chosen, tick, cancel, samples,
                   age, recent>>

SpeaksForChange(p) == IF degraded THEN p = Low ELSE p = High

\* Mutant: a tick that does not qualify leaves the counter alone.
MutantDwellReset == dwell

DwellReset == 0

\* Mutant: one tick too many is asked for.
MutantEnough == dwell + 1 > DwellTicks

Enough == dwell + 1 >= DwellTicks

\* The rest of tick: the level is judged under the lock of the dwell counter.
Switch(p) ==
    /\ SpeaksForChange(p)
    /\ Enough
    /\ degraded' = ~degraded
    /\ dwell' = 0
    /\ recent' = <<>>

Count(p) ==
    /\ SpeaksForChange(p)
    /\ ~Enough
    /\ dwell' = dwell + 1
    /\ UNCHANGED degraded

Restart(p) ==
    /\ ~SpeaksForChange(p)
    /\ dwell' = DwellReset
    /\ UNCHANGED degraded

\* The history keeps the last DwellTicks - 1 levels.
Remember(p) ==
    recent' = IF Len(recent) + 1 < DwellTicks THEN Append(recent, p)
              ELSE Tail(Append(recent, p))

Evaluate ==
    LET p == P99(merged) IN
    /\ tick = "merging"
    /\ next = RingLen
    /\ \/ Switch(p)
       \/ Count(p) /\ Remember(p)
       \/ Restart(p) /\ Remember(p)
    /\ tick' = "sleeping"
    /\ next' = 0
    /\ merged' = Empty
    /\ UNCHANGED <<idx, buckets, chosen, cancel, samples, age>>

-----------------------------------------------------------------------------
(* run_sync_ticker looks at the flag after each sleep. *)

Cancel ==
    /\ ~cancel
    /\ cancel' = TRUE
    /\ UNCHANGED <<idx, buckets, degraded, dwell, chosen, tick, next, merged,
                   samples, age, recent>>

StopTicker ==
    /\ tick = "sleeping"
    /\ cancel
    /\ tick' = "stopped"
    /\ UNCHANGED <<idx, buckets, degraded, dwell, chosen, next, merged, cancel,
                   samples, age, recent>>

-----------------------------------------------------------------------------

Ticker == Advance \/ MergeBucket \/ Evaluate \/ StopTicker

Recorder(w) == ReadIndex(w) \/ \E l \in Levels : Record(w, l)

Next ==
    \/ Ticker
    \/ \E w \in Workers : Recorder(w)
    \/ Cancel

Spec == Init /\ [][Next]_failVars

(***************************************************************************)
(* The ticker's sleep ends after a second and its thread is scheduled; a   *)
(* worker that has read the index goes on.  No sample has to be recorded.  *)
(***************************************************************************)
Fairness ==
    /\ WF_failVars(Ticker)
    /\ \A w \in Workers : WF_failVars(\E l \in Levels : Record(w, l))

FairSpec == Spec /\ Fairness
-----------------------------------------------------------------------------
(* Properties *)

\* Every variable has its type.
TypeOK ==
    /\ idx \in Buckets
    /\ buckets \in [Buckets -> Histogram]
    /\ degraded \in BOOLEAN
    /\ dwell \in 0..(DwellTicks - 1)
    /\ chosen \in [Workers -> Buckets \union {None}]
    /\ tick \in {"sleeping", "merging", "stopped"}
    /\ next \in 0..RingLen
    /\ merged \in Histogram
    /\ cancel \in BOOLEAN
    /\ samples \in Nat
    /\ age \in [Buckets -> Nat]
    /\ recent \in Seq(Levels)
    /\ Len(recent) < DwellTicks

\* The dwell counter is exactly the run of latest evaluations that all speak for
\* a change of mode: one that does not starts the count again.
DwellIsRun ==
    /\ dwell <= Len(recent)
    /\ \A i \in 1..Len(recent) :
          i > Len(recent) - dwell => SpeaksForChange(recent[i])
    /\ dwell < Len(recent) => ~SpeaksForChange(recent[Len(recent) - dwell])

\* Module documentation: Degraded Mode is entered and left on DWELL_TICKS
\* consecutive qualifying ticks, and on nothing less.
Controller == INSTANCE Hysteresis WITH Dwell <- DwellTicks
ImplementsHysteresis == Controller!Spec

\* The window slides: no evaluation counts a sample recorded RING_LEN or more
\* ticks ago, even one recorded under an index read before the latest ticks.
NoStaleSamples ==
    \A b \in Buckets : Total(buckets[b]) > 0 =>
        age[b] <= (idx + RingLen - b) % RingLen

\* Degraded Mode is left once the jitter has settled (an empty window counts as
\* settled), unless the pipeline is cancelled.
Recovers == degraded ~> (~degraded \/ cancel)
=============================================================================
