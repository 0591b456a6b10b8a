-------------------------- MODULE AsyncIngestProofs --------------------------
(***************************************************************************)
(* Proofs about AsyncIngest: run_sse keeps the promise of EventSource for  *)
(* every limit, one of 0 being taken for 1, and its back-off counts the    *)
(* failures, for every cap.                                                *)
(***************************************************************************)
EXTENDS AsyncIngest, FunctionTheorems, FiniteSetTheorems, TLAPS

\* What the position of run_sse says of the promise: before the return the limit is
\* not reached, and a payload in hand was received before the cancel was seen.
Between ==
    /\ limit \in Nat \union {NoLimit}
    /\ pc \in Positions
    /\ delivered \in Nat
    /\ cancel \in BOOLEAN /\ late \in BOOLEAN
    /\ late => cancel
    /\ pc # "returned" => outcome = "none" /\ ~Source!Enough(delivered)
    /\ pc = "returned" => outcome \in {"limit", "cancelled", "failed"}
    /\ pc = "build" => delivered = 0
    /\ pc = "sink" => ~late
    /\ outcome = "limit" => delivered = Asked

\* The actions of run_sse that concern neither the payloads nor the outcome.
Quiet ==
    \/ BuildClient \/ Connect \/ Connected \/ Refused \/ StreamEnded \/ WakeUp \/ Retry
    \/ ReceivePayload \/ ReadFails

\* Mapped to nothing: a quiet step stutters in EventSource.
LEMMA QuietStutters == Quiet => UNCHANGED sourceVars
  BY DEF Quiet, BuildClient, Connect, Connected, Refused, StreamEnded, Fail, WakeUp, Retry,
         ReceivePayload, ReadFails

\* Every behaviour starts between two payloads.
LEMMA InitBetween == IngestInit => Between
<1> SUFFICES ASSUME IngestInit PROVE Between
  OBVIOUS
<1>1. limit \in Nat \union {NoLimit}
  BY IngestAssumption DEF IngestInit
<1>2. ~Source!Enough(0)
  BY <1>1 DEF Source!Enough, Asked, NoLimit, Source!NoLimit
<1> QED
  BY <1>1, <1>2 DEF IngestInit, Init, Between, Positions

\* What the code compares with the limit is enough for the promise, and nothing else is.
LEMMA LastIsEnough ==
  ASSUME limit \in Nat \union {NoLimit}, delivered \in Nat, ~Source!Enough(delivered)
  PROVE  /\ Last <=> Source!Enough(delivered + 1)
         /\ Last => delivered + 1 = Asked
  BY DEF Last, Enough, Source!Enough, Asked, NoLimit, Source!NoLimit

\* No step of the task, of the network or of anybody else leaves Between.
LEMMA StepBetween == Between /\ [IngestNext]_ingestVars => Between'
<1> SUFFICES ASSUME Between, [IngestNext]_ingestVars PROVE Between'
  OBVIOUS
<1> USE DEF Between, Source!Enough, Asked, Positions
<1>1. CASE ReturnCancelled
  BY <1>1 DEF ReturnCancelled
<1>2. CASE Sink
  <2>1. CASE Last
    BY <1>2, <2>1, LastIsEnough DEF Sink
  <2>2. CASE ~Last
    BY <1>2, <2>2, LastIsEnough DEF Sink
  <2> QED BY <2>1, <2>2
<1>3. CASE ExternalCancel
  BY <1>3 DEF ExternalCancel, Cancel, runVars
<1>4. CASE BuildFails
  BY <1>4 DEF BuildFails
<1>5. CASE Quiet
  <2>1. UNCHANGED sourceVars
    BY <1>5, QuietStutters
  <2>2. UNCHANGED pc \/ (pc # "returned" /\ pc' # "returned")
    BY <1>5 DEF Quiet, BuildClient, Connect, Connected, Refused, StreamEnded, Fail, WakeUp,
       AfterSleep, Retry, ReceivePayload, ReadFails, runVars
  <2>3. pc' \in Positions \ {"build"}
    BY <1>5 DEF Quiet, BuildClient, Connect, Connected, Refused, StreamEnded, Fail, WakeUp,
       AfterSleep, Retry, ReceivePayload, ReadFails, runVars
  <2>4. pc' = "sink" => ~late
    BY <1>5 DEF Quiet, BuildClient, Connect, Connected, Refused, StreamEnded, Fail, WakeUp,
       AfterSleep, Retry, ReceivePayload, ReadFails, runVars
  <2> QED BY <2>1, <2>2, <2>3, <2>4 DEF sourceVars
<1>6. CASE UNCHANGED ingestVars
  BY <1>6 DEF ingestVars, sourceVars, runVars
<1> QED
  BY <1>1, <1>2, <1>3, <1>4, <1>5, <1>6 DEF IngestNext, RunStep, Network, Quiet

\* The promise is kept by each step.
LEMMA StepKeepsPromise == Between /\ [IngestNext]_ingestVars => [Source!Next]_Source!sourceVars
<1> SUFFICES ASSUME Between, [IngestNext]_ingestVars PROVE [Source!Next]_Source!sourceVars
  OBVIOUS
<1> USE DEF Source!sourceVars, Asked
<1>1. CASE ReturnCancelled
  BY <1>1 DEF ReturnCancelled, Source!Next, Source!Return, Between, TokenPolled
<1>2. CASE Sink
  <2>1. CASE Last
    BY <1>2, <2>1 DEF Sink, Source!Next, Source!DeliverLast, Between
  <2>2. CASE ~Last
    BY <1>2, <2>2 DEF Sink, Source!Next, Source!Deliver, Between
  <2> QED BY <2>1, <2>2
<1>3. CASE ExternalCancel
  BY <1>3 DEF ExternalCancel, Cancel, Source!Next, Source!Cancel
<1>4. CASE BuildFails
  BY <1>4 DEF BuildFails, Source!Next, Source!ReturnError, Between
<1>5. CASE Quiet
  BY <1>5, QuietStutters DEF sourceVars
<1>6. CASE UNCHANGED ingestVars
  BY <1>6 DEF ingestVars, sourceVars
<1> QED
  BY <1>1, <1>2, <1>3, <1>4, <1>5, <1>6 DEF IngestNext, RunStep, Network, Quiet

\* run_sse keeps the promise of EventSource, for every limit: never more payloads than the
\* limit, or than one with a limit of 0, at most one after the cancel, none after the return.
THEOREM AsyncKeepsPromise == IngestSpec => ImplementsSource
<1>1. IngestInit => Between
  BY InitBetween
<1>2. Between /\ [IngestNext]_ingestVars => Between'
  BY StepBetween
<1>3. IngestInit => Source!Init
  BY IngestAssumption DEF IngestInit, Init, Source!Init, Asked, NoLimit, Source!NoLimit
<1>4. Between /\ [IngestNext]_ingestVars => [Source!Next]_Source!sourceVars
  BY StepKeepsPromise
<1> QED
  BY <1>1, <1>2, <1>3, <1>4, PTL DEF IngestSpec, ImplementsSource, Source!Spec

\* For every limit, run_sse says that it is reached only when so many payloads have been
\* forwarded, or one with a limit of 0.
THEOREM AsyncLimitIsHonest == IngestSpec => []LimitHonest
<1>1. IngestInit => Between
  BY InitBetween
<1>2. Between /\ [IngestNext]_ingestVars => Between'
  BY StepBetween
<1>3. Between => LimitHonest
  BY DEF Between, LimitHonest
<1> QED
  BY <1>1, <1>2, <1>3, PTL DEF IngestSpec

-----------------------------------------------------------------------------
(* The back-off *)

\* A set of n numbers has 2 ^ n subsets: what is known of powers of two is known from there.
LEMMA Powerset ==
  ASSUME NEW n \in Nat
  PROVE  IsFiniteSet(SUBSET (1..n)) /\ Cardinality(SUBSET (1..n)) = 2 ^ n
<1>1. IsFiniteSet(1..n) /\ Cardinality(1..n) = n
  BY FS_Interval
<1> QED BY <1>1, FS_SUBSET

\* One more number doubles the subsets: each comes without it and with it.
LEMMA PowerDoubles == ASSUME NEW n \in Nat PROVE 2 ^ n \in Nat /\ 2 ^ (n + 1) = 2 * 2 ^ n
<1> DEFINE A == SUBSET (1..n)
           B == {T \union {n + 1} : T \in A}
           f == [T \in A |-> T \union {n + 1}]
<1>1. f \in Bijection(A, B)
  <2>1. f \in [A -> B]
    OBVIOUS
  <2>2. ASSUME NEW T \in A, NEW U \in A, f[T] = f[U] PROVE T = U
    <3>1. n + 1 \notin T /\ n + 1 \notin U /\ T \union {n + 1} = U \union {n + 1}
      BY <2>2
    <3> QED BY <3>1
  <2>3. \A V \in B : \E T \in A : f[T] = V
    OBVIOUS
  <2> HIDE DEF A, B, f
  <2> QED BY <2>1, <2>2, <2>3 DEF Bijection, Injection, Surjection, IsInjective
<1>2. IsFiniteSet(A) /\ Cardinality(A) = 2 ^ n
  BY Powerset
<1>3. IsFiniteSet(B) /\ Cardinality(B) = 2 ^ n
  <2> HIDE DEF A, B, f
  <2>1. ExistsBijection(A, B)
    BY <1>1 DEF ExistsBijection
  <2> QED BY <1>2, <2>1, FS_Bijection
<1>4. SUBSET (1..(n + 1)) = A \union B
  <2>1. ASSUME NEW V \in SUBSET (1..(n + 1)) PROVE V \in A \union B
    <3>1. CASE n + 1 \in V
      <4>1. V \ {n + 1} \in A /\ V = (V \ {n + 1}) \union {n + 1}
        BY <3>1
      <4> QED BY <4>1
    <3>2. CASE n + 1 \notin V
      BY <3>2
    <3> QED BY <3>1, <3>2
  <2>2. ASSUME NEW V \in A \union B PROVE V \in SUBSET (1..(n + 1))
    OBVIOUS
  <2> HIDE DEF A, B
  <2> QED BY <2>1, <2>2
<1>5. A \intersect B = {}
  OBVIOUS
<1>6. Cardinality(A \union B) = Cardinality(A) + Cardinality(B) - Cardinality(A \intersect B)
  <2> HIDE DEF A, B
  <2> QED BY <1>2, <1>3, FS_Union, Zenon
<1>7. Cardinality(SUBSET (1..(n + 1))) = 2 ^ (n + 1)
  <2>1. PICK m \in Nat : m = n + 1
    OBVIOUS
  <2>2. Cardinality(SUBSET (1..m)) = 2 ^ m
    BY Powerset
  <2> QED BY <2>1, <2>2
<1>8. Cardinality(A) \in Nat
  <2> HIDE DEF A
  <2> QED BY <1>2, FS_CardinalityType
<1> HIDE DEF A, B
<1>9. PICK a \in Nat : a = Cardinality(A)
  BY <1>8
<1>10. Cardinality(A \union B) = a + a - 0
  <2>1. Cardinality(B) = a /\ Cardinality({}) = 0
    BY <1>2, <1>3, <1>9, FS_EmptySet, Zenon
  <2> QED BY <1>5, <1>6, <1>9, <2>1
<1>11. a = 2 ^ n /\ 2 ^ (n + 1) = a + a - 0
  BY <1>2, <1>4, <1>7, <1>9, <1>10, Zenon
<1>12. a + a - 0 = 2 * a
  OBVIOUS
<1> QED BY <1>11, <1>12, Zenon

\* The power for no failure at all.
LEMMA PowerOfNone == 2 ^ 0 = 1
<1>1. SUBSET (1..0) = {{}}
  OBVIOUS
<1>2. Cardinality({{}}) = 1
  BY FS_Singleton
<1> QED BY <1>1, <1>2, Powerset

\* The wait after n failures.
Capped(n) == IF 2 ^ n <= MaxBackoff THEN 2 ^ n ELSE MaxBackoff

LEMMA CappedIsMin == ASSUME NEW n \in Nat PROVE Min({2 ^ n, MaxBackoff}) = Capped(n)
<1>1. PICK p \in Nat : p = 2 ^ n
  BY PowerDoubles
<1>2. Min({p, MaxBackoff}) = IF p <= MaxBackoff THEN p ELSE MaxBackoff
  BY IngestAssumption DEF Min
<1> QED BY <1>1, <1>2 DEF Capped

\* A wait that is doubled, and cut to the cap again, is the next one.
LEMMA CappedDoubles ==
  ASSUME NEW n \in Nat
  PROVE  Min({Capped(n) * 2, MaxBackoff}) = Capped(n + 1)
<1>1. PICK p, q \in Nat : p = 2 ^ n /\ q = 2 ^ (n + 1) /\ q = 2 * p
  <2>1. 2 * 2 ^ n \in Nat
    BY PowerDoubles
  <2> QED BY <2>1, PowerDoubles
<1>2. PICK b \in Nat : b = Capped(n) /\ b = IF p <= MaxBackoff THEN p ELSE MaxBackoff
  BY <1>1, IngestAssumption DEF Capped
<1>3. Min({b * 2, MaxBackoff}) = IF b * 2 <= MaxBackoff THEN b * 2 ELSE MaxBackoff
  BY IngestAssumption DEF Min
<1>4. Min({b * 2, MaxBackoff}) = IF q <= MaxBackoff THEN q ELSE MaxBackoff
  BY <1>1, <1>2, <1>3, IngestAssumption
<1> QED BY <1>1, <1>2, <1>4 DEF Capped

\* The attempts that failed and whose wait is over.
Slept == IF pc = "sleep" THEN failures - 1 ELSE failures

\* A wait follows a failure.
BackoffInv ==
    /\ TypeOK
    /\ Slept \in Nat
    /\ backoff = Capped(Slept)

\* The first attempt is not waited for.
LEMMA InitBackoff == IngestInit => BackoffInv
<1> SUFFICES ASSUME IngestInit PROVE BackoffInv
  OBVIOUS
<1>1. Capped(0) = 1
  BY PowerOfNone, IngestAssumption DEF Capped
<1>2. TypeOK
  <2>1. 1 \in 1..MaxBackoff
    BY IngestAssumption
  <2> QED BY <2>1 DEF IngestInit, Init, TypeOK, Positions
<1> QED BY <1>1, <1>2 DEF IngestInit, BackoffInv, Slept

\* A step that leaves the back-off alone.
LEMMA BackoffStays ==
  ASSUME BackoffInv, TypeOK', UNCHANGED <<backoff, failures>>, pc # "sleep", pc' # "sleep"
  PROVE  BackoffInv'
  BY DEF BackoffInv, Slept

LEMMA StepBackoff == BackoffInv /\ [IngestNext]_ingestVars => BackoffInv'
<1> SUFFICES ASSUME BackoffInv, [IngestNext]_ingestVars PROVE BackoffInv'
  OBVIOUS
<1>0. TypeOK /\ MaxBackoff \in Nat \ {0}
  BY IngestAssumption DEF BackoffInv
<1> USE DEF TypeOK, Positions
<1>1. CASE BuildClient \/ Connect \/ Retry \/ ReceivePayload
  <2>1. /\ UNCHANGED <<sourceVars, backoff, failures, broken>>
        /\ pc \in Positions \ {"sleep", "returned"}
        /\ pc' \in Positions \ {"sleep", "returned"}
    BY <1>1 DEF BuildClient, Connect, Retry, ReceivePayload
  <2>2. TypeOK'
    BY <1>0, <2>1 DEF sourceVars
  <2> QED BY <2>1, <2>2, BackoffStays
<1>2. CASE BuildFails \/ ReturnCancelled
  <2>1. /\ UNCHANGED <<delivered, cancel, late, backoff, failures, broken>>
        /\ pc # "sleep" /\ pc' = "returned" /\ outcome' \in {"failed", "cancelled"}
    BY <1>2 DEF BuildFails, ReturnCancelled, TokenPolled
  <2>2. TypeOK'
    BY <1>0, <2>1
  <2> QED BY <2>1, <2>2, BackoffStays
<1>3. CASE Sink
  <2>1. /\ UNCHANGED <<cancel, backoff, failures, broken>> /\ pc = "sink"
        /\ delivered' = delivered + 1 /\ late' = cancel
        /\ \/ pc' = "returned" /\ outcome' = "limit"
           \/ pc' = "select" /\ UNCHANGED outcome
    BY <1>3 DEF Sink
  <2>2. TypeOK'
    BY <1>0, <2>1
  <2> QED BY <2>1, <2>2, BackoffStays
<1>4. CASE ReadFails
  <2>1. /\ UNCHANGED <<sourceVars, pc, backoff, failures>> /\ broken' = TRUE /\ pc = "select"
    BY <1>4 DEF ReadFails
  <2>2. TypeOK'
    BY <1>0, <2>1 DEF sourceVars
  <2> QED BY <2>1, <2>2, BackoffStays
<1>5. CASE Connected
  <2>1. /\ UNCHANGED sourceVars /\ pc = "connecting" /\ pc' = "select"
        /\ failures' = 0 /\ backoff' = 1 /\ broken' = FALSE
    BY <1>5 DEF Connected, Reset
  <2>2. TypeOK'
    <3>1. backoff' \in 1..MaxBackoff /\ failures' \in Nat
      BY <1>0, <2>1
    <3>2. UNCHANGED <<delivered, cancel, late, outcome>> /\ broken' \in BOOLEAN
      BY <2>1 DEF sourceVars
    <3> QED BY <1>0, <2>1, <3>1, <3>2
  <2>3. Capped(0) = 1
    BY <1>0, PowerOfNone DEF Capped
  <2> QED BY <2>1, <2>2, <2>3 DEF BackoffInv, Slept
<1>6. CASE Refused \/ StreamEnded
  <2>1. /\ UNCHANGED <<sourceVars, backoff, broken>> /\ pc \in {"connecting", "select"}
        /\ pc' = "sleep" /\ failures' = failures + 1
    BY <1>6 DEF Refused, StreamEnded, Fail
  <2>2. TypeOK'
    BY <1>0, <2>1 DEF sourceVars
  <2>3. Slept' = Slept
    BY <1>0, <2>1 DEF Slept
  <2> QED BY <2>1, <2>2, <2>3 DEF BackoffInv
<1>7. CASE WakeUp
  <2>1. /\ UNCHANGED <<sourceVars, failures, broken>> /\ pc = "sleep" /\ pc' = "slept"
        /\ backoff' = Min({backoff * 2, MaxBackoff})
    BY <1>7 DEF WakeUp, AfterSleep, Doubled
  <2>2. PICK n \in Nat : n = Slept /\ backoff = Capped(n) /\ failures = n + 1
    BY <1>0, <2>1 DEF BackoffInv, Slept
  <2>3. backoff' = Capped(n + 1)
    BY <2>1, <2>2, CappedDoubles
  <2>4. backoff' \in 1..MaxBackoff
    BY <1>0, <2>1 DEF Min
  <2>5. TypeOK'
    BY <1>0, <2>1, <2>4 DEF sourceVars
  <2>6. Slept' = n + 1
    BY <2>1, <2>2 DEF Slept
  <2> QED BY <2>3, <2>5, <2>6 DEF BackoffInv
<1>8. CASE ExternalCancel \/ UNCHANGED ingestVars
  <2>1. /\ UNCHANGED <<delivered, late, outcome, pc, backoff, failures, broken>>
        /\ cancel' \in {cancel, TRUE}
    BY <1>8 DEF ExternalCancel, Cancel, ingestVars, sourceVars, runVars
  <2>2. TypeOK'
    BY <1>0, <2>1
  <2>3. Slept' = Slept
    BY <2>1 DEF Slept
  <2> QED BY <2>1, <2>2, <2>3 DEF BackoffInv
<1> QED
  BY <1>1, <1>2, <1>3, <1>4, <1>5, <1>6, <1>7, <1>8 DEF IngestNext, RunStep, Network

\* For every cap and every limit, however often the connection fails and comes back: the
\* wait is 2 to the number of failures since the last success, or the cap.
THEOREM BackoffIsExponential == IngestSpec => []BackoffCountsFailures
<1>1. IngestInit => BackoffInv
  BY InitBackoff
<1>2. BackoffInv /\ [IngestNext]_ingestVars => BackoffInv'
  BY StepBackoff
<1>3. BackoffInv => BackoffCountsFailures
  BY CappedIsMin DEF BackoffInv, BackoffCountsFailures, Slept
<1> QED
  BY <1>1, <1>2, <1>3, PTL DEF IngestSpec
=============================================================================
