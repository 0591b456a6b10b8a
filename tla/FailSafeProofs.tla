--------------------------- MODULE FailSafeProofs ---------------------------
(***************************************************************************)
(* Proofs about FailSafe, for every dwell, ring length, number of workers  *)
(* and number of samples.                                                  *)
(***************************************************************************)
EXTENDS FailSafe, SequenceTheorems, TLAPS

\* The percentile of a histogram is one of the three levels.
LEMMA P99Type ==
  ASSUME NEW h \in Histogram
  PROVE  P99(h) \in Levels
<1> DEFINE S == {l \in Levels : 100 * Cumulative(h, l) >= 99 * Total(h)}
<1>1. h[Low] \in Nat /\ h[Mid] \in Nat /\ h[High] \in Nat
  BY DEF Histogram, Levels
<1>2. Total(h) \in Nat
  BY <1>1 DEF Total
<1>3. High \in S
  <2>1. Cumulative(h, High) = Total(h)
    BY DEF Cumulative, Low, Mid, High
  <2>2. 100 * Total(h) >= 99 * Total(h)
    BY <1>2
  <2> QED BY <2>1, <2>2 DEF Levels
<1>4. \E x \in S : \A y \in S : x =< y
  <2>1. S \subseteq {0, 1, 2} /\ 2 \in S
    BY <1>3 DEF Levels, Low, Mid, High
  <2> HIDE DEF S
  <2>2. CASE 0 \in S
    BY <2>1, <2>2
  <2>3. CASE 0 \notin S /\ 1 \in S
    BY <2>1, <2>3
  <2>4. CASE 0 \notin S /\ 1 \notin S
    BY <2>1, <2>4
  <2> QED BY <2>2, <2>3, <2>4
<1>5. Min(S) \in S
  BY <1>4 DEF Min
<1> QED BY <1>5 DEF P99, Levels

LEMMA TypeInit == Init => TypeOK
<1> SUFFICES ASSUME Init PROVE TypeOK
  OBVIOUS
<1>1. 0 \in Buckets /\ 0 \in 0..RingLen /\ 0 \in 0..(DwellTicks - 1)
  BY FailSafeAssumption DEF Buckets
<1>2. Empty \in Histogram
  BY DEF Empty, Histogram
<1>3. recent \in Seq(Levels) /\ Len(recent) < DwellTicks
  BY FailSafeAssumption, EmptySeq DEF Init
<1> QED BY <1>1, <1>2, <1>3 DEF Init, TypeOK

\* What Remember leaves in the history.
LEMMA RememberType ==
  ASSUME recent \in Seq(Levels), Len(recent) < DwellTicks, NEW p \in Levels, Remember(p)
  PROVE  /\ recent' \in Seq(Levels)
         /\ Len(recent') < DwellTicks
         /\ Len(recent) + 1 < DwellTicks =>
              /\ Len(recent') = Len(recent) + 1
              /\ \A i \in 1..Len(recent) : recent'[i] = recent[i]
              /\ recent'[Len(recent) + 1] = p
         /\ Len(recent) + 1 = DwellTicks =>
              /\ Len(recent') = Len(recent)
              /\ \A i \in 1..(Len(recent) - 1) : recent'[i] = recent[i + 1]
              /\ Len(recent) > 0 => recent'[Len(recent)] = p
<1> DEFINE r == Append(recent, p)
           n == Len(recent)
<1>1. n \in Nat /\ DwellTicks \in Nat \ {0} /\ n < DwellTicks
  BY FailSafeAssumption, LenProperties
<1>2. /\ r \in Seq(Levels) /\ Len(r) = n + 1 /\ r # <<>>
      /\ \A i \in 1..n : r[i] = recent[i]
      /\ r[n + 1] = p
  BY AppendProperties
<1>3. CASE n + 1 < DwellTicks
  <2>1. recent' = r
    BY <1>3 DEF Remember
  <2> HIDE DEF r
  <2> QED BY <1>1, <1>2, <1>3, <2>1
<1>4. CASE ~(n + 1 < DwellTicks)
  <2>1. recent' = Tail(r)
    BY <1>4 DEF Remember
  <2> HIDE DEF r
  <2>2. /\ recent' \in Seq(Levels) /\ Len(recent') = n
        /\ \A i \in 1..n : recent'[i] = r[i + 1]
    BY <1>1, <1>2, <2>1, HeadTailProperties
  <2>3. n > 0 => recent'[n] = p
    BY <1>1, <1>2, <2>2
  <2>4. \A i \in 1..(n - 1) : recent'[i] = recent[i + 1]
    BY <1>1, <1>2, <2>2
  <2> QED BY <1>1, <1>4, <2>2, <2>3, <2>4
<1> QED BY <1>3, <1>4

LEMMA TypeStep == TypeOK /\ [Next]_failVars => TypeOK'
<1> SUFFICES ASSUME TypeOK, [Next]_failVars PROVE TypeOK'
  OBVIOUS
<1> USE FailSafeAssumption DEF TypeOK
<1>1. ASSUME NEW w \in Workers, ReadIndex(w)
      PROVE  TypeOK'
  BY <1>1 DEF ReadIndex
<1>2. ASSUME NEW w \in Workers, NEW l \in Levels, Record(w, l)
      PROVE  TypeOK'
  <2>1. chosen[w] \in Buckets
    BY <1>2 DEF Record
  <2>2. buckets' \in [Buckets -> Histogram]
    BY <1>2, <2>1 DEF Record, Histogram
  <2>3. age' \in [Buckets -> Nat]
    BY <1>2, <2>1 DEF Record
  <2> QED BY <1>2, <2>2, <2>3 DEF Record
<1>3. CASE Advance
  <2>1. idx' \in Buckets
    BY <1>3 DEF Advance, Buckets
  <2>2. Empty \in Histogram
    BY DEF Empty, Histogram
  <2>3. buckets' \in [Buckets -> Histogram]
    BY <1>3, <2>1, <2>2 DEF Advance, Cleared
  <2> QED BY <1>3, <2>1, <2>2, <2>3 DEF Advance
<1>4. CASE MergeBucket
  <2>1. next \in Buckets /\ next' \in 0..RingLen
    BY <1>4 DEF MergeBucket, Buckets
  <2>2. merged' \in Histogram
    BY <1>4, <2>1 DEF MergeBucket, Add, Histogram
  <2> QED BY <1>4, <2>1, <2>2 DEF MergeBucket
<1>5. CASE Evaluate
  <2> DEFINE p == P99(merged)
  <2>1. p \in Levels
    BY P99Type
  <2>2. /\ tick' = "sleeping" /\ next' = 0 /\ merged' = Empty
        /\ UNCHANGED <<idx, buckets, chosen, cancel, samples, age>>
        /\ \/ Switch(p)
           \/ Count(p) /\ Remember(p)
           \/ Restart(p) /\ Remember(p)
    BY <1>5 DEF Evaluate
  <2> HIDE DEF p
  <2>3. merged' \in Histogram /\ next' \in 0..RingLen
    BY <2>2 DEF Empty, Histogram
  <2>4. CASE Switch(p)
    BY <2>2, <2>3, <2>4, EmptySeq DEF Switch
  <2>5. CASE Count(p) /\ Remember(p)
    <3>1. recent' \in Seq(Levels) /\ Len(recent') < DwellTicks
      BY <2>1, <2>5, RememberType
    <3>2. dwell' \in 0..(DwellTicks - 1)
      BY <2>5 DEF Count, Enough
    <3> QED BY <2>2, <2>3, <2>5, <3>1, <3>2 DEF Count
  <2>6. CASE Restart(p) /\ Remember(p)
    <3>1. recent' \in Seq(Levels) /\ Len(recent') < DwellTicks
      BY <2>1, <2>6, RememberType
    <3> QED BY <2>2, <2>3, <2>6, <3>1 DEF Restart, DwellReset
  <2> QED BY <2>2, <2>4, <2>5, <2>6
<1>6. CASE Cancel \/ StopTicker
  BY <1>6 DEF Cancel, StopTicker
<1>7. CASE UNCHANGED failVars
  BY <1>7 DEF failVars
<1> QED
  BY <1>1, <1>2, <1>3, <1>4, <1>5, <1>6, <1>7 DEF Next, Ticker, Recorder

\* In every reachable state of the controller the variables have their types; in
\* particular the dwell counter stays below DWELL_TICKS.
THEOREM FailSafeTypeCorrect == Spec => []TypeOK
<1>1. TypeOK /\ [Next]_failVars => TypeOK'
  BY TypeStep
<1> QED BY <1>1, TypeInit, PTL DEF Spec
-----------------------------------------------------------------------------
(* The dwell counter and the hysteresis. *)

\* An evaluation, with its level named.
LEMMA EvaluateLevel ==
  ASSUME TypeOK, Evaluate
  PROVE  \E p \in Levels : \/ Switch(p)
                           \/ Count(p) /\ Remember(p)
                           \/ Restart(p) /\ Remember(p)
<1>1. P99(merged) \in Levels
  BY P99Type DEF TypeOK
<1> QED BY <1>1 DEF Evaluate

\* Every step but an evaluation leaves the mode and its evidence alone.
LEMMA OnlyEvaluateMatters ==
  ASSUME [Next]_failVars, ~Evaluate
  PROVE  UNCHANGED <<degraded, dwell, recent>>
BY DEF Next, Ticker, Recorder, failVars, ReadIndex, Record, Advance, MergeBucket,
       Cancel, StopTicker

LEMMA DwellStep == TypeOK /\ DwellIsRun /\ [Next]_failVars => DwellIsRun'
<1> SUFFICES ASSUME TypeOK, DwellIsRun, [Next]_failVars PROVE DwellIsRun'
  OBVIOUS
<1> DEFINE n == Len(recent)
<1>1. /\ DwellTicks \in Nat \ {0} /\ n \in Nat /\ n < DwellTicks
      /\ recent \in Seq(Levels) /\ dwell \in Nat /\ dwell <= n
      /\ \A i \in 1..n : i > n - dwell => SpeaksForChange(recent[i])
      /\ dwell < n => ~SpeaksForChange(recent[n - dwell])
  BY FailSafeAssumption, LenProperties DEF TypeOK, DwellIsRun
<1>2. CASE ~Evaluate
  <2>1. UNCHANGED <<degraded, dwell, recent>>
    BY <1>2, OnlyEvaluateMatters
  <2> QED BY <2>1 DEF DwellIsRun, SpeaksForChange
<1>3. ASSUME NEW p \in Levels, Switch(p)
      PROVE  DwellIsRun'
  <2>1. recent' = <<>> /\ dwell' = 0 /\ Len(recent') = 0
    BY <1>3, EmptySeq DEF Switch
  <2> QED BY <2>1 DEF DwellIsRun
<1>4. ASSUME NEW p \in Levels, Remember(p)
      PROVE  /\ n + 1 < DwellTicks =>
                  /\ Len(recent') = n + 1
                  /\ \A i \in 1..n : recent'[i] = recent[i]
                  /\ recent'[n + 1] = p
             /\ ~(n + 1 < DwellTicks) =>
                  /\ Len(recent') = n
                  /\ \A i \in 1..(n - 1) : recent'[i] = recent[i + 1]
                  /\ n > 0 => recent'[n] = p
  <2>1. n + 1 < DwellTicks \/ n + 1 = DwellTicks
    BY <1>1
  <2> QED BY <1>1, <1>4, <2>1, RememberType
<1>5. ASSUME NEW p \in Levels, Count(p), Remember(p)
      PROVE  DwellIsRun'
  <2>1. /\ dwell' = dwell + 1 /\ dwell + 1 < DwellTicks /\ degraded' = degraded
        /\ SpeaksForChange(p)
    BY <1>1, <1>5 DEF Count, Enough
  <2> SUFFICES /\ dwell + 1 <= Len(recent')
               /\ \A i \in 1..Len(recent') :
                    i > Len(recent') - (dwell + 1) => SpeaksForChange(recent'[i])
               /\ dwell + 1 < Len(recent') =>
                    ~SpeaksForChange(recent'[Len(recent') - (dwell + 1)])
    BY <2>1 DEF DwellIsRun, SpeaksForChange
  <2> HIDE DEF n
  <2>2. CASE n + 1 < DwellTicks
    <3>1. /\ Len(recent') = n + 1
          /\ \A i \in 1..n : recent'[i] = recent[i]
          /\ recent'[n + 1] = p
      BY <1>4, <1>5, <2>2
    <3>2. ASSUME NEW i \in 1..Len(recent'), i > Len(recent') - (dwell + 1)
          PROVE  SpeaksForChange(recent'[i])
      <4>1. CASE i = n + 1
        BY <2>1, <3>1, <4>1
      <4>2. CASE i # n + 1
        <5>1. i \in 1..n /\ i > n - dwell
          BY <1>1, <3>1, <3>2, <4>2
        <5> QED BY <1>1, <3>1, <5>1
      <4> QED BY <4>1, <4>2
    <3>3. ASSUME dwell + 1 < Len(recent')
          PROVE  ~SpeaksForChange(recent'[Len(recent') - (dwell + 1)])
      <4> DEFINE k == Len(recent') - (dwell + 1)
      <4>1. k \in 1..n /\ k = n - dwell /\ dwell < n
        BY <1>1, <3>1, <3>3
      <4> HIDE DEF k
      <4>2. recent'[k] = recent[n - dwell]
        BY <3>1, <4>1
      <4>3. ~SpeaksForChange(recent[n - dwell])
        BY <1>1, <4>1
      <4>4. ~SpeaksForChange(recent'[k])
        BY <4>2, <4>3
      <4> QED BY <4>4 DEF k
    <3>4. dwell + 1 <= Len(recent')
      BY <1>1, <3>1
    <3> QED BY <3>2, <3>3, <3>4
  <2>3. CASE ~(n + 1 < DwellTicks)
    <3>1. /\ Len(recent') = n
          /\ \A i \in 1..(n - 1) : recent'[i] = recent[i + 1]
          /\ n > 0 => recent'[n] = p
      BY <1>4, <1>5, <2>3
    <3>2. dwell < n
      BY <1>1, <2>1, <2>3
    <3>3. ASSUME NEW i \in 1..n, i > n - (dwell + 1)
          PROVE  SpeaksForChange(recent'[i])
      <4>1. CASE i = n
        BY <1>1, <2>1, <3>1, <3>2, <4>1
      <4>2. CASE i # n
        <5>1. i \in 1..(n - 1) /\ i + 1 \in 1..n /\ i + 1 > n - dwell
          BY <1>1, <3>3, <4>2
        <5> QED BY <1>1, <3>1, <5>1
      <4> QED BY <4>1, <4>2
    <3>4. ASSUME dwell + 1 < n
          PROVE  ~SpeaksForChange(recent'[n - (dwell + 1)])
      <4> DEFINE k == n - (dwell + 1)
      <4>1. k \in 1..(n - 1) /\ k + 1 = n - dwell
        BY <1>1, <3>4
      <4> HIDE DEF k
      <4>2. recent'[k] = recent[n - dwell]
        BY <3>1, <4>1
      <4> QED BY <1>1, <3>2, <4>2 DEF k
    <3>5. dwell + 1 <= n
      BY <1>1, <3>2
    <3> QED BY <3>1, <3>3, <3>4, <3>5
  <2> QED BY <2>2, <2>3
<1>6. ASSUME NEW p \in Levels, Restart(p), Remember(p)
      PROVE  DwellIsRun'
  <2>1. dwell' = 0 /\ ~SpeaksForChange(p) /\ degraded' = degraded
    BY <1>6 DEF Restart, DwellReset
  <2> HIDE DEF n
  <2>2. Len(recent') \in Nat /\ (Len(recent') > 0 => recent'[Len(recent')] = p)
    BY <1>1, <1>4, <1>6
  <2>3. 0 < Len(recent') => ~SpeaksForChange(recent'[Len(recent') - 0])
    BY <2>1, <2>2
  <2> QED BY <2>1, <2>2, <2>3 DEF DwellIsRun, SpeaksForChange
<1> QED BY <1>2, <1>3, <1>5, <1>6, EvaluateLevel

\* The dwell counter always equals the number of latest evaluations in a row that
\* speak for a change of mode, whatever samples and ticks are interleaved.
THEOREM DwellCountsTheRun == Spec => []DwellIsRun
<1>1. Init => DwellIsRun
  BY EmptySeq DEF Init, DwellIsRun
<1>2. TypeOK /\ DwellIsRun /\ [Next]_failVars => DwellIsRun'
  BY DwellStep
<1> QED BY <1>1, <1>2, FailSafeTypeCorrect, PTL DEF Spec

LEMMA ControllerStep ==
  TypeOK /\ DwellIsRun /\ [Next]_failVars => [Controller!Next]_<<degraded, recent>>
<1> SUFFICES ASSUME TypeOK, DwellIsRun, [Next]_failVars
             PROVE  [Controller!Next]_<<degraded, recent>>
  OBVIOUS
<1> DEFINE n == Len(recent)
<1>1. /\ DwellTicks \in Nat \ {0} /\ n \in Nat /\ n < DwellTicks
      /\ recent \in Seq(Levels) /\ dwell \in Nat /\ dwell <= n
      /\ \A i \in 1..n : i > n - dwell => SpeaksForChange(recent[i])
      /\ dwell < n => ~SpeaksForChange(recent[n - dwell])
  BY FailSafeAssumption, LenProperties DEF TypeOK, DwellIsRun
<1>2. CASE ~Evaluate
  BY <1>2, OnlyEvaluateMatters
<1>3. ASSUME NEW p \in Levels
      PROVE  /\ Len(Append(recent, p)) = n + 1
             /\ \A i \in 1..n : Append(recent, p)[i] = recent[i]
             /\ Append(recent, p)[n + 1] = p
  BY <1>1, AppendProperties
<1>4. \A l : Controller!SpeaksForChange(l) <=> SpeaksForChange(l)
  BY DEF Controller!SpeaksForChange, SpeaksForChange, Controller!Low, Low,
         Controller!High, High
<1>5. ASSUME NEW p \in Levels, Switch(p)
      PROVE  Controller!Change(p)
  <2> DEFINE r == Append(recent, p)
  <2>1. SpeaksForChange(p) /\ n + 1 = DwellTicks /\ dwell = n
    BY <1>1, <1>5 DEF Switch, Enough
  <2>2. \A i \in 1..n : SpeaksForChange(recent[i])
    BY <1>1, <2>1
  <2>3. Len(r) = DwellTicks /\ \A i \in 1..DwellTicks : SpeaksForChange(r[i])
    <3> HIDE DEF r, n
    <3>1. Len(r) = n + 1 /\ (\A i \in 1..n : r[i] = recent[i]) /\ r[n + 1] = p
      BY <1>3 DEF r, n
    <3> QED BY <1>1, <2>1, <2>2, <3>1
  <2> QED BY <1>4, <1>5, <2>3 DEF Switch, Controller!Change
<1>6. ASSUME NEW p \in Levels, Count(p) \/ Restart(p), Remember(p)
      PROVE  Controller!Keep(p)
  <2> DEFINE r == Append(recent, p)
  <2>1. Len(r) = n + 1 /\ (\A i \in 1..n : r[i] = recent[i]) /\ r[n + 1] = p
    BY <1>3
  <2>2. degraded' = degraded /\ recent' = IF Len(r) < DwellTicks THEN r ELSE Tail(r)
    BY <1>6, <2>1 DEF Count, Restart, Remember
  <2>3. Len(r) < DwellTicks \/ \E i \in 1..Len(r) : ~SpeaksForChange(r[i])
    <3> HIDE DEF r
    <3>1. CASE Restart(p)
      <4>1. n + 1 \in 1..Len(r) /\ ~SpeaksForChange(r[n + 1])
        BY <1>1, <2>1, <3>1 DEF Restart
      <4> QED BY <4>1
    <3>2. CASE Count(p) /\ ~(Len(r) < DwellTicks)
      <4>1. dwell + 1 < DwellTicks /\ ~(n + 1 < DwellTicks)
        BY <1>1, <2>1, <3>2 DEF Count, Enough
      <4> HIDE DEF n
      <4>2. dwell < n /\ n - dwell \in 1..n
        BY <1>1, <4>1
      <4>3. ~SpeaksForChange(r[n - dwell]) /\ n - dwell \in 1..Len(r)
        BY <1>1, <2>1, <4>2
      <4> QED BY <4>3
    <3> QED BY <1>6, <3>1, <3>2
  <2> QED BY <1>4, <2>2, <2>3 DEF Controller!Keep
<1>7. Levels = Controller!Levels
  BY DEF Levels, Controller!Levels, Low, Mid, High, Controller!Low, Controller!Mid,
         Controller!High
<1> QED BY <1>2, <1>5, <1>6, <1>7, EvaluateLevel DEF Controller!Next

\* The ticker implements the hysteresis: the mode changes exactly on DWELL_TICKS
\* qualifying evaluations in a row since the last change, and on nothing less.
THEOREM FailSafeIsHysteresis == Spec => ImplementsHysteresis
<1>1. Init => Controller!Init
  BY DEF Init, Controller!Init
<1>2. TypeOK /\ DwellIsRun /\ [Next]_failVars => [Controller!Next]_<<degraded, recent>>
  BY ControllerStep
<1> QED
  BY <1>1, <1>2, FailSafeTypeCorrect, DwellCountsTheRun, PTL
     DEF Spec, Controller!Spec, ImplementsHysteresis
-----------------------------------------------------------------------------
(* The sliding window *)

\* How many advances ago bucket b was the current one, going round the ring.
Behind(i, b) == IF b <= i THEN i - b ELSE i + RingLen - b

LEMMA RingDistance ==
  ASSUME NEW i \in Buckets, NEW b \in Buckets
  PROVE  /\ (i + RingLen - b) % RingLen = Behind(i, b)
         /\ (i + 1) % RingLen = IF i + 1 = RingLen THEN 0 ELSE i + 1
<1>1. \A x \in Buckets : x % RingLen = x /\ (x + RingLen) % RingLen = x
  BY FailSafeAssumption DEF Buckets
<1>2. (i + 1) % RingLen = IF i + 1 = RingLen THEN 0 ELSE i + 1
  BY FailSafeAssumption DEF Buckets
<1>3. CASE b <= i
  <2>1. i - b \in Buckets /\ i + RingLen - b = (i - b) + RingLen
    BY <1>3, FailSafeAssumption DEF Buckets
  <2> QED BY <1>1, <1>2, <1>3, <2>1 DEF Behind
<1>4. CASE ~(b <= i)
  <2>1. i + RingLen - b \in Buckets
    BY <1>4, FailSafeAssumption DEF Buckets
  <2> QED BY <1>1, <1>2, <1>4, <2>1 DEF Behind
<1> QED BY <1>3, <1>4

\* The window, without the modulus.
LEMMA StaleByDistance ==
  TypeOK => (NoStaleSamples <=>
               \A b \in Buckets : Total(buckets[b]) > 0 => age[b] <= Behind(idx, b))
BY RingDistance DEF TypeOK, NoStaleSamples

\* A late sample may enter an old bucket, and makes it no older; an advance ages every
\* bucket by one, and empties the one that would become too old.
LEMMA WindowStep == TypeOK /\ NoStaleSamples /\ [Next]_failVars => NoStaleSamples'
<1> SUFFICES ASSUME TypeOK, NoStaleSamples, [Next]_failVars PROVE NoStaleSamples'
  OBVIOUS
<1>1. TypeOK'
  BY TypeStep
<1>2. \A b \in Buckets : Total(buckets[b]) > 0 => age[b] <= Behind(idx, b)
  BY StaleByDistance
<1> SUFFICES ASSUME NEW b \in Buckets, Total(buckets'[b]) > 0
             PROVE  age'[b] <= Behind(idx', b)
  BY <1>1, RingDistance DEF TypeOK, NoStaleSamples
<1>3. idx \in Buckets /\ RingLen \in Nat \ {0} /\ age \in [Buckets -> Nat]
  BY FailSafeAssumption DEF TypeOK
<1>4. ASSUME UNCHANGED <<idx, buckets, age>> PROVE age'[b] <= Behind(idx', b)
  BY <1>2, <1>4
<1>5. ASSUME NEW w \in Workers, NEW l \in Levels, Record(w, l)
      PROVE  age'[b] <= Behind(idx', b)
  <2>1. chosen[w] \in Buckets /\ idx' = idx
    BY <1>5 DEF Record, TypeOK
  <2>2. Behind(idx, b) >= 0
    BY <1>3 DEF Behind, Buckets
  <2>3. CASE chosen[w] # b \/ Total(buckets[b]) # 0
    <3>1. age'[b] = age[b]
      BY <1>3, <1>5, <2>1, <2>3 DEF Record
    <3>2. Total(buckets[b]) > 0
      <4>1. CASE chosen[w] # b
        BY <1>5, <2>1, <4>1 DEF Record, TypeOK
      <4>2. CASE Total(buckets[b]) # 0
        BY <4>2 DEF TypeOK, Histogram, Levels, Total
      <4> QED BY <2>3, <4>1, <4>2
    <3> QED BY <1>2, <2>1, <3>1, <3>2
  <2>4. CASE chosen[w] = b /\ Total(buckets[b]) = 0
    BY <1>3, <1>5, <2>1, <2>2, <2>4 DEF Record
  <2> QED BY <2>3, <2>4
<1>6. CASE Advance
  <2>1. idx' = IF idx + 1 = RingLen THEN 0 ELSE idx + 1
    BY <1>3, <1>6, RingDistance DEF Advance
  <2>2. buckets' = [buckets EXCEPT ![idx'] = Empty]
    BY <1>6 DEF Advance, Cleared
  <2>3. b # idx'
    <3>1. Total(Empty) = 0
      BY DEF Total, Empty, Levels
    <3> QED BY <2>2, <3>1 DEF TypeOK
  <2>4. Total(buckets[b]) > 0
    BY <2>2, <2>3 DEF TypeOK
  <2>5. age'[b] = age[b] + 1
    BY <1>6 DEF Advance
  <2>6. Behind(idx', b) = Behind(idx, b) + 1
    BY <1>3, <2>1, <2>3 DEF Behind, Buckets
  <2>7. Behind(idx, b) \in Nat
    BY <1>3 DEF Behind, Buckets
  <2> QED BY <1>2, <1>3, <2>4, <2>5, <2>6, <2>7
<1>7. CASE MergeBucket \/ Evaluate \/ StopTicker \/ Cancel \/ UNCHANGED failVars
  BY <1>4, <1>7 DEF MergeBucket, Evaluate, StopTicker, Cancel, failVars
<1>8. ASSUME NEW w \in Workers, ReadIndex(w) PROVE age'[b] <= Behind(idx', b)
  BY <1>4, <1>8 DEF ReadIndex
<1> QED
  BY <1>5, <1>6, <1>7, <1>8 DEF Next, Ticker, Recorder

\* No evaluation counts a sample older than the window, for every length of the ring and
\* however long a worker holds an index.
THEOREM WindowSlides == Spec => []NoStaleSamples
<1>1. Init => NoStaleSamples
  BY DEF Init, NoStaleSamples, Total, Empty, Levels
<1>2. TypeOK /\ NoStaleSamples /\ [Next]_failVars => NoStaleSamples'
  BY WindowStep
<1> QED BY <1>1, <1>2, FailSafeTypeCorrect, PTL DEF Spec
=============================================================================
