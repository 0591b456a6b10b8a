------------------------- MODULE ThreadedIngestProofs -------------------------
(***************************************************************************)
(* Proofs about ThreadedIngest: run_sse keeps the promise of EventSource,  *)
(* and frames whole events, for every limit.                               *)
(***************************************************************************)
EXTENDS ThreadedIngest, SequenceTheorems, TLAPS

-----------------------------------------------------------------------------
(* Types *)

Returning == ReturnCancelled \/ CheckLimit \/ ReturnEnded

\* The steps of the watchdog's thread and of its clock.
Watch == Checker \/ Tick

\* The doubled back-off stays within the cap.
LEMMA DoubledInRange == ASSUME backoff \in 1..MaxBackoff PROVE Doubled \in 1..MaxBackoff
<1>1. \A a, b \in Int : Min({a, b}) = IF a <= b THEN a ELSE b
  BY DEF Min
<1> QED
  BY <1>1, ThreadedIngestAssumption DEF Doubled

\* Every behaviour starts with the types.
LEMMA InitTypes == IngestInit => TypeOK
<1> SUFFICES ASSUME IngestInit PROVE TypeOK
  OBVIOUS
<1> USE DEF IngestInit
<1>1. W!TypeOK
  BY ThreadedIngestAssumption DEF W!Init, W!TypeOK, W!Positions
<1>2. buf \in Seq(Nat)
  BY EmptySeq
<1>3. backoff \in 1..MaxBackoff
  BY ThreadedIngestAssumption
<1>4. delivered \in Nat /\ connection \in Nat /\ blockStart \in 0..connection
  BY DEF Init
<1>5. cancel \in BOOLEAN /\ late \in BOOLEAN
  BY DEF Init
<1>6. outcome \in {"none", "limit", "cancelled"} /\ pc \in Positions /\ line \in Lines
  BY DEF Init, Positions, Lines
<1>7. pc = "returned" <=> outcome # "none"
  BY DEF Init
<1> QED
  BY <1>1, <1>2, <1>3, <1>4, <1>5, <1>6, <1>7 DEF TypeOK

\* No step loses them.
LEMMA StepTypes == TypeOK /\ [IngestNext]_ingestVars => TypeOK'
<1> SUFFICES ASSUME TypeOK, [IngestNext]_ingestVars PROVE TypeOK'
  OBVIOUS
<1> USE DEF TypeOK, Positions
<1>1. CASE Returning
  BY <1>1 DEF Returning, ReturnCancelled, CheckLimit, ReturnEnded, wireVars, watchVars,
     W!TypeOK
<1>2. CASE TopNotCancelled \/ BackOff \/ Refused \/ EndOfStream
  BY <1>2 DEF TopNotCancelled, BackOff, Refused, EndOfStream, sourceVars,
     wireVars, watchVars, W!TypeOK
<1>3. CASE WakeUp
  BY <1>3, DoubledInRange DEF WakeUp, sourceVars, wireVars, watchVars, W!TypeOK
<1>4. CASE Connected
  BY <1>4, EmptySeq DEF Connected, FreshBuffer, sourceVars, watchVars, W!TypeOK
<1>5. ASSUME NEW l \in Lines, Read(l) PROVE TypeOK'
  BY <1>5 DEF Read, sourceVars, watchVars, W!TypeOK
<1>6. CASE LineCancelled \/ LineOverLimit \/ LineFailed \/ EndOfBlock
  BY <1>6 DEF LineCancelled, LineOverLimit, LineFailed, EndOfBlock, sourceVars,
     wireVars, watchVars, W!TypeOK
<1>7. CASE LineData
  BY <1>7 DEF LineData, sourceVars, wireVars, watchVars, W!TypeOK
<1>8. CASE LineIgnored
  BY <1>8 DEF LineIgnored, sourceVars, watchVars, W!TypeOK
<1>9. CASE Touch
  BY <1>9 DEF Touch, W!ReadStamp, sourceVars, wireVars, W!TypeOK
<1>10. CASE Sink
  BY <1>10, EmptySeq DEF Sink, W!StoreStamp, watchVars, W!TypeOK
<1>11. CASE ExternalCancel
  BY <1>11 DEF ExternalCancel, Cancel, runVars, wireVars, watchVars, W!TypeOK
<1>12. CASE Checker
  BY <1>12 DEF Checker, W!CheckerStep, W!WakeUp, W!SeeFlag, W!ReadClock, W!Compare,
     sourceVars, runVars, wireVars, W!TypeOK, W!Positions
<1>13. CASE Tick
  BY <1>13, ThreadedIngestAssumption DEF Tick, W!Tick, sourceVars, runVars, wireVars, W!TypeOK
<1>14. CASE UNCHANGED ingestVars
  BY <1>14 DEF ingestVars, sourceVars, runVars, wireVars, watchVars, W!TypeOK
<1> QED
  BY <1>1, <1>2, <1>3, <1>4, <1>5, <1>6, <1>7, <1>8, <1>9, <1>10, <1>11, <1>12, <1>13,
     <1>14 DEF IngestNext, RunStep, Returning

\* Every variable keeps its type, the watchdog's included, for every limit, cap and
\* stale window.
THEOREM ThreadedTypeCorrect == IngestSpec => []TypeOK
  BY InitTypes, StepTypes, PTL DEF IngestSpec

-----------------------------------------------------------------------------
(* The promise of EventSource *)

\* What the position of run_sse says of the promise: a payload about to be handed over
\* was framed before the cancel was seen and below the limit.
Between ==
    /\ pc \in Positions
    /\ delivered \in Nat
    /\ cancel \in BOOLEAN /\ late \in BOOLEAN
    /\ late => cancel
    /\ pc = "returned" <=> outcome # "none"
    /\ pc \in {"sink", "touch"} => ~late /\ ~Enough(delivered)

\* The actions of run_sse that concern neither the payloads nor the outcome.
Quiet ==
    \/ TopNotCancelled \/ BackOff \/ WakeUp \/ Connected \/ Refused
    \/ \E l \in Lines : Read(l)
    \/ EndOfStream \/ LineCancelled \/ LineOverLimit \/ LineFailed \/ LineData
    \/ LineIgnored \/ EndOfBlock

\* A quiet step stutters in EventSource, and hands over nothing late.
LEMMA QuietStep ==
    ASSUME Quiet
    PROVE  /\ UNCHANGED sourceVars
           /\ pc # "returned" /\ pc' \in Positions \ {"returned", "touch"}
           /\ pc' = "sink" => ~cancel /\ ~Enough(delivered)
<1> USE DEF Positions
<1>1. CASE TopNotCancelled \/ BackOff \/ WakeUp \/ Connected \/ Refused
  BY <1>1 DEF TopNotCancelled, BackOff, WakeUp, Connected, Refused
<1>2. CASE \E l \in Lines : Read(l)
  BY <1>2 DEF Read
<1>3. CASE EndOfStream \/ LineCancelled \/ LineOverLimit \/ LineFailed \/ LineData
  BY <1>3 DEF EndOfStream, LineCancelled, LineOverLimit, LineFailed, LineData
<1>4. CASE LineIgnored \/ EndOfBlock
  BY <1>4 DEF LineIgnored, EndOfBlock, LineAllowed
<1> QED
  BY <1>1, <1>2, <1>3, <1>4 DEF Quiet

\* Every behaviour starts between two payloads.
LEMMA InitBetween == IngestInit => Between
<1> SUFFICES ASSUME IngestInit PROVE Between
  OBVIOUS
<1> QED
  BY DEF IngestInit, Init, Between, Positions

\* No step of the thread, of the network or of anybody else leaves Between.
LEMMA StepBetween == Between /\ [IngestNext]_ingestVars => Between'
<1> SUFFICES ASSUME Between, [IngestNext]_ingestVars PROVE Between'
  OBVIOUS
<1> USE DEF Between, Positions
<1>1. CASE Returning
  BY <1>1 DEF Returning, ReturnCancelled, CheckLimit, ReturnEnded
<1>2. CASE Sink
  BY <1>2 DEF Sink, Enough
<1>3. CASE ExternalCancel
  BY <1>3 DEF ExternalCancel, Cancel, runVars, Enough
<1>4. CASE Quiet
  <2>1. /\ UNCHANGED sourceVars
        /\ pc # "returned" /\ pc' \in Positions \ {"returned", "touch"}
        /\ pc' = "sink" => ~cancel /\ ~Enough(delivered)
    BY <1>4, QuietStep
  <2>2. Enough(delivered)' <=> Enough(delivered)
    BY <2>1 DEF sourceVars, Enough
  <2> QED BY <2>1, <2>2 DEF sourceVars
<1>5. CASE Touch
  BY <1>5 DEF Touch, sourceVars, Enough
<1>6. CASE Watch \/ UNCHANGED ingestVars
  BY <1>6 DEF Watch, Checker, Tick, ingestVars, sourceVars, runVars, Enough
<1> QED
  BY <1>1, <1>2, <1>3, <1>4, <1>5, <1>6 DEF IngestNext, RunStep, Returning, Quiet, Watch

\* The promise is kept by each step.
LEMMA StepKeepsPromise == Between /\ [IngestNext]_ingestVars => [Next]_sourceVars
<1> SUFFICES ASSUME Between, [IngestNext]_ingestVars PROVE [Next]_sourceVars
  OBVIOUS
<1>1. CASE Returning
  BY <1>1 DEF Returning, ReturnCancelled, CheckLimit, ReturnEnded, Next, Return, Between, sourceVars
<1>2. CASE Sink
  BY <1>2 DEF Sink, Next, Deliver, Between
<1>3. CASE ExternalCancel
  BY <1>3 DEF ExternalCancel, Next
<1>4. CASE Quiet
  BY <1>4, QuietStep
<1>5. CASE Touch \/ Watch \/ UNCHANGED ingestVars
  BY <1>5 DEF Touch, Watch, Checker, Tick, ingestVars
<1> QED
  BY <1>1, <1>2, <1>3, <1>4, <1>5 DEF IngestNext, RunStep, Returning, Quiet, Watch

\* run_sse keeps the promise of EventSource, for every limit, 0 included: never more
\* payloads than the limit, at most one after the cancel, none after the return.
THEOREM ThreadedKeepsPromise == IngestSpec => ImplementsSource
<1>1. IngestInit => Between
  BY InitBetween
<1>2. Between /\ [IngestNext]_ingestVars => Between'
  BY StepBetween
<1>3. IngestInit => Init
  BY DEF IngestInit
<1>4. Between /\ [IngestNext]_ingestVars => [Next]_sourceVars
  BY StepKeepsPromise
<1> QED
  BY <1>1, <1>2, <1>3, <1>4, PTL DEF IngestSpec, ImplementsSource, Spec

-----------------------------------------------------------------------------
(* Framing *)

\* The data lines from one place in the connection to another.
Slice(from, to) == [i \in 1..(to - from) |-> from + i]

\* The data lines of the block that data_buf already holds.
Framed == IF pc = "line" /\ line = "data" THEN connection - 1 ELSE connection

Framing ==
    /\ connection \in Nat
    /\ blockStart \in Nat
    /\ pc \in {"read", "line", "sink", "touch"} =>
          /\ Framed \in Nat
          /\ blockStart <= Framed
          /\ buf = Slice(blockStart, Framed)

\* A line longer.
LEMMA SliceAppend ==
    ASSUME NEW a \in Nat, NEW b \in Nat, a <= b
    PROVE  Append(Slice(a, b), b + 1) = Slice(a, b + 1)
<1> DEFINE s == Slice(a, b)
<1>1. s \in Seq(Nat) /\ Len(s) = b - a
  BY DEF Slice
<1>2. Append(s, b + 1) = [i \in 1..(Len(s) + 1) |-> IF i = Len(s) + 1 THEN b + 1 ELSE s[i]]
  BY <1>1
<1>3. (b + 1) - a = Len(s) + 1
  BY <1>1
<1>4. \A i \in 1..(Len(s) + 1) : (IF i = Len(s) + 1 THEN b + 1 ELSE s[i]) = a + i
  BY <1>1 DEF Slice
<1> QED
  BY <1>2, <1>3, <1>4 DEF Slice

\* Nothing yet.
LEMMA SliceEmpty == ASSUME NEW a \in Nat PROVE Slice(a, a) = <<>>
  BY DEF Slice

\* Every behaviour starts outside of a connection.
LEMMA InitFraming == IngestInit => Framing
  BY DEF IngestInit, Framing

\* No step disturbs the block being framed.
LEMMA StepFraming == Framing /\ [IngestNext]_ingestVars => Framing'
<1> SUFFICES ASSUME Framing, [IngestNext]_ingestVars PROVE Framing'
  OBVIOUS
<1> USE DEF Framing, Framed
<1>1. CASE Connected
  BY <1>1, SliceEmpty DEF Connected, FreshBuffer
<1>2. ASSUME NEW l \in Lines, Read(l) PROVE Framing'
  BY <1>2 DEF Read
<1>3. CASE LineData
  <2>1. /\ connection - 1 \in Nat /\ blockStart <= connection - 1
        /\ buf = Slice(blockStart, connection - 1)
    BY <1>3 DEF LineData
  <2>2. Append(buf, connection) = Slice(blockStart, connection)
    <3> DEFINE c == connection - 1
    <3>1. c \in Nat /\ blockStart \in Nat /\ blockStart <= c /\ c + 1 = connection
      BY <2>1
    <3>2. Append(Slice(blockStart, c), c + 1) = Slice(blockStart, c + 1)
      BY <3>1, SliceAppend
    <3> QED BY <2>1, <3>1, <3>2
  <2>3. UNCHANGED wireVars /\ pc' = "read" /\ buf' = Append(buf, connection)
    BY <1>3 DEF LineData
  <2> QED
    BY <2>1, <2>2, <2>3 DEF wireVars
<1>4. CASE LineIgnored
  BY <1>4, SliceEmpty DEF LineIgnored
<1>5. CASE EndOfBlock
  BY <1>5 DEF EndOfBlock, wireVars
<1>6. CASE Sink
  BY <1>6, SliceEmpty DEF Sink
<1>7. CASE ExternalCancel \/ Watch \/ UNCHANGED ingestVars
  BY <1>7 DEF ExternalCancel, Watch, Checker, Tick, ingestVars, runVars, wireVars
<1>8. CASE Returning \/ TopNotCancelled \/ BackOff \/ WakeUp \/ Refused
  BY <1>8 DEF Returning, ReturnCancelled, CheckLimit, ReturnEnded, TopNotCancelled,
     BackOff, WakeUp, Refused, wireVars
<1>9. CASE EndOfStream \/ LineCancelled \/ LineOverLimit \/ LineFailed
  BY <1>9 DEF EndOfStream, LineCancelled, LineOverLimit, LineFailed, wireVars
<1>10. CASE Touch
  BY <1>10 DEF Touch, wireVars
<1> QED
  BY <1>1, <1>2, <1>3, <1>4, <1>5, <1>6, <1>7, <1>8, <1>9, <1>10
  DEF IngestNext, RunStep, Returning, Watch

\* Whatever the lines and the reconnections, the payload handed to the sink is one
\* event block of one connection, whole and in order.
THEOREM ThreadedFramesWholeEvents == IngestSpec => []WholeEvents
<1>1. IngestInit => Framing
  BY InitFraming
<1>2. Framing /\ [IngestNext]_ingestVars => Framing'
  BY StepFraming
<1>3. TypeOK /\ Framing => WholeEvents
  BY DEF Framing, Framed, WholeEvents, Slice
<1>4. IngestSpec => []TypeOK
  BY ThreadedTypeCorrect
<1> QED
  BY <1>1, <1>2, <1>3, <1>4, PTL DEF IngestSpec

-----------------------------------------------------------------------------
(* The watchdog *)

\* However touches and ticks fall between the two reads of the checker, the watchdog
\* warns only of a silence longer than its window.
THEOREM ThreadedWatchdogIsTruthful == IngestSpec => []NoFalseAlarm
<1>1. IngestSpec => []TypeOK
  BY ThreadedTypeCorrect
<1>2. TypeOK => NoFalseAlarm
  <2> SUFFICES ASSUME TypeOK, checker = "compare", W!Stale
               PROVE  clock - last_ns > StaleTicks
    BY DEF NoFalseAlarm, W!NoFalseAlarm
  <2> USE ThreadedIngestAssumption DEF TypeOK, W!TypeOK
  <2>1. CASE now > last_ns
    BY <2>1 DEF W!Stale, W!Elapsed
  <2>2. CASE ~(now > last_ns)
    BY <2>2 DEF W!Stale, W!Elapsed
  <2> QED BY <2>1, <2>2
<1> QED
  BY <1>1, <1>2, PTL
=============================================================================
