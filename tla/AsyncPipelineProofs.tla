------------------------- MODULE AsyncPipelineProofs -------------------------
(***************************************************************************)
(* Proofs about the async pipeline, for every pool of workers, all         *)
(* capacities and every number of events: it lets every event live as      *)
(* EventLife promises, uses its lanes as DropOldestRing allows, strands no *)
(* task, prints a complete snapshot and summary, and, if it has a single   *)
(* worker, lets Bots yield to Humans.                                      *)
(***************************************************************************)
EXTENDS AsyncPipeline, FiniteSetTheorems, TLAPS

(* The lanes *)

\* What a step of the pipeline does to a lane is a step of the ring.
LEMMA StepUsesRings == [Next]_asyncVars => [Hi!Next]_Hi!ringVars /\ [Lo!Next]_Lo!ringVars
<1> SUFFICES ASSUME [Next]_asyncVars
             PROVE  [Hi!Next]_Hi!ringVars /\ [Lo!Next]_Lo!ringVars
  OBVIOUS
<1> DEFINE HiIdle == UNCHANGED hiVars
           LoIdle == UNCHANGED loVars
<1>1. HiIdle => UNCHANGED Hi!ringVars
  BY DEF hiVars, Hi!ringVars
<1>2. LoIdle => UNCHANGED Lo!ringVars
  BY DEF loVars, Lo!ringVars
<1>3. ASSUME NEW w \in Workers, WorkerStep(w)
      PROVE  /\ Hi!Next \/ HiIdle
             /\ Lo!Next \/ LoIdle
  <2> USE DEF Hi!Next, Hi!Consumers, Hi!AsyncStep, Lo!Next, Lo!Consumers, Lo!AsyncStep
  <2>1. CASE PollCancelled(w) \/ Wake(w) \/ Leave(w)
    BY <2>1 DEF PollCancelled, Wake, Leave
  <2>2. CASE Process(w) \/ Finish(w)
    BY <2>2 DEF Process, Finish, lanes
  <2>3. CASE PollCancelPending(w)
    BY <2>3 DEF PollCancelPending, BeginHuman
  <2>4. CASE HumanAdvance(w) \/ HumanReady(w) \/ DropHuman(w)
    BY <2>4 DEF HumanAdvance, HumanReady, DropHuman
  <2>5. CASE HumanPending(w)
    BY <2>5 DEF HumanPending, HumanSuspends, BeginBot
  <2>6. CASE BotAdvance(w) \/ BotReady(w) \/ BotPending(w) \/ DropBot(w)
    BY <2>6 DEF BotAdvance, BotReady, BotPending, DropBot
  <2> QED
    BY <1>3, <2>1, <2>2, <2>3, <2>4, <2>5, <2>6 DEF WorkerStep
<1>4. CASE PushLane
  BY <1>4 DEF PushLane, Hi!Next, Lo!Next, hiVars, loVars, Hi!ringVars, Lo!ringVars
<1>5. CASE \/ StartIngest \/ StopIngest \/ ReceiveFrame \/ Reject \/ Shed
           \/ \E class \in Priorities : Accept(class)
           \/ SwitchMode \/ ExternalCancel \/ LbStep \/ LbExit
           \/ CancelWorkers \/ RequestSnapshot \/ DropSender \/ PrintSummary \/ DumpMetrics
           \/ UNCHANGED asyncVars
  <2>1. HiIdle /\ LoIdle
    BY <1>5 DEF StartIngest, StopIngest, ReceiveFrame, Reject, Shed, Accept, SwitchMode,
       ExternalCancel, LbStep, LbExit, LbFrame, CancelWorkers, RequestSnapshot, DropSender,
       PrintSummary, DumpMetrics, MainFrame, lanes, asyncVars
  <2> QED BY <1>1, <1>2, <2>1
<1>6. CASE \E w \in Workers : WorkerStep(w)
  <2> HIDE DEF HiIdle, LoIdle
  <2> QED BY <1>1, <1>2, <1>3, <1>6
<1> QED
  BY <1>4, <1>5, <1>6 DEF Next, MainStep

\* The parser and the select of the workers use both lanes as the ring allows: what is
\* proved of the ring holds of either.
LEMMA AsyncUsesRings == Spec => Hi!Spec /\ Lo!Spec
<1>1. Init => Hi!Init /\ Lo!Init
  BY DEF Init
<1>2. [Next]_asyncVars => [Hi!Next]_Hi!ringVars /\ [Lo!Next]_Lo!ringVars
  BY StepUsesRings
<1> QED
  BY <1>1, <1>2, PTL DEF Spec, Hi!Spec, Lo!Spec
-----------------------------------------------------------------------------
(* What the lanes, the workers and the metrics count *)

\* A lane of capacity 0 is bounded by what has been pushed into it.
LanesInv ==
    /\ capacity \in Nat /\ LaneRoom \in Nat
    /\ hiQueue \in Seq(Nat) /\ Len(hiQueue) <= LaneRoom /\ Len(hiQueue) <= hiPushed
    /\ loQueue \in Seq(Nat) /\ Len(loQueue) <= LaneRoom /\ Len(loQueue) <= loPushed
    /\ hiOverflow \in Nat /\ loOverflow \in Nat
    /\ HiDropped \in Nat /\ LoDropped \in Nat
    /\ hiPushed \in Nat /\ loPushed \in Nat

Waiting == Len(hiQueue) + Len(loQueue)

\* A task is in the hand of a worker from the pop to the end of its processing.
PoolInv ==
    /\ at \in [Workers -> WorkerPositions]
    /\ hand \in [Workers -> Priorities \union {None}]
    /\ \A w \in Workers :
          /\ at[w] \in {"cancel", "human", "bot", "parked", "done"} => hand[w] = None
          /\ at[w] \in {"popped", "timed"} => hand[w] # None

Gone == {w \in Workers : at[w] = "done"}

Done == metrics.jitter + unrecorded.jitter

Books ==
    /\ "jitter" \in DOMAIN metrics /\ metrics.jitter \in Nat
    /\ "jitter" \in DOMAIN unrecorded /\ unrecorded.jitter \in Nat

\* A push makes an event wait in the lane, or drops one for it: a lane of capacity 0 counts
\* an overflow when it is empty, and drops nothing.
LEMMA PushToHi ==
  ASSUME LanesInv, Hi!Push, UNCHANGED loVars
  PROVE  /\ LanesInv' /\ LaneRoom' = LaneRoom /\ hiPushed' = hiPushed + 1
         /\ UNCHANGED <<hiReceived, loQueue, LoDropped, loPushed, loReceived>>
         /\ \/ /\ Len(hiQueue) < LaneRoom /\ Len(hiQueue') = Len(hiQueue) + 1
               /\ HiDropped' = HiDropped
            \/ /\ Len(hiQueue) > 0 /\ Len(hiQueue') = Len(hiQueue)
               /\ HiDropped' = HiDropped + 1
<1> USE DEF LanesInv, HiDropped, LoDropped, LaneRoom
<1>1. /\ capacity' = capacity /\ hiPushed < MaxEvents /\ hiPushed' = hiPushed + 1
      /\ hiReceived' = hiReceived
      /\ UNCHANGED <<loQueue, loOverflow, loPushed, loReceived>>
      /\ IF Hi!Full
           THEN /\ hiQueue' = Append(Hi!PopFront(hiQueue), hiPushed + 1)
                /\ hiOverflow' = hiOverflow + 1
           ELSE hiQueue' = Append(hiQueue, hiPushed + 1) /\ hiOverflow' = hiOverflow
  BY DEF Hi!Push, loVars
<1>2. ASSUME NEW s \in Seq(Nat), NEW x \in Nat
      PROVE  Append(s, x) \in Seq(Nat) /\ Len(Append(s, x)) = Len(s) + 1
  OBVIOUS
<1>3. /\ MaxEvents \in Nat /\ Len(hiQueue) \in Nat /\ Len(loQueue) \in Nat
      /\ hiPushed + 1 \in Nat
  BY AsyncAssumption
<1>4. CASE Hi!Full /\ hiQueue # <<>>
  <2>1. /\ Hi!PopFront(hiQueue) = Tail(hiQueue) /\ Tail(hiQueue) \in Seq(Nat)
        /\ Len(Tail(hiQueue)) + 1 = Len(hiQueue) /\ Len(hiQueue) > 0
    BY <1>4 DEF Hi!PopFront
  <2>2. capacity > 0 /\ capacity # 0
    BY <1>3, <1>4, <2>1 DEF Hi!Full
  <2>3. hiQueue' = Append(Tail(hiQueue), hiPushed + 1) /\ hiOverflow' = hiOverflow + 1
    BY <1>1, <1>4, <2>1
  <2>4. hiQueue' \in Seq(Nat) /\ Len(hiQueue') = Len(hiQueue)
    BY <1>2, <1>3, <2>1, <2>3
  <2>5. HiDropped' = HiDropped + 1 /\ LaneRoom' = LaneRoom
    BY <1>1, <2>2, <2>3
  <2>6. hiOverflow' \in Nat /\ HiDropped' \in Nat /\ hiPushed' \in Nat
    BY <1>1, <1>3, <2>3, <2>5
  <2>7. Len(hiQueue') <= LaneRoom' /\ Len(hiQueue') <= hiPushed'
    BY <1>1, <1>3, <2>4, <2>5
  <2>8. UNCHANGED <<capacity, LaneRoom, loQueue, loOverflow, LoDropped, loPushed>>
    BY <1>1
  <2>9. LanesInv'
    <3> HIDE DEF HiDropped, LoDropped, LaneRoom
    <3> QED BY <2>4, <2>6, <2>7, <2>8
  <2> QED BY <1>1, <2>1, <2>4, <2>5, <2>9
<1>5. CASE Hi!Full /\ hiQueue = <<>>
  <2>1. Hi!PopFront(hiQueue) = hiQueue /\ Len(hiQueue) = 0
    BY <1>5 DEF Hi!PopFront
  <2>2. capacity = 0
    BY <1>5, <2>1 DEF Hi!Full
  <2>3. hiQueue' \in Seq(Nat) /\ Len(hiQueue') = Len(hiQueue) + 1 /\ hiOverflow' = hiOverflow + 1
    BY <1>1, <1>2, <1>3, <1>5, <2>1
  <2> QED BY <1>1, <1>3, <2>1, <2>2, <2>3
<1>6. CASE ~Hi!Full
  <2>1. hiQueue' \in Seq(Nat) /\ Len(hiQueue') = Len(hiQueue) + 1 /\ hiOverflow' = hiOverflow
    BY <1>1, <1>2, <1>3, <1>6
  <2>2. Len(hiQueue) < LaneRoom
    BY <1>1, <1>3, <1>6 DEF Hi!Full
  <2> QED BY <1>1, <1>3, <2>1, <2>2
<1> QED BY <1>4, <1>5, <1>6

\* The same of the bot lane.
LEMMA PushToLo ==
  ASSUME LanesInv, Lo!Push, UNCHANGED hiVars
  PROVE  /\ LanesInv' /\ LaneRoom' = LaneRoom /\ loPushed' = loPushed + 1
         /\ UNCHANGED <<loReceived, hiQueue, HiDropped, hiPushed, hiReceived>>
         /\ \/ /\ Len(loQueue) < LaneRoom /\ Len(loQueue') = Len(loQueue) + 1
               /\ LoDropped' = LoDropped
            \/ /\ Len(loQueue) > 0 /\ Len(loQueue') = Len(loQueue)
               /\ LoDropped' = LoDropped + 1
<1> USE DEF LanesInv, LoDropped, HiDropped, LaneRoom
<1>1. /\ capacity' = capacity /\ loPushed < MaxEvents /\ loPushed' = loPushed + 1
      /\ loReceived' = loReceived
      /\ UNCHANGED <<hiQueue, hiOverflow, hiPushed, hiReceived>>
      /\ IF Lo!Full
           THEN /\ loQueue' = Append(Lo!PopFront(loQueue), loPushed + 1)
                /\ loOverflow' = loOverflow + 1
           ELSE loQueue' = Append(loQueue, loPushed + 1) /\ loOverflow' = loOverflow
  BY DEF Lo!Push, hiVars
<1>2. ASSUME NEW s \in Seq(Nat), NEW x \in Nat
      PROVE  Append(s, x) \in Seq(Nat) /\ Len(Append(s, x)) = Len(s) + 1
  OBVIOUS
<1>3. /\ MaxEvents \in Nat /\ Len(loQueue) \in Nat /\ Len(hiQueue) \in Nat
      /\ loPushed + 1 \in Nat
  BY AsyncAssumption
<1>4. CASE Lo!Full /\ loQueue # <<>>
  <2>1. /\ Lo!PopFront(loQueue) = Tail(loQueue) /\ Tail(loQueue) \in Seq(Nat)
        /\ Len(Tail(loQueue)) + 1 = Len(loQueue) /\ Len(loQueue) > 0
    BY <1>4 DEF Lo!PopFront
  <2>2. capacity > 0 /\ capacity # 0
    BY <1>3, <1>4, <2>1 DEF Lo!Full
  <2>3. loQueue' = Append(Tail(loQueue), loPushed + 1) /\ loOverflow' = loOverflow + 1
    BY <1>1, <1>4, <2>1
  <2>4. loQueue' \in Seq(Nat) /\ Len(loQueue') = Len(loQueue)
    BY <1>2, <1>3, <2>1, <2>3
  <2>5. LoDropped' = LoDropped + 1 /\ LaneRoom' = LaneRoom
    BY <1>1, <2>2, <2>3
  <2>6. loOverflow' \in Nat /\ LoDropped' \in Nat /\ loPushed' \in Nat
    BY <1>1, <1>3, <2>3, <2>5
  <2>7. Len(loQueue') <= LaneRoom' /\ Len(loQueue') <= loPushed'
    BY <1>1, <1>3, <2>4, <2>5
  <2>8. UNCHANGED <<capacity, LaneRoom, hiQueue, hiOverflow, HiDropped, hiPushed>>
    BY <1>1
  <2>9. LanesInv'
    <3> HIDE DEF LoDropped, HiDropped, LaneRoom
    <3> QED BY <2>4, <2>6, <2>7, <2>8
  <2> QED BY <1>1, <2>1, <2>4, <2>5, <2>9
<1>5. CASE Lo!Full /\ loQueue = <<>>
  <2>1. Lo!PopFront(loQueue) = loQueue /\ Len(loQueue) = 0
    BY <1>5 DEF Lo!PopFront
  <2>2. capacity = 0
    BY <1>5, <2>1 DEF Lo!Full
  <2>3. loQueue' \in Seq(Nat) /\ Len(loQueue') = Len(loQueue) + 1 /\ loOverflow' = loOverflow + 1
    BY <1>1, <1>2, <1>3, <1>5, <2>1
  <2> QED BY <1>1, <1>3, <2>1, <2>2, <2>3
<1>6. CASE ~Lo!Full
  <2>1. loQueue' \in Seq(Nat) /\ Len(loQueue') = Len(loQueue) + 1 /\ loOverflow' = loOverflow
    BY <1>1, <1>2, <1>3, <1>6
  <2>2. Len(loQueue) < LaneRoom
    BY <1>1, <1>3, <1>6 DEF Lo!Full
  <2> QED BY <1>1, <1>3, <2>1, <2>2
<1> QED BY <1>4, <1>5, <1>6

\* A push adds an event to a lane, or overwrites one.
LEMMA PushCounts ==
  ASSUME LanesInv, \/ Hi!Push /\ UNCHANGED loVars
                   \/ Lo!Push /\ UNCHANGED hiVars
  PROVE  /\ LanesInv' /\ LaneRoom' = LaneRoom
         /\ \/ Waiting < 2 * LaneRoom /\ Waiting' = Waiting + 1 /\ Evicted' = Evicted
            \/ Waiting > 0 /\ Evicted' = Evicted + 1 /\ Waiting' = Waiting
<1>1. /\ Len(hiQueue) \in Nat /\ Len(loQueue) \in Nat /\ LaneRoom \in Nat
      /\ Len(hiQueue) <= LaneRoom /\ Len(loQueue) <= LaneRoom
      /\ HiDropped \in Nat /\ LoDropped \in Nat
  BY DEF LanesInv
<1>2. CASE Hi!Push /\ UNCHANGED loVars
  BY <1>1, <1>2, PushToHi DEF Waiting, Evicted
<1>3. CASE Lo!Push /\ UNCHANGED hiVars
  BY <1>1, <1>3, PushToLo DEF Waiting, Evicted
<1> QED BY <1>2, <1>3

\* A pop takes one event from a lane.
LEMMA TakeCounts ==
  ASSUME LanesInv, NEW w \in Workers,
         \/ Hi!Take(w) /\ UNCHANGED loVars
         \/ Lo!Take(w) /\ UNCHANGED hiVars
  PROVE  /\ LanesInv'
         /\ Waiting > 0 /\ Waiting' = Waiting - 1 /\ Evicted' = Evicted /\ LaneRoom' = LaneRoom
<1> USE AsyncAssumption DEF LanesInv, Evicted, Waiting, HiDropped, LoDropped, LaneRoom
<1>1. ASSUME NEW q \in Seq(Nat), q # <<>>
      PROVE  Tail(q) \in Seq(Nat) /\ Len(Tail(q)) = Len(q) - 1 /\ Len(q) > 0
  BY <1>1
<1>2. CASE Hi!Take(w) /\ UNCHANGED loVars
  BY <1>1, <1>2 DEF Hi!Take, loVars
<1>3. CASE Lo!Take(w) /\ UNCHANGED hiVars
  BY <1>1, <1>3 DEF Lo!Take, hiVars
<1> QED BY <1>2, <1>3

\* A worker's hand fills or empties by one task.
LEMMA BusyCounts ==
  /\ IsFiniteSet(Busy) /\ Cardinality(Busy) \in Nat /\ Cardinality(Workers) \in Nat
  /\ \A w \in Workers \ Busy : /\ Cardinality(Busy \union {w}) = Cardinality(Busy) + 1
                               /\ Cardinality(Busy) < Cardinality(Workers)
  /\ \A w \in Busy : /\ Cardinality(Busy \ {w}) = Cardinality(Busy) - 1
                     /\ Cardinality(Busy) > 0
<1>1. Busy \in SUBSET Workers /\ IsFiniteSet(Workers)
  BY AsyncAssumption DEF Busy
<1>2. IsFiniteSet(Busy) /\ Cardinality(Busy) \in Nat /\ Cardinality(Workers) \in Nat
  BY <1>1, FS_Subset, FS_CardinalityType
<1>3. ASSUME NEW w \in Workers \ Busy
      PROVE  /\ Cardinality(Busy \union {w}) = Cardinality(Busy) + 1
             /\ Cardinality(Busy) < Cardinality(Workers)
  <2>1. Cardinality(Busy \union {w}) = Cardinality(Busy) + 1
    BY <1>2, <1>3, FS_AddElement
  <2>2. Busy \union {w} \in SUBSET Workers
    BY <1>1, <1>3
  <2>3. Cardinality(Busy \union {w}) <= Cardinality(Workers)
    BY <1>1, <2>2, FS_Subset
  <2> QED BY <1>2, <2>1, <2>3
<1>4. ASSUME NEW w \in Busy
      PROVE  /\ Cardinality(Busy \ {w}) = Cardinality(Busy) - 1
             /\ Cardinality(Busy) > 0
  <2>1. Cardinality(Busy) # 0
    BY <1>2, <1>4, FS_EmptySet
  <2> QED BY <1>2, <1>4, <2>1, FS_RemoveElement
<1> QED BY <1>2, <1>3, <1>4

\* The samples are counted, in the store or as refused.
LEMMA SamplesCount ==
  ASSUME Books, NEW c
  PROVE  /\ M!RecordDrift(c) => Books' /\ Done' = Done
         /\ M!RecordJitter(c) => Books' /\ Done' = Done + 1
<1> USE DEF Books, Done
<1>1. ASSUME M!RecordDrift(c) PROVE Books' /\ Done' = Done
  BY <1>1 DEF M!RecordDrift
<1>2. ASSUME M!RecordJitter(c) PROVE Books' /\ Done' = Done + 1
  <2>1. CASE metrics' = [metrics EXCEPT !.jitter = @ + 1] /\ UNCHANGED unrecorded
    BY <1>2, <2>1 DEF M!RecordJitter
  <2>2. CASE /\ metrics' = [metrics EXCEPT !.jitter = @ + 1, !.deadline_miss[c] = @ + 1]
             /\ UNCHANGED unrecorded
    <3>1. metrics'.jitter = metrics.jitter + 1 /\ DOMAIN metrics' = DOMAIN metrics
      BY <2>2
    <3> QED BY <1>2, <2>2, <3>1
  <2>3. CASE /\ metrics' = [metrics EXCEPT !.deadline_miss[c] = @ + 1]
             /\ unrecorded' = [unrecorded EXCEPT !.jitter = @ + 1]
    BY <1>2, <2>3 DEF M!RecordJitter
  <2> QED BY <1>2, <2>1, <2>2, <2>3 DEF M!RecordJitter
<1> QED BY <1>1, <1>2
-----------------------------------------------------------------------------
(* The refinement *)

Tallies == [received : Nat, malformed : Nat, parsed : Nat, shed : Nat]

\* The actor outlives the workers, and the summary is printed after its end: that is why
\* no event is touched when the summary is out, although nobody joins the workers.
LifeInv ==
    /\ LanesInv
    /\ PoolInv
    /\ Books
    /\ tally \in Tallies
    /\ main \in Ingesting \union Stopping \union Reporting \union {"failed"}
    /\ lbUp \/ Gone = Workers
    /\ main \in Reporting => ~lbUp

\* What is shown of every step.
Lives == LifeInv' /\ [Life!LifeNext]_Life!lifeVars

\* Nothing that EventLife sees of the lanes changes.
LanesStay ==
    UNCHANGED <<capacity, hiQueue, hiOverflow, hiPushed, loQueue, loOverflow, loPushed>>

\* The same of the workers, and of the metrics.
PoolStays == UNCHANGED <<at, hand>>
BooksStay == UNCHANGED <<metrics, unrecorded>>

LEMMA Stays ==
  /\ LanesInv /\ LanesStay => LanesInv' /\ Waiting' = Waiting /\ Evicted' = Evicted /\ LaneRoom' = LaneRoom
  /\ PoolInv /\ PoolStays => PoolInv' /\ Busy' = Busy /\ Gone' = Gone
  /\ Books /\ BooksStay => Books' /\ Done' = Done
<1>1. ASSUME LanesInv, LanesStay
      PROVE  LanesInv' /\ Waiting' = Waiting /\ Evicted' = Evicted /\ LaneRoom' = LaneRoom
  BY <1>1 DEF LanesInv, LanesStay, Waiting, Evicted, HiDropped, LoDropped, LaneRoom
<1>2. ASSUME PoolInv, PoolStays PROVE PoolInv' /\ Busy' = Busy /\ Gone' = Gone
  BY <1>2 DEF PoolInv, PoolStays, Busy, Gone
<1>3. ASSUME Books, BooksStay PROVE Books' /\ Done' = Done
  BY <1>3 DEF Books, BooksStay, Done
<1> QED BY <1>1, <1>2, <1>3

\* Receiving and dispatching an event: it arrives, is refused, or is about to be pushed.
LEMMA StreamLives ==
  ASSUME LifeInv,
         \/ StartIngest \/ StopIngest \/ ReceiveFrame \/ Reject \/ Shed
         \/ \E class \in Priorities : Accept(class)
  PROVE  Lives
<1>1. LanesStay /\ PoolStays /\ BooksStay /\ lbUp' = lbUp
  BY DEF StartIngest, StopIngest, ReceiveFrame, Reject, Shed, Accept, ingestFrame, lanes,
         hiVars, loVars, LanesStay, pool, PoolStays, books, BooksStay, board, lbVars
<1>2. /\ LanesInv' /\ PoolInv' /\ Books'
      /\ Waiting' = Waiting /\ Evicted' = Evicted /\ LaneRoom' = LaneRoom
      /\ Busy' = Busy /\ Gone' = Gone
      /\ Done' = Done /\ lbUp' = lbUp
  BY <1>1, Stays DEF LifeInv
<1> USE DEF LifeInv, Tallies, Ingesting, Stopping, Reporting, Life!lifeVars, Life!waitingVars,
            Waiting, Evicted, Done
<1>3. CASE StartIngest
  BY <1>2, <1>3 DEF Lives, StartIngest, Life!LifeNext, Life!Close
<1>4. CASE StopIngest
  BY <1>2, <1>4 DEF Lives, StopIngest, Life!LifeNext, Life!Close
<1>5. CASE ReceiveFrame
  BY <1>2, <1>5 DEF Lives, ReceiveFrame, Life!LifeNext, Life!Receive
<1>6. CASE Reject
  BY <1>2, <1>6 DEF Lives, Reject, AfterSink, Life!LifeNext, Life!Refuse, Life!Settle
<1>7. CASE Shed
  <2>1. /\ Parsed \in Tallies /\ Parsed.received = tally.received
        /\ Parsed.malformed = tally.malformed /\ Parsed.shed = tally.shed
    BY DEF Parsed
  <2>2. /\ tally' \in Tallies /\ tally'.received = Parsed.received
        /\ tally'.malformed = Parsed.malformed /\ tally'.shed = Parsed.shed + 1
    <3> DEFINE p == Parsed
    <3>1. p \in Tallies /\ tally' = [p EXCEPT !.shed = @ + 1]
      BY <1>7, <2>1 DEF Shed
    <3> HIDE DEF p
    <3>2. /\ tally' \in Tallies /\ tally'.received = p.received
          /\ tally'.malformed = p.malformed /\ tally'.shed = p.shed + 1
      BY <3>1
    <3> QED BY <3>2 DEF p
  <2>3. main = "frame" /\ main' \in {"select", "stop"}
    BY <1>7 DEF Shed, AfterSink
  <2> QED BY <1>2, <2>1, <2>2, <2>3 DEF Lives, Life!LifeNext, Life!Refuse, Life!Settle
<1>8. CASE \E class \in Priorities : Accept(class)
  BY <1>2, <1>8 DEF Lives, Accept, Parsed
<1> QED BY <1>3, <1>4, <1>5, <1>6, <1>7, <1>8

\* A push: the event waits, or another one is overwritten.
LEMMA PushLives == ASSUME LifeInv, PushLane PROVE Lives
<1> USE DEF LifeInv, Tallies, Ingesting, Stopping, Reporting, Life!lifeVars, Life!waitingVars
<1>1. PoolStays /\ BooksStay /\ UNCHANGED <<tally, lbUp>>
  BY DEF PushLane, ingestFrame, pool, PoolStays, books, BooksStay, board, lbVars
<1>2. PoolInv' /\ Books' /\ Busy' = Busy /\ Gone' = Gone /\ Done' = Done
  BY <1>1, Stays
<1>3. /\ LanesInv' /\ LaneRoom' = LaneRoom
      /\ \/ Waiting < 2 * LaneRoom /\ Waiting' = Waiting + 1 /\ Evicted' = Evicted
         \/ Waiting > 0 /\ Evicted' = Evicted + 1 /\ Waiting' = Waiting
  BY PushCounts DEF PushLane
<1>4. main = "push" /\ main' \in {"select", "stop"}
  BY DEF PushLane, AfterSink
<1> QED
  BY <1>1, <1>2, <1>3, <1>4
  DEF Lives, Waiting, Evicted, Done, Life!LifeNext, Life!Queue, Life!Settle

\* A worker polls, suspends, wakes or leaves: it moves no task, and "done" is for good.
LEMMA PollLives ==
  ASSUME LifeInv, NEW w \in Workers,
         \/ PollCancelled(w) \/ PollCancelPending(w) \/ HumanAdvance(w) \/ HumanPending(w)
         \/ BotAdvance(w) \/ BotPending(w) \/ Wake(w) \/ DropHuman(w) \/ DropBot(w)
         \/ Leave(w)
  PROVE  Lives
<1>1. LanesStay
  BY DEF PollCancelled, PollCancelPending, HumanAdvance, HumanPending, BotAdvance, BotPending,
     Wake, DropHuman, DropBot, Leave, BeginHuman, BeginBot, HumanSuspends, Hi!Call, Lo!Call,
     Hi!SeeEmpty, Hi!PollPermit, Hi!PollWait, Hi!Resume, Hi!Drop, Hi!DropWaiting,
     Hi!DropNotified, Lo!SeeEmpty, Lo!PollPermit, Lo!PollWait, Lo!Resume, Lo!Drop,
     Lo!DropWaiting, Lo!DropNotified, hiVars, loVars, LanesStay
<1>2. BooksStay /\ UNCHANGED <<tally, main, lbUp>> /\ hand' = hand
  BY DEF PollCancelled, PollCancelPending, HumanAdvance, HumanPending, BotAdvance, BotPending,
     Wake, DropHuman, DropBot, Leave, workerFrame, books, BooksStay, board, lbVars
<1>3. /\ LanesInv' /\ Books' /\ Waiting' = Waiting /\ Evicted' = Evicted /\ LaneRoom' = LaneRoom
      /\ Done' = Done
  BY <1>1, <1>2, Stays DEF LifeInv
<1>4. PoolInv' /\ Gone \subseteq Gone'
  <2> USE DEF LifeInv, PoolInv, WorkerPositions, Gone
  <2>1. CASE HumanAdvance(w) \/ BotAdvance(w) \/ DropHuman(w) \/ DropBot(w)
    BY <2>1, <1>2 DEF HumanAdvance, BotAdvance, DropHuman, DropBot
  <2>2. CASE \/ PollCancelled(w) \/ PollCancelPending(w) \/ HumanPending(w)
             \/ BotPending(w) \/ Wake(w)
    BY <2>2, <1>2 DEF PollCancelled, PollCancelPending, HumanPending, BotPending, Wake
  <2>3. CASE Leave(w)
    BY <2>3, <1>2 DEF Leave
  <2> QED BY <2>1, <2>2, <2>3
<1>5. Busy' = Busy
  BY <1>2 DEF Busy
<1>6. Gone = Workers => Gone' = Workers
  BY <1>4 DEF Gone
<1> QED
  BY <1>2, <1>3, <1>4, <1>5, <1>6
  DEF Lives, LifeInv, Waiting, Evicted, Done, Life!lifeVars, Life!waitingVars

\* A worker pops, processes and finishes a task.
LEMMA TaskLives ==
  ASSUME LifeInv, NEW w \in Workers,
         HumanReady(w) \/ BotReady(w) \/ Process(w) \/ Finish(w)
  PROVE  Lives
<1> USE DEF LifeInv, Tallies, Ingesting, Stopping, Reporting, Life!lifeVars, Life!waitingVars
<1>1. UNCHANGED <<tally, main, lbUp>>
  BY DEF HumanReady, BotReady, Process, Finish, workerFrame, board, lbVars, Lb!Send
<1>2. CASE HumanReady(w) \/ BotReady(w)
  <2>1. /\ LanesInv' /\ LaneRoom' = LaneRoom
        /\ Waiting > 0 /\ Waiting' = Waiting - 1 /\ Evicted' = Evicted
    BY <1>2, TakeCounts DEF HumanReady, BotReady
  <2>2. BooksStay
    BY <1>2 DEF HumanReady, BotReady, workerFrame, books, BooksStay
  <2>3. Books' /\ Done' = Done
    BY <2>2, Stays
  <2>4. /\ at[w] \in {"human", "bot"} /\ at' = [at EXCEPT ![w] = "leaving"]
        /\ \E class \in Priorities : hand' = [hand EXCEPT ![w] = class]
    BY <1>2 DEF HumanReady, BotReady, Popped, Priorities
  <2>5. /\ PoolInv' /\ Gone' = Gone /\ w \notin Gone
        /\ w \notin Busy /\ Busy' = Busy \union {w}
    BY <2>4 DEF PoolInv, Gone, Busy, WorkerPositions, Priorities, Human, Bot, None
  <2>6. /\ Cardinality(Busy') = Cardinality(Busy) + 1
        /\ Cardinality(Busy) < Cardinality(Workers)
    BY <2>5, BusyCounts
  <2>7. main \notin Reporting
    BY <2>5
  <2> QED
    BY <1>1, <2>1, <2>3, <2>5, <2>6, <2>7
    DEF Lives, Waiting, Evicted, Done, Life!LifeNext, Life!Start
<1>3. CASE Process(w)
  <2>1. LanesStay /\ hand' = hand /\ at[w] = "popped" /\ at' = [at EXCEPT ![w] = "timed"]
    BY <1>3 DEF Process, lanes, hiVars, loVars, LanesStay
  <2>2. LanesInv' /\ Waiting' = Waiting /\ Evicted' = Evicted /\ LaneRoom' = LaneRoom
    BY <2>1, Stays
  <2>3. Books' /\ Done' = Done
    BY <1>3, SamplesCount DEF Process
  <2>4. PoolInv' /\ Gone' = Gone /\ Busy' = Busy
    BY <2>1 DEF PoolInv, Gone, Busy, WorkerPositions
  <2> QED BY <1>1, <2>2, <2>3, <2>4 DEF Lives, Waiting, Evicted, Done
<1>4. CASE Finish(w)
  <2>1. /\ LanesStay /\ at[w] = "timed" /\ at' = [at EXCEPT ![w] = "cancel"]
        /\ hand' = [hand EXCEPT ![w] = None]
    BY <1>4 DEF Finish, lanes, hiVars, loVars, LanesStay
  <2>2. LanesInv' /\ Waiting' = Waiting /\ Evicted' = Evicted /\ LaneRoom' = LaneRoom
    BY <2>1, Stays
  <2>3. Books' /\ Done' = Done + 1
    BY <1>4, SamplesCount DEF Finish
  <2>4. /\ PoolInv' /\ Gone' = Gone
        /\ w \in Busy /\ Busy' = Busy \ {w}
    BY <2>1 DEF PoolInv, Gone, Busy, WorkerPositions
  <2>5. Cardinality(Busy') = Cardinality(Busy) - 1 /\ Cardinality(Busy) > 0
    BY <2>4, BusyCounts
  <2> QED
    BY <1>1, <2>2, <2>3, <2>4, <2>5
    DEF Lives, Waiting, Evicted, Done, Life!LifeNext, Life!Finish
<1> QED BY <1>2, <1>3, <1>4
\* The mode and the token are no business of the events; the actor ends after the workers.
LEMMA OthersLive ==
  ASSUME LifeInv, LbStep \/ LbExit \/ SwitchMode \/ ExternalCancel PROVE Lives
<1>1. LanesStay /\ PoolStays /\ BooksStay /\ UNCHANGED <<tally, main>>
  BY DEF LbStep, LbExit, LbFrame, SwitchMode, ExternalCancel, lanes, hiVars, loVars, LanesStay,
     pool, PoolStays, books, BooksStay
<1>2. /\ LanesInv' /\ PoolInv' /\ Books'
      /\ Waiting' = Waiting /\ Evicted' = Evicted /\ LaneRoom' = LaneRoom
      /\ Busy' = Busy /\ Gone' = Gone
      /\ Done' = Done
  BY <1>1, Stays DEF LifeInv
<1>3. (lbUp' \/ Gone = Workers) /\ (~lbUp => ~lbUp')
  <2>1. CASE LbExit
    BY <2>1 DEF LbExit, SendersDropped, Gone, Lb!Exit
  <2>2. CASE LbStep \/ SwitchMode \/ ExternalCancel
    BY <2>2 DEF LifeInv, LbStep, SwitchMode, ExternalCancel, Lb!Step, Lb!CountUpdate,
       Lb!AnswerSnapshot, board, lbVars
  <2> QED BY <2>1, <2>2
<1> QED
  BY <1>1, <1>2, <1>3
  DEF Lives, LifeInv, Waiting, Evicted, Done, Life!lifeVars, Life!waitingVars

\* The shutdown: the stream stays closed until the summary is printed over idle workers.
LEMMA ShutdownLives ==
  ASSUME LifeInv,
         CancelWorkers \/ RequestSnapshot \/ DropSender \/ PrintSummary \/ DumpMetrics
  PROVE  Lives
<1>1. LanesStay /\ PoolStays /\ BooksStay /\ UNCHANGED <<tally, lbUp>>
  BY DEF CancelWorkers, RequestSnapshot, DropSender, PrintSummary, DumpMetrics, MainFrame,
     lanes, hiVars, loVars, LanesStay, pool, PoolStays, books, BooksStay, board, lbVars,
     M!PrintMetrics, M!DumpCsv, M!DumpHgrm, Lb!Send
<1>2. /\ LanesInv' /\ PoolInv' /\ Books'
      /\ Waiting' = Waiting /\ Evicted' = Evicted /\ LaneRoom' = LaneRoom
      /\ Busy' = Busy /\ Gone' = Gone
      /\ Done' = Done
  BY <1>1, Stays DEF LifeInv
<1> USE DEF LifeInv, Ingesting, Stopping, Reporting, Life!lifeVars, Life!waitingVars,
            Waiting, Evicted, Done
<1>3. CASE CancelWorkers \/ RequestSnapshot \/ DropSender
  BY <1>1, <1>2, <1>3 DEF Lives, CancelWorkers, RequestSnapshot, DropSender
<1>4. CASE PrintSummary
  <2>1. Busy = {}
    BY <1>4 DEF PrintSummary, Gone, Busy, PoolInv
  <2>2. Cardinality(Busy) = 0
    BY <2>1, FS_EmptySet
  <2> QED BY <1>1, <1>2, <1>4, <2>2 DEF Lives, PrintSummary, Life!LifeNext, Life!Report
<1>5. CASE DumpMetrics
  BY <1>1, <1>2, <1>5 DEF Lives, DumpMetrics
<1> QED BY <1>3, <1>4, <1>5

\* Nothing has been received, and everything is empty.
LEMMA InitLives == Init => LifeInv /\ Life!LifeInit
<1> SUFFICES ASSUME Init PROVE LifeInv /\ Life!LifeInit
  OBVIOUS
<1>1. Busy = {}
  BY DEF Init, Busy
<1>2. Cardinality(Busy) = 0
  BY <1>1, FS_EmptySet
<1>3. /\ LanesInv /\ Waiting = 0 /\ Evicted = 0
  BY AsyncAssumption
  DEF Init, Hi!Init, Lo!Init, LanesInv, Waiting, Evicted, HiDropped, LoDropped, LaneRoom
<1>4. Books /\ Done = 0
  BY DEF Init, M!Init, Books, Done
<1>5. PoolInv
  BY DEF Init, PoolInv, WorkerPositions
<1>6. 2 * LaneRoom \in Nat
  BY <1>3 DEF LanesInv
<1> QED
  BY <1>2, <1>3, <1>4, <1>5, <1>6, AsyncAssumption
  DEF Init, Lb!Init, LifeInv, Tallies, Ingesting, Stopping, Reporting, Waiting, Evicted, Done,
      Life!LifeInit

\* Every step of a task is a step in the life of one event, or of none.
LEMMA StepLives == LifeInv /\ [Next]_asyncVars => Lives
<1> SUFFICES ASSUME LifeInv, [Next]_asyncVars PROVE Lives
  OBVIOUS
<1>1. CASE \/ StartIngest \/ StopIngest \/ ReceiveFrame \/ Reject \/ Shed
           \/ \E class \in Priorities : Accept(class)
  BY <1>1, StreamLives
<1>2. CASE PushLane
  BY <1>2, PushLives
<1>3. CASE \E w \in Workers : WorkerStep(w)
  BY <1>3, PollLives, TaskLives DEF WorkerStep
<1>4. CASE LbStep \/ LbExit \/ SwitchMode \/ ExternalCancel
  BY <1>4, OthersLive
<1>5. CASE CancelWorkers \/ RequestSnapshot \/ DropSender \/ PrintSummary \/ DumpMetrics
  BY <1>5, ShutdownLives
<1>6. CASE UNCHANGED asyncVars
  <2>1. LanesStay /\ PoolStays /\ BooksStay /\ UNCHANGED <<tally, main, lbUp>>
    BY <1>6 DEF asyncVars, lanes, hiVars, loVars, LanesStay, pool, PoolStays, books,
       BooksStay, board, lbVars
  <2>2. /\ LanesInv' /\ PoolInv' /\ Books'
        /\ Waiting' = Waiting /\ Evicted' = Evicted /\ LaneRoom' = LaneRoom
      /\ Busy' = Busy /\ Gone' = Gone
        /\ Done' = Done
    BY <2>1, Stays DEF LifeInv
  <2> QED
    BY <2>1, <2>2
    DEF Lives, LifeInv, Waiting, Evicted, Done, Life!lifeVars, Life!waitingVars
<1> QED
  BY <1>1, <1>2, <1>3, <1>4, <1>5, <1>6 DEF Next, MainStep

\* The tasks of the runtime, the lanes and the shutdown do with the events what EventLife
\* promises.
THEOREM AsyncImplementsLife == Spec => ImplementsLife
<1>1. Init => LifeInv /\ Life!LifeInit
  BY InitLives
<1>2. LifeInv /\ [Next]_asyncVars => LifeInv' /\ [Life!LifeNext]_Life!lifeVars
  BY StepLives DEF Lives
<1> QED
  BY <1>1, <1>2, PTL DEF Spec, ImplementsLife, Life!LifeSpec
-----------------------------------------------------------------------------
(* No task is stranded: what is proved of the ring is used of both lanes *)

HiRing == INSTANCE RingProofs WITH
            AsyncConsumers <- Workers, BlockingConsumers <- {}, MaxPushes <- MaxEvents,
            queue <- hiQueue, overflow <- hiOverflow, permit <- hiPermit,
            waiters <- hiWaiters, asleep <- {}, pc <- hiPc, pushed <- hiPushed,
            received <- hiReceived, lost <- hiLost

LoRing == INSTANCE RingProofs WITH
            AsyncConsumers <- Workers, BlockingConsumers <- {}, MaxPushes <- MaxEvents,
            queue <- loQueue, overflow <- loOverflow, permit <- loPermit,
            waiters <- loWaiters, asleep <- {}, pc <- loPc, pushed <- loPushed,
            received <- loReceived, lost <- loLost

\* The proofs of the ring speak of the lanes.
LEMMA SameHiRing ==
  /\ Hi!Spec <=> HiRing!Spec
  /\ Hi!TypeOK <=> HiRing!TypeOK
  /\ Hi!LoopersNotStranded <=> HiRing!LoopersNotStranded
<1>1. Hi!Spec <=> HiRing!Spec
  BY DEF
     Hi!Spec, HiRing!Spec, Hi!Init, HiRing!Init, Hi!Next, HiRing!Next, Hi!ringVars,
     HiRing!ringVars, Hi!Consumers, HiRing!Consumers, Hi!Push, HiRing!Push, Hi!Full,
     HiRing!Full, Hi!PopFront, HiRing!PopFront, Hi!NotifyOnePc, HiRing!NotifyOnePc,
     Hi!NotifyOneWaiters, HiRing!NotifyOneWaiters, Hi!NotifyOnePermit,
     HiRing!NotifyOnePermit, Hi!CondvarNotifyOne, HiRing!CondvarNotifyOne, Hi!Call,
     HiRing!Call, Hi!AsyncStep, HiRing!AsyncStep, Hi!Take, HiRing!Take, Hi!SeeEmpty,
     HiRing!SeeEmpty, Hi!PollPermit, HiRing!PollPermit, Hi!PollWait, HiRing!PollWait,
     Hi!Resume, HiRing!Resume, Hi!Drop, HiRing!Drop, Hi!DropWaiting,
     HiRing!DropWaiting, Hi!DropNotified, HiRing!DropNotified, Hi!RemoveAt,
     HiRing!RemoveAt, Hi!BlockingStep, HiRing!BlockingStep, Hi!Sleep, HiRing!Sleep
<1>2. /\ Hi!TypeOK <=> HiRing!TypeOK
      /\ Hi!LoopersNotStranded <=> HiRing!LoopersNotStranded
  BY DEF
     Hi!TypeOK, HiRing!TypeOK, Hi!WaitListOK, HiRing!WaitListOK, Hi!Consumers,
     HiRing!Consumers, Hi!AsyncPositions, HiRing!AsyncPositions, Hi!BlockingPositions,
     HiRing!BlockingPositions, Hi!Range, HiRing!Range, Hi!IsInjective,
     HiRing!IsInjective, Hi!LoopersNotStranded, HiRing!LoopersNotStranded
<1> QED BY <1>1, <1>2

LEMMA SameLoRing ==
  /\ Lo!Spec <=> LoRing!Spec
  /\ Lo!TypeOK <=> LoRing!TypeOK
  /\ Lo!LoopersNotStranded <=> LoRing!LoopersNotStranded
<1>1. Lo!Spec <=> LoRing!Spec
  BY DEF
     Lo!Spec, LoRing!Spec, Lo!Init, LoRing!Init, Lo!Next, LoRing!Next, Lo!ringVars,
     LoRing!ringVars, Lo!Consumers, LoRing!Consumers, Lo!Push, LoRing!Push, Lo!Full,
     LoRing!Full, Lo!PopFront, LoRing!PopFront, Lo!NotifyOnePc, LoRing!NotifyOnePc,
     Lo!NotifyOneWaiters, LoRing!NotifyOneWaiters, Lo!NotifyOnePermit,
     LoRing!NotifyOnePermit, Lo!CondvarNotifyOne, LoRing!CondvarNotifyOne, Lo!Call,
     LoRing!Call, Lo!AsyncStep, LoRing!AsyncStep, Lo!Take, LoRing!Take, Lo!SeeEmpty,
     LoRing!SeeEmpty, Lo!PollPermit, LoRing!PollPermit, Lo!PollWait, LoRing!PollWait,
     Lo!Resume, LoRing!Resume, Lo!Drop, LoRing!Drop, Lo!DropWaiting,
     LoRing!DropWaiting, Lo!DropNotified, LoRing!DropNotified, Lo!RemoveAt,
     LoRing!RemoveAt, Lo!BlockingStep, LoRing!BlockingStep, Lo!Sleep, LoRing!Sleep
<1>2. /\ Lo!TypeOK <=> LoRing!TypeOK
      /\ Lo!LoopersNotStranded <=> LoRing!LoopersNotStranded
  BY DEF
     Lo!TypeOK, LoRing!TypeOK, Lo!WaitListOK, LoRing!WaitListOK, Lo!Consumers,
     LoRing!Consumers, Lo!AsyncPositions, LoRing!AsyncPositions, Lo!BlockingPositions,
     LoRing!BlockingPositions, Lo!Range, LoRing!Range, Lo!IsInjective,
     LoRing!IsInjective, Lo!LoopersNotStranded, LoRing!LoopersNotStranded
<1> QED BY <1>1, <1>2

\* The wait list of a lane is consistent, and the lane alone strands nobody.
LEMMA HiLaneOK == Hi!Spec => [](Hi!TypeOK /\ Hi!LoopersNotStranded)
<1>1. /\ Capacities \subseteq Nat /\ MaxEvents \in Nat /\ Workers \intersect {} = {}
      /\ HiRing!IsFiniteSet({})
  BY AsyncAssumption, FS_EmptySet DEF HiRing!IsFiniteSet, IsFiniteSet
<1>2. HiRing!Spec => []HiRing!TypeOK
  BY <1>1, HiRing!TypeCorrect
<1>3. HiRing!Spec => []HiRing!LoopersNotStranded
  BY <1>1, HiRing!LoopersNeverStranded
<1> QED BY <1>2, <1>3, SameHiRing, PTL

LEMMA LoLaneOK == Lo!Spec => [](Lo!TypeOK /\ Lo!LoopersNotStranded)
<1>1. /\ Capacities \subseteq Nat /\ MaxEvents \in Nat /\ Workers \intersect {} = {}
      /\ LoRing!IsFiniteSet({})
  BY AsyncAssumption, FS_EmptySet DEF LoRing!IsFiniteSet, IsFiniteSet
<1>2. LoRing!Spec => []LoRing!TypeOK
  BY <1>1, LoRing!TypeCorrect
<1>3. LoRing!Spec => []LoRing!LoopersNotStranded
  BY <1>1, LoRing!LoopersNeverStranded
<1> QED BY <1>2, <1>3, SameLoRing, PTL

\* A future that is pending, as the select leaves it.
Suspended == {"waiting", "notified"}

\* A parked worker has a pending pop in both lanes, one at the bot lane in the human lane.
ParkInv ==
    \A w \in Workers :
        /\ at[w] \in {"bot", "parked"} => hiPc[w] \in Suspended
        /\ at[w] = "parked" => loPc[w] \in Suspended

LanesOK ==
    /\ Hi!TypeOK /\ Hi!LoopersNotStranded
    /\ Lo!TypeOK /\ Lo!LoopersNotStranded

\* A pending pop of one worker stays pending, whatever the others do to the lane.
LEMMA OthersLeaveHi ==
  ASSUME Hi!TypeOK, NEW w \in Workers, hiPc[w] \in Suspended,
         \/ Hi!Push
         \/ \E v \in Workers \ {w} : Hi!Call(v) \/ Hi!AsyncStep(v) \/ Hi!Drop(v)
  PROVE  hiPc'[w] \in Suspended
<1> USE DEF Hi!TypeOK, Hi!Consumers, Suspended
<1>1. CASE Hi!Push
  BY <1>1 DEF Hi!Push, Hi!CondvarNotifyOne, Hi!NotifyOnePc
<1>2. CASE \E v \in Workers \ {w} : Hi!Call(v) \/ Hi!AsyncStep(v) \/ Hi!DropWaiting(v)
  BY <1>2
  DEF Hi!Call, Hi!AsyncStep, Hi!Take, Hi!SeeEmpty, Hi!PollPermit, Hi!PollWait, Hi!Resume,
      Hi!DropWaiting
<1>3. CASE \E v \in Workers \ {w} : Hi!DropNotified(v)
  BY <1>3 DEF Hi!DropNotified, Hi!NotifyOnePc
<1> QED BY <1>1, <1>2, <1>3 DEF Hi!Drop

LEMMA OthersLeaveLo ==
  ASSUME Lo!TypeOK, NEW w \in Workers, loPc[w] \in Suspended,
         \/ Lo!Push
         \/ \E v \in Workers \ {w} : Lo!Call(v) \/ Lo!AsyncStep(v) \/ Lo!Drop(v)
  PROVE  loPc'[w] \in Suspended
<1> USE DEF Lo!TypeOK, Lo!Consumers, Suspended
<1>1. CASE Lo!Push
  BY <1>1 DEF Lo!Push, Lo!CondvarNotifyOne, Lo!NotifyOnePc
<1>2. CASE \E v \in Workers \ {w} : Lo!Call(v) \/ Lo!AsyncStep(v) \/ Lo!DropWaiting(v)
  BY <1>2
  DEF Lo!Call, Lo!AsyncStep, Lo!Take, Lo!SeeEmpty, Lo!PollPermit, Lo!PollWait, Lo!Resume,
      Lo!DropWaiting
<1>3. CASE \E v \in Workers \ {w} : Lo!DropNotified(v)
  BY <1>3 DEF Lo!DropNotified, Lo!NotifyOnePc
<1> QED BY <1>1, <1>2, <1>3 DEF Lo!Drop
\* A worker parks with a pending pop in each lane, and nobody else takes it away.
LEMMA StepParks ==
  LifeInv /\ LanesOK /\ ParkInv /\ [Next]_asyncVars => ParkInv'
<1> SUFFICES ASSUME LifeInv, LanesOK, ParkInv, [Next]_asyncVars PROVE ParkInv'
  OBVIOUS
<1>0. at \in [Workers -> WorkerPositions]
  BY DEF LifeInv, PoolInv
<1>1. CASE PushLane
  <2>1. at' = at
    BY <1>1 DEF PushLane, ingestFrame, pool
  <2>2. CASE Hi!Push /\ UNCHANGED loVars
    BY <2>1, <2>2, OthersLeaveHi DEF ParkInv, LanesOK, loVars
  <2>3. CASE Lo!Push /\ UNCHANGED hiVars
    BY <2>1, <2>3, OthersLeaveLo DEF ParkInv, LanesOK, hiVars
  <2> QED BY <1>1, <2>2, <2>3 DEF PushLane
<1>2. ASSUME NEW v \in Workers, WorkerStep(v) PROVE ParkInv'
  <2> SUFFICES ASSUME NEW w \in Workers
               PROVE  /\ at'[w] \in {"bot", "parked"} => hiPc'[w] \in Suspended
                      /\ at'[w] = "parked" => loPc'[w] \in Suspended
    BY DEF ParkInv
  <2>1. CASE w # v
    <3>1. at'[w] = at[w]
      BY <1>0, <1>2, <2>1
      DEF WorkerStep, PollCancelled, PollCancelPending, HumanAdvance, HumanReady, HumanPending,
          BotAdvance, BotReady, BotPending, Wake, DropHuman, DropBot, Leave, Process, Finish
    <3>2. \/ hiPc' = hiPc
          \/ Hi!Call(v) \/ Hi!AsyncStep(v) \/ Hi!Drop(v)
      BY <1>2
      DEF WorkerStep, PollCancelled, PollCancelPending, HumanAdvance, HumanReady, HumanPending,
          BotAdvance, BotReady, BotPending, Wake, DropHuman, DropBot, Leave, Process, Finish,
          BeginHuman, HumanSuspends, Hi!AsyncStep, hiVars, lanes
    <3>3. \/ loPc' = loPc
          \/ Lo!Call(v) \/ Lo!AsyncStep(v) \/ Lo!Drop(v)
      BY <1>2
      DEF WorkerStep, PollCancelled, PollCancelPending, HumanAdvance, HumanReady, HumanPending,
          BotAdvance, BotReady, BotPending, Wake, DropHuman, DropBot, Leave, Process, Finish,
          BeginBot, Lo!AsyncStep, loVars, lanes
    <3>4. hiPc[w] \in Suspended => hiPc'[w] \in Suspended
      BY <2>1, <3>2, OthersLeaveHi DEF LanesOK
    <3>5. loPc[w] \in Suspended => loPc'[w] \in Suspended
      BY <2>1, <3>3, OthersLeaveLo DEF LanesOK
    <3> QED BY <3>1, <3>4, <3>5 DEF ParkInv
  <2>2. CASE w = v
    <3> USE <1>0, <2>2 DEF ParkInv
    <3>0. hiPc \in [Workers -> Hi!AsyncPositions \union Hi!BlockingPositions]
          /\ loPc \in [Workers -> Lo!AsyncPositions \union Lo!BlockingPositions]
      BY DEF LanesOK, Hi!TypeOK, Lo!TypeOK, Hi!Consumers, Lo!Consumers
    <3>1. CASE HumanPending(w)
      <4>1. at'[w] = "bot"
        BY <3>1 DEF HumanPending
      <4>2. hiPc'[w] \in Suspended
        BY <3>0, <3>1 DEF HumanPending, HumanSuspends, Hi!PollWait, hiVars, Suspended
      <4> QED BY <4>1, <4>2
    <3>2. CASE BotAdvance(w)
      BY <3>2 DEF BotAdvance, hiVars
    <3>3. CASE BotPending(w)
      <4>1. at[w] = "bot" /\ at'[w] = "parked" /\ hiPc' = hiPc
        BY <3>3 DEF BotPending, hiVars
      <4>2. loPc'[w] \in Suspended
        BY <3>0, <3>3 DEF BotPending, Lo!PollWait, loVars, Suspended
      <4> QED BY <4>1, <4>2
    <3>4. CASE \/ PollCancelled(w) \/ PollCancelPending(w) \/ HumanAdvance(w)
               \/ HumanReady(w) \/ BotReady(w) \/ Wake(w) \/ DropHuman(w) \/ DropBot(w)
               \/ Leave(w) \/ Process(w) \/ Finish(w)
      <4>1. at'[w] \notin {"bot", "parked"}
        BY <3>4
        DEF PollCancelled, PollCancelPending, HumanAdvance, HumanReady, BotReady, Wake,
            DropHuman, DropBot, Leave, Process, Finish
      <4> QED BY <4>1
    <3> QED BY <1>2, <3>1, <3>2, <3>3, <3>4 DEF WorkerStep
  <2> QED BY <2>1, <2>2
<1>3. CASE \/ StartIngest \/ StopIngest \/ ReceiveFrame \/ Reject \/ Shed
           \/ \E class \in Priorities : Accept(class)
           \/ SwitchMode \/ ExternalCancel \/ LbStep \/ LbExit
           \/ CancelWorkers \/ RequestSnapshot \/ DropSender \/ PrintSummary \/ DumpMetrics
           \/ UNCHANGED asyncVars
  <2>1. UNCHANGED <<at, hiPc, loPc>>
    BY <1>3 DEF StartIngest, StopIngest, ReceiveFrame, Reject, Shed, Accept, SwitchMode,
       ExternalCancel, LbStep, LbExit, LbFrame, CancelWorkers, RequestSnapshot, DropSender,
       PrintSummary, DumpMetrics, MainFrame, ingestFrame, pool, lanes, hiVars, loVars,
       asyncVars
  <2> QED BY <2>1 DEF ParkInv
<1> QED
  BY <1>1, <1>2, <1>3 DEF Next, MainStep

\* If every worker were parked with no notification, both wait lists would be full, both
\* permits unset, and a queued task would be stranded in its lane.
LEMMA ParkedPoolIsIdle ==
  ASSUME Workers # {}, LanesOK, ParkInv PROVE NoTaskStranded
<1> SUFFICES ASSUME \A w \in Workers : /\ at[w] = "parked"
                                       /\ hiPc[w] # "notified" /\ loPc[w] # "notified"
             PROVE  hiQueue = <<>> /\ loQueue = <<>>
  BY DEF NoTaskStranded
<1>1. \A w \in Workers : hiPc[w] = "waiting" /\ loPc[w] = "waiting"
  BY DEF ParkInv, Suspended
<1>2. hiQueue = <<>>
  <2>1. hiWaiters # <<>>
    BY <1>1 DEF LanesOK, Hi!TypeOK, Hi!WaitListOK, Hi!Range
  <2> QED
    BY <1>1, <2>1 DEF LanesOK, Hi!TypeOK, Hi!WaitListOK, Hi!LoopersNotStranded
<1>3. loQueue = <<>>
  <2>1. loWaiters # <<>>
    BY <1>1 DEF LanesOK, Lo!TypeOK, Lo!WaitListOK, Lo!Range
  <2> QED
    BY <1>1, <2>1 DEF LanesOK, Lo!TypeOK, Lo!WaitListOK, Lo!LoopersNotStranded
<1> QED BY <1>2, <1>3

\* With at least one worker, no queued task meets a pool that is all parked and not
\* notified: abandoning pops and sharing notifications between the two lanes is safe.
THEOREM AsyncStrandsNothing ==
  ASSUME Workers # {} PROVE Spec => []NoTaskStranded
<1>1. Init => LifeInv /\ ParkInv
  BY InitLives DEF Init, ParkInv
<1>2. LifeInv /\ [Next]_asyncVars => LifeInv'
  BY StepLives DEF Lives
<1>3. LifeInv /\ LanesOK /\ ParkInv /\ [Next]_asyncVars => ParkInv'
  BY StepParks
<1>4. LanesOK /\ ParkInv => NoTaskStranded
  BY ParkedPoolIsIdle
<1>5. Spec => []LanesOK
  BY AsyncUsesRings, HiLaneOK, LoLaneOK, PTL DEF LanesOK
<1> QED
  BY <1>1, <1>2, <1>3, <1>4, <1>5, PTL DEF Spec
-----------------------------------------------------------------------------
(* The printed leaderboard *)

Before == Ingesting \union {"stop", "request"}
After == {"release", "await"} \union Reporting

OnlyUpdates == \A i \in 1..Len(channel) : channel[i] = "update"

\* The request stands in the channel behind the accepted updates not yet counted.
Requested ==
    \E i \in 1..Len(channel) :
        /\ channel[i] = "snapshot"
        /\ \A j \in 1..Len(channel) : j # i => channel[j] = "update"
        /\ accepted = counted + i - 1

BoardInv ==
    /\ channel \in Seq(Lb!Messages) /\ counted \in Nat /\ accepted \in Nat
    /\ main \in Before => OnlyUpdates /\ accepted = counted + Len(channel)
    /\ main \in After => (OnlyUpdates /\ reply = accepted) \/ Requested
    /\ ~lbUp => channel = <<>> /\ main \notin Before \union {"release"}

\* Behind the request updates may follow, which nobody counts as accepted.
LEMMA SendKeepsBoard ==
  ASSUME LifeInv, BoardInv, lbUp, Lb!Send("update"), main' = main,
         accepted' = IF main \in Before THEN accepted + 1 ELSE accepted
  PROVE  BoardInv'
<1>1. /\ channel' = Append(channel, "update") /\ UNCHANGED <<lbUp, counted, reply>>
  BY DEF Lb!Send, Lb!Sent
<1>2. /\ channel' \in Seq(Lb!Messages) /\ Len(channel') = Len(channel) + 1
      /\ Len(channel) \in Nat
      /\ \A i \in 1..Len(channel) : channel'[i] = channel[i]
      /\ channel'[Len(channel) + 1] = "update"
  BY <1>1 DEF BoardInv, Lb!Messages
<1>3. OnlyUpdates => OnlyUpdates'
  BY <1>2 DEF OnlyUpdates
<1>4. ASSUME main \notin Before, Requested PROVE Requested'
  BY <1>1, <1>2, <1>4 DEF Requested
<1>5. CASE main \in Before
  <2>1. main \notin After
    BY <1>5 DEF Before, After, Ingesting, Reporting
  <2> QED BY <1>1, <1>2, <1>3, <1>5, <2>1 DEF BoardInv
<1>6. CASE main \notin Before
  BY <1>1, <1>2, <1>3, <1>4, <1>6 DEF BoardInv
<1> QED BY <1>5, <1>6

\* The actor counts the updates before it answers the request.
LEMMA ActorKeepsBoard ==
  ASSUME LifeInv, BoardInv, LbStep \/ LbExit PROVE BoardInv'
<1>1. main' = main /\ accepted' = accepted
  BY DEF LbStep, LbExit, LbFrame
<1>2. ASSUME NEW m \in Lb!Messages, lbUp, channel # <<>>, Head(channel) = m,
             channel' = Tail(channel)
      PROVE  /\ channel' \in Seq(Lb!Messages) /\ Len(channel') = Len(channel) - 1
             /\ Len(channel) \in Nat \ {0} /\ channel[1] = m
             /\ \A i \in 1..Len(channel') : channel'[i] = channel[i + 1]
  BY <1>2 DEF BoardInv
<1>3. CASE Lb!CountUpdate
  <2>1. /\ lbUp /\ channel # <<>> /\ Head(channel) = "update" /\ channel' = Tail(channel)
        /\ counted' = counted + 1 /\ UNCHANGED <<lbUp, reply>>
    BY <1>3 DEF Lb!CountUpdate
  <2>2. /\ channel' \in Seq(Lb!Messages) /\ Len(channel') = Len(channel) - 1
        /\ Len(channel) \in Nat \ {0} /\ channel[1] = "update"
        /\ \A i \in 1..Len(channel') : channel'[i] = channel[i + 1]
    BY <1>2, <2>1 DEF Lb!Messages
  <2>3. OnlyUpdates => OnlyUpdates'
    BY <2>2 DEF OnlyUpdates
  <2>4. ASSUME Requested PROVE Requested'
    <3>1. PICK i \in 1..Len(channel) :
             /\ channel[i] = "snapshot"
             /\ \A j \in 1..Len(channel) : j # i => channel[j] = "update"
             /\ accepted = counted + i - 1
      BY <2>4 DEF Requested
    <3>2. i # 1
      BY <2>2, <3>1
    <3>3. /\ i - 1 \in 1..Len(channel') /\ channel'[i - 1] = "snapshot"
          /\ \A j \in 1..Len(channel') : j # i - 1 => channel'[j] = "update"
          /\ accepted' = counted' + (i - 1) - 1
      BY <1>1, <2>1, <2>2, <3>1, <3>2 DEF BoardInv
    <3> QED BY <3>3 DEF Requested
  <2> QED BY <1>1, <2>1, <2>2, <2>3, <2>4 DEF BoardInv
<1>4. CASE Lb!AnswerSnapshot
  <2>1. /\ lbUp /\ channel # <<>> /\ Head(channel) = "snapshot" /\ channel' = Tail(channel)
        /\ reply' = counted /\ UNCHANGED <<lbUp, counted>>
    BY <1>4 DEF Lb!AnswerSnapshot
  <2>2. /\ channel' \in Seq(Lb!Messages) /\ Len(channel') = Len(channel) - 1
        /\ Len(channel) \in Nat \ {0} /\ channel[1] = "snapshot"
        /\ \A i \in 1..Len(channel') : channel'[i] = channel[i + 1]
    BY <1>2, <2>1 DEF Lb!Messages
  <2>3. ~OnlyUpdates
    BY <2>2 DEF OnlyUpdates
  <2>4. ASSUME Requested PROVE OnlyUpdates' /\ reply' = accepted'
    <3>1. PICK i \in 1..Len(channel) :
             /\ channel[i] = "snapshot"
             /\ \A j \in 1..Len(channel) : j # i => channel[j] = "update"
             /\ accepted = counted + i - 1
      BY <2>4 DEF Requested
    <3>2. i = 1
      BY <2>2, <3>1
    <3> QED BY <1>1, <2>1, <2>2, <3>1, <3>2 DEF OnlyUpdates, BoardInv
  <2> QED BY <1>1, <2>1, <2>2, <2>3, <2>4 DEF BoardInv
<1>5. CASE LbExit
  <2>1. /\ channel = <<>> /\ UNCHANGED <<channel, counted, reply>>
        /\ main \in {"await", "failed"} \union Reporting
    BY <1>5 DEF LbExit, SendersDropped, Lb!Exit
  <2>2. main \notin Before \union {"release"}
    BY <2>1 DEF Before, Ingesting, Reporting
  <2> QED BY <1>1, <2>1, <2>2 DEF BoardInv, OnlyUpdates, Requested
<1> QED BY <1>3, <1>4, <1>5 DEF LbStep, Lb!Step
\* Whoever does not touch the board keeps what is known of it, unless main enters After.
LEMMA StepKeepsBoard ==
  LifeInv /\ BoardInv /\ [Next]_asyncVars => BoardInv'
<1> SUFFICES ASSUME LifeInv, BoardInv, [Next]_asyncVars PROVE BoardInv'
  OBVIOUS
<1> USE DEF Before, After, Ingesting, Reporting
<1>1. CASE LbStep \/ LbExit
  BY <1>1, ActorKeepsBoard
<1>2. ASSUME NEW w \in Workers, Process(w) PROVE BoardInv'
  <2>1. main' = main
    BY <1>2 DEF Process
  <2>2. CASE UNCHANGED board
    BY <2>1, <2>2 DEF board, lbVars, BoardInv, OnlyUpdates, Requested
  <2>3. CASE Lb!Send("update")
            /\ accepted' = IF main \in Before THEN accepted + 1 ELSE accepted
    <3>1. lbUp
      BY <1>2 DEF Process, LifeInv, Gone
    <3> QED BY <2>1, <2>3, <3>1, SendKeepsBoard
  <2> QED BY <1>2, <2>2, <2>3 DEF Process
<1>3. CASE RequestSnapshot
  <2>1. /\ main = "request" /\ main' = "release" /\ accepted' = accepted
        /\ channel' = Append(channel, "snapshot") /\ UNCHANGED <<lbUp, counted, reply>>
    BY <1>3 DEF RequestSnapshot, Lb!Send, Lb!Sent
  <2>2. /\ channel' \in Seq(Lb!Messages) /\ Len(channel') = Len(channel) + 1
        /\ Len(channel) \in Nat
        /\ \A i \in 1..Len(channel) : channel'[i] = channel[i]
        /\ channel'[Len(channel) + 1] = "snapshot"
    BY <2>1 DEF BoardInv, Lb!Messages
  <2>3. OnlyUpdates /\ accepted = counted + Len(channel) /\ lbUp
    BY <2>1 DEF BoardInv
  <2>4. Requested'
    <3>1. /\ Len(channel) + 1 \in 1..Len(channel') /\ channel'[Len(channel) + 1] = "snapshot"
          /\ \A j \in 1..Len(channel') : j # Len(channel) + 1 => channel'[j] = "update"
          /\ accepted' = counted' + (Len(channel) + 1) - 1
      BY <2>1, <2>2, <2>3 DEF OnlyUpdates, BoardInv
    <3> QED BY <3>1 DEF Requested
  <2> QED BY <2>1, <2>2, <2>3, <2>4 DEF BoardInv
<1>4. ASSUME UNCHANGED board,
             main' = main \/ (main \in Before /\ main' \in Before \union {"failed"})
                         \/ (main = "release" /\ main' = "await")
                         \/ (main \in {"await"} \union Reporting /\ main' \in Reporting)
      PROVE  BoardInv'
  BY <1>4 DEF board, lbVars, BoardInv, OnlyUpdates, Requested
<1>5. CASE \/ StartIngest \/ StopIngest \/ ReceiveFrame \/ Reject \/ Shed
           \/ \E class \in Priorities : Accept(class)
           \/ PushLane \/ SwitchMode \/ ExternalCancel
           \/ CancelWorkers \/ DropSender \/ PrintSummary \/ DumpMetrics
           \/ UNCHANGED asyncVars
  BY <1>4, <1>5
  DEF StartIngest, StopIngest, ReceiveFrame, Reject, Shed, Accept, PushLane, AfterSink,
      SwitchMode, ExternalCancel, CancelWorkers, DropSender, PrintSummary, DumpMetrics,
      ingestFrame, asyncVars
<1>6. ASSUME NEW w \in Workers, WorkerStep(w), ~Process(w) PROVE BoardInv'
  <2>1. UNCHANGED board /\ main' = main
    BY <1>6
    DEF WorkerStep, PollCancelled, PollCancelPending, HumanAdvance, HumanReady, HumanPending,
        BotAdvance, BotReady, BotPending, Wake, DropHuman, DropBot, Leave, Finish, workerFrame
  <2> QED BY <1>4, <2>1
<1> QED
  BY <1>1, <1>2, <1>3, <1>5, <1>6 DEF Next, MainStep

\* The leaderboard that is printed covers what had been accepted before the request, the
\* actor and the workers running meanwhile, for every capacity of its channel.
THEOREM AsyncSnapshotComplete == Spec => []SnapshotCoversEarlier
<1>1. Init => LifeInv /\ BoardInv
  BY InitLives
  DEF Init, Lb!Init, BoardInv, OnlyUpdates, Before, After, Ingesting, Reporting
<1>2. LifeInv /\ [Next]_asyncVars => LifeInv'
  BY StepLives DEF Lives
<1>3. LifeInv /\ BoardInv /\ [Next]_asyncVars => BoardInv'
  BY StepKeepsBoard
<1>4. LifeInv /\ BoardInv => SnapshotCoversEarlier
  BY DEF LifeInv, BoardInv, SnapshotCoversEarlier, Requested, After
<1> QED
  BY <1>1, <1>2, <1>3, <1>4, PTL DEF Spec
-----------------------------------------------------------------------------
(* The summary: what the parser, the lanes, the workers and the store count agrees *)

\* A sum over the two priorities, as the fold of Metrics computes it.
LEMMA TotalOfTwo ==
  ASSUME NEW f, f[Human] \in Nat, f[Bot] \in Nat
  PROVE  M!Total(f) = f[Human] + f[Bot]
<1> DEFINE First(s) == CHOOSE c \in s : TRUE
           Sums(g) == g = [s \in SUBSET Priorities |->
                             IF s = {} THEN 0 ELSE f[First(s)] + g[s \ {First(s)}]]
           sum == [s \in SUBSET Priorities |->
                     (IF Human \in s THEN f[Human] ELSE 0) + (IF Bot \in s THEN f[Bot] ELSE 0)]
<1>1. Sums(sum)
  <2>1. ASSUME NEW s \in SUBSET Priorities, s # {}
        PROVE  sum[s] = f[First(s)] + sum[s \ {First(s)}]
    <3>1. PICK c \in s : c = First(s)
      BY <2>1
    <3>2. sum[s] = f[c] + sum[s \ {c}]
      BY DEF Priorities, Human, Bot
    <3> QED BY <3>1, <3>2
  <2>2. sum[{}] = 0
    OBVIOUS
  <2> QED BY <2>1, <2>2, Zenon
<1>2. PICK g : g = CHOOSE k : Sums(k)
  OBVIOUS
<1>3. Sums(g)
  <2> HIDE DEF Sums, sum
  <2> QED BY <1>1, <1>2
<1>4. M!Total(f) = g[Priorities]
  BY <1>2 DEF M!Total, M!MapThenSumSet, M!MapThenFoldSet
<1>5. g[{}] = 0
  BY <1>3
<1>6. ASSUME NEW s \in SUBSET Priorities, s # {}
      PROVE  \E c \in s : g[s] = f[c] + g[s \ {c}]
  BY <1>3, <1>6
<1> HIDE DEF Sums, sum
<1>7. g[{Human}] = f[Human] /\ g[{Bot}] = f[Bot]
  <2>1. {Human} \ {Human} = {} /\ {Bot} \ {Bot} = {}
    OBVIOUS
  <2> QED BY <1>5, <1>6, <2>1 DEF Priorities
<1>8. g[Priorities] = f[Human] + g[{Bot}] \/ g[Priorities] = f[Bot] + g[{Human}]
  <2>1. Priorities \ {Human} = {Bot} /\ Priorities \ {Bot} = {Human}
    BY DEF Priorities, Human, Bot
  <2> QED BY <1>6, <2>1 DEF Priorities
<1> QED BY <1>4, <1>7, <1>8

\* record_drift and record_jitter keep the types, and leave one sample each: in its
\* histogram, or among those refused.
LEMMA DriftRecorded ==
  ASSUME M!BooksTypeOK, NEW c \in Priorities, M!RecordDrift(c)
  PROVE  /\ M!BooksTypeOK' /\ UNCHANGED report
         /\ \A d \in Priorities : metrics'.drift[d] + unrecorded'.drift[d]
              = metrics.drift[d] + unrecorded.drift[d] + (IF d = c THEN 1 ELSE 0)
         /\ metrics'.jitter = metrics.jitter /\ unrecorded'.jitter = unrecorded.jitter
<1> USE DEF M!BooksTypeOK
<1>1. ASSUME NEW f \in [Priorities -> Nat]
      PROVE  /\ [f EXCEPT ![c] = @ + 1] \in [Priorities -> Nat]
             /\ \A d \in Priorities :
                  [f EXCEPT ![c] = @ + 1][d] = f[d] + (IF d = c THEN 1 ELSE 0)
  OBVIOUS
<1>2. CASE metrics' = [metrics EXCEPT !.drift[c] = @ + 1] /\ UNCHANGED unrecorded
  <2> DEFINE g == [metrics.drift EXCEPT ![c] = @ + 1]
  <2>1. metrics' = [metrics EXCEPT !.drift = g]
    BY <1>2
  <2>2. /\ g \in [Priorities -> Nat]
        /\ \A d \in Priorities : g[d] = metrics.drift[d] + (IF d = c THEN 1 ELSE 0)
    BY <1>1
  <2> HIDE DEF g
  <2>3. /\ metrics' \in [drift : [Priorities -> Nat], jitter : Nat,
                         deadline_miss : [Priorities -> Nat], overflow_count : {0}]
        /\ metrics'.drift = g /\ metrics'.jitter = metrics.jitter
    BY <2>1, <2>2
  <2> QED BY <1>2, <2>2, <2>3 DEF M!RecordDrift
<1>3. CASE unrecorded' = [unrecorded EXCEPT !.drift[c] = @ + 1] /\ UNCHANGED metrics
  <2> DEFINE g == [unrecorded.drift EXCEPT ![c] = @ + 1]
  <2>1. unrecorded' = [unrecorded EXCEPT !.drift = g]
    BY <1>3
  <2>2. /\ g \in [Priorities -> Nat]
        /\ \A d \in Priorities : g[d] = unrecorded.drift[d] + (IF d = c THEN 1 ELSE 0)
    BY <1>1
  <2> HIDE DEF g
  <2>3. /\ unrecorded' \in [drift : [Priorities -> Nat], jitter : Nat]
        /\ unrecorded'.drift = g /\ unrecorded'.jitter = unrecorded.jitter
    BY <2>1, <2>2
  <2> QED BY <1>3, <2>2, <2>3 DEF M!RecordDrift
<1> QED BY <1>2, <1>3 DEF M!RecordDrift

LEMMA JitterRecorded ==
  ASSUME M!BooksTypeOK, NEW c \in Priorities, M!RecordJitter(c)
  PROVE  /\ M!BooksTypeOK' /\ UNCHANGED report
         /\ metrics'.drift = metrics.drift /\ unrecorded'.drift = unrecorded.drift
<1> USE DEF M!BooksTypeOK
<1> DEFINE g == [metrics.deadline_miss EXCEPT ![c] = @ + 1]
<1>1. g \in [Priorities -> Nat]
  OBVIOUS
<1>2. /\ [metrics EXCEPT !.deadline_miss[c] = @ + 1] = [metrics EXCEPT !.deadline_miss = g]
      /\ [metrics EXCEPT !.jitter = @ + 1, !.deadline_miss[c] = @ + 1]
           = [metrics EXCEPT !.jitter = @ + 1, !.deadline_miss = g]
  OBVIOUS
<1>3. \/ /\ metrics' = [metrics EXCEPT !.jitter = @ + 1]
         /\ UNCHANGED unrecorded
      \/ /\ metrics' = [metrics EXCEPT !.jitter = @ + 1, !.deadline_miss = g]
         /\ UNCHANGED unrecorded
      \/ /\ metrics' = [metrics EXCEPT !.deadline_miss = g]
         /\ unrecorded' = [unrecorded EXCEPT !.jitter = @ + 1]
  BY <1>2 DEF M!RecordJitter
<1>4. UNCHANGED report
  BY DEF M!RecordJitter
<1> HIDE DEF g
<1>5. CASE /\ metrics' = [metrics EXCEPT !.jitter = @ + 1]
           /\ UNCHANGED unrecorded
  BY <1>4, <1>5
<1>6. CASE /\ metrics' = [metrics EXCEPT !.jitter = @ + 1, !.deadline_miss = g]
           /\ UNCHANGED unrecorded
  <2> DEFINE m == [metrics EXCEPT !.jitter = @ + 1]
  <2>1. /\ m \in [drift : [Priorities -> Nat], jitter : Nat,
                  deadline_miss : [Priorities -> Nat], overflow_count : {0}]
        /\ m.drift = metrics.drift
    OBVIOUS
  <2>2. metrics' = [m EXCEPT !.deadline_miss = g]
    BY <1>6
  <2> HIDE DEF m
  <2>3. /\ metrics' \in [drift : [Priorities -> Nat], jitter : Nat,
                         deadline_miss : [Priorities -> Nat], overflow_count : {0}]
        /\ metrics'.drift = m.drift
    BY <1>1, <2>1, <2>2
  <2> QED BY <1>4, <1>6, <2>1, <2>3
<1>7. CASE /\ metrics' = [metrics EXCEPT !.deadline_miss = g]
           /\ unrecorded' = [unrecorded EXCEPT !.jitter = @ + 1]
  BY <1>1, <1>4, <1>7
<1> QED BY <1>3, <1>5, <1>6, <1>7

\* A set of workers that one worker enters or leaves.
LEMMA OneMoreOrLess ==
  ASSUME NEW S \in SUBSET Workers, NEW w \in Workers
  PROVE  /\ Cardinality(S) \in Nat
         /\ w \notin S => Cardinality(S \union {w}) = Cardinality(S) + 1
         /\ w \in S => Cardinality(S \ {w}) = Cardinality(S) - 1
<1>1. IsFiniteSet(S)
  BY AsyncAssumption, FS_Subset
<1> QED BY <1>1, FS_CardinalityType, FS_AddElement, FS_RemoveElement

\* The workers that have a task of this class and have not recorded its drift.
Owed(class) == {w \in Workers : hand[w] = class /\ at[w] # "timed"}

Served == [c \in Priorities |-> IF c = Human THEN Len(hiReceived) ELSE Len(loReceived)]

\* Each task pushed into a lane is overwritten, in the lane, or popped.
LanesCount ==
    /\ hiReceived \in Seq(Nat) /\ loReceived \in Seq(Nat)
    /\ hiPushed = HiDropped + Len(hiQueue) + Len(hiReceived)
    /\ loPushed = LoDropped + Len(loQueue) + Len(loReceived)

\* Each frame is malformed, parsed or being looked at; each event parsed is shed, pushed or
\* about to be pushed.
ParserCounts ==
    /\ incoming \in Priorities \union {None}
    /\ incoming # None <=> main = "push"
    /\ tally.received = tally.malformed + tally.parsed + (IF main = "frame" THEN 1 ELSE 0)
    /\ tally.parsed = tally.shed + (hiPushed + loPushed) + (IF main = "push" THEN 1 ELSE 0)

\* Each popped task has left its samples, or a worker still owes them.
BooksCount ==
    /\ M!BooksTypeOK
    /\ \A c \in Priorities :
          metrics.drift[c] + unrecorded.drift[c] + Cardinality(Owed(c)) = Served[c]
    /\ Done + Cardinality(Busy) = Served[Human] + Served[Bot]

\* Nothing is written before the shutdown; afterwards what the store still says.
ReportsCurrent ==
    /\ report.printed = IF main \in Reporting THEN <<M!Printed>> ELSE <<>>
    /\ report.csv \in IF main \in Reporting THEN {<<>>, <<M!Csv>>} ELSE {<<>>}
    /\ report.hgrm \in IF main \in Reporting THEN {<<>>, <<M!Hgrm>>} ELSE {<<>>}

SummaryInv == LanesCount /\ ParserCounts /\ BooksCount /\ ReportsCurrent

LanesKept == LanesStay /\ UNCHANGED <<hiReceived, loReceived>>

\* What a step leaves alone stays counted.
LEMMA CountsStay ==
  /\ LanesCount /\ LanesKept => LanesCount' /\ Served' = Served
  /\ ParserCounts /\ LanesKept /\ UNCHANGED <<incoming, main, tally>> => ParserCounts'
  /\ BooksCount /\ BooksStay /\ UNCHANGED report /\ Served' = Served
       /\ Busy' = Busy /\ (\A c \in Priorities : Owed(c)' = Owed(c)) => BooksCount'
  /\ ReportsCurrent /\ BooksStay /\ UNCHANGED report
       /\ (main' \in Reporting <=> main \in Reporting) => ReportsCurrent'
<1>1. ASSUME LanesCount, LanesKept PROVE LanesCount' /\ Served' = Served
  BY <1>1 DEF LanesCount, LanesKept, LanesStay, Served, HiDropped, LoDropped
<1>2. ASSUME ParserCounts, LanesKept, UNCHANGED <<incoming, main, tally>> PROVE ParserCounts'
  BY <1>2 DEF ParserCounts, LanesKept, LanesStay
<1>3. ASSUME BooksCount, BooksStay, UNCHANGED report, Served' = Served, Busy' = Busy,
             \A c \in Priorities : Owed(c)' = Owed(c)
      PROVE  BooksCount'
  BY <1>3 DEF BooksCount, BooksStay, M!BooksTypeOK, Done
<1>4. ASSUME ReportsCurrent, BooksStay, UNCHANGED report,
             main' \in Reporting <=> main \in Reporting
      PROVE  ReportsCurrent'
  <2>1. M!Printed' = M!Printed /\ M!Csv' = M!Csv /\ M!Hgrm' = M!Hgrm
    BY <1>4 DEF BooksStay, M!Printed, M!Csv, M!Hgrm
  <2> QED BY <1>4, <2>1 DEF ReportsCurrent
<1> QED BY <1>1, <1>2, <1>3, <1>4

\* The parser counts what it receives and what it makes of it.
LEMMA ParserStepCounts ==
  ASSUME LifeInv, SummaryInv,
         \/ StartIngest \/ StopIngest \/ ReceiveFrame \/ Reject \/ Shed
         \/ \E class \in Priorities : Accept(class)
  PROVE  SummaryInv'
<1>1. LanesKept /\ BooksStay /\ UNCHANGED <<at, hand, report>>
  BY DEF StartIngest, StopIngest, ReceiveFrame, Reject, Shed, Accept, ingestFrame, lanes,
         hiVars, loVars, LanesKept, LanesStay, pool, books, BooksStay
<1>2. main' \notin Reporting /\ main \notin Reporting
  BY DEF StartIngest, StopIngest, ReceiveFrame, Reject, Shed, Accept, AfterSink, Reporting
<1>3. Busy' = Busy /\ \A c \in Priorities : Owed(c)' = Owed(c)
  BY <1>1 DEF Busy, Owed
<1>4. LanesCount' /\ BooksCount' /\ ReportsCurrent'
  BY <1>1, <1>2, <1>3, CountsStay DEF SummaryInv
<1>5. ParserCounts'
  <2>0. tally \in Tallies /\ LanesInv
    BY DEF LifeInv
  <2>5. /\ Parsed \in Tallies /\ Parsed.received = tally.received
        /\ Parsed.malformed = tally.malformed /\ Parsed.shed = tally.shed
        /\ Parsed.parsed = tally.parsed + 1
    BY <2>0 DEF Parsed, Tallies
  <2> USE DEF SummaryInv, ParserCounts, LanesKept, LanesStay, LanesInv
  <2>1. CASE StartIngest
    BY <1>1, <2>1 DEF StartIngest
  <2>2. CASE StopIngest
    BY <1>1, <2>2 DEF StopIngest
  <2>3. CASE ReceiveFrame
    <3>1. /\ tally'.received = tally.received + 1 /\ tally'.malformed = tally.malformed
          /\ tally'.parsed = tally.parsed /\ tally'.shed = tally.shed
      BY <2>0, <2>3 DEF ReceiveFrame, Tallies
    <3> QED BY <1>1, <2>0, <2>3, <3>1 DEF ReceiveFrame, Tallies
  <2>4. CASE Reject
    <3>1. /\ tally'.received = tally.received /\ tally'.malformed = tally.malformed + 1
          /\ tally'.parsed = tally.parsed /\ tally'.shed = tally.shed
      BY <2>0, <2>4 DEF Reject, Tallies
    <3>2. main = "frame" /\ main' \in {"select", "stop"} /\ incoming' = incoming
      BY <2>4 DEF Reject, AfterSink
    <3>3. /\ tally.received = tally.malformed + tally.parsed + 1
          /\ tally.parsed = tally.shed + (hiPushed + loPushed)
      BY <2>0, <3>2 DEF Tallies
    <3>4. /\ tally'.received = tally'.malformed + tally'.parsed
          /\ tally'.parsed = tally'.shed + (hiPushed' + loPushed')
      BY <1>1, <2>0, <3>1, <3>3 DEF Tallies
    <3> QED BY <1>1, <2>0, <3>1, <3>2, <3>4 DEF Tallies
  <2>6. CASE Shed
    <3> DEFINE p == Parsed
    <3>1. tally' = [p EXCEPT !.shed = @ + 1]
      BY <2>6 DEF Shed
    <3> HIDE DEF p
    <3>2. p \in Tallies
      BY <2>5 DEF p
    <3>3. /\ tally'.received = p.received /\ tally'.malformed = p.malformed
          /\ tally'.parsed = p.parsed /\ tally'.shed = p.shed + 1
      BY <3>1, <3>2 DEF Tallies
    <3>4. main = "frame" /\ main' \in {"select", "stop"} /\ incoming' = incoming
      BY <2>6 DEF Shed, AfterSink
    <3>5. /\ tally'.received = tally.received /\ tally'.malformed = tally.malformed
          /\ tally'.parsed = tally.parsed + 1 /\ tally'.shed = tally.shed + 1
      BY <2>5, <3>3 DEF p
    <3>6. /\ tally.received = tally.malformed + tally.parsed + 1
          /\ tally.parsed = tally.shed + (hiPushed + loPushed)
      BY <2>0, <3>4 DEF Tallies
    <3>7. /\ tally'.received = tally'.malformed + tally'.parsed
          /\ tally'.parsed = tally'.shed + (hiPushed' + loPushed')
      <4>1. PICK n \in Nat : n = hiPushed + loPushed
        BY <2>0
      <4>2. hiPushed' + loPushed' = n
        BY <1>1, <4>1
      <4>3. /\ tally.parsed + 1 = tally.shed + 1 + n
            /\ tally.received = tally.malformed + (tally.parsed + 1)
        BY <2>0, <3>6, <4>1 DEF Tallies
      <4> HIDE DEF SummaryInv, ParserCounts, LanesKept, LanesStay, LanesInv
      <4> QED BY <3>5, <4>2, <4>3
    <3> QED BY <1>1, <2>0, <3>4, <3>5, <3>7 DEF Tallies
  <2>7. CASE \E class \in Priorities : Accept(class)
    <3>1. /\ tally' = Parsed /\ main = "frame" /\ main' = "push"
          /\ incoming' \in Priorities
      BY <2>7 DEF Accept
    <3>2. /\ tally'.received = tally.received /\ tally'.malformed = tally.malformed
          /\ tally'.parsed = tally.parsed + 1 /\ tally'.shed = tally.shed
      BY <2>5, <3>1
    <3> QED BY <1>1, <2>0, <3>1, <3>2 DEF Tallies, Priorities, Human, Bot, None
  <2> QED BY <2>1, <2>2, <2>3, <2>4, <2>6, <2>7
<1> QED BY <1>4, <1>5 DEF SummaryInv

\* A task enters a lane, or leaves it towards a worker.
LEMMA LaneCounts ==
  ASSUME LanesInv, LanesCount
  PROVE  /\ (Hi!Push /\ UNCHANGED loVars) \/ (Lo!Push /\ UNCHANGED hiVars) =>
              /\ LanesCount' /\ Served' = Served
              /\ hiPushed' + loPushed' = hiPushed + loPushed + 1
         /\ \A w \in Workers :
              /\ Hi!Take(w) /\ UNCHANGED loVars =>
                   /\ LanesCount' /\ UNCHANGED <<hiPushed, loPushed>>
                   /\ Served' = [Served EXCEPT ![Human] = @ + 1]
              /\ Lo!Take(w) /\ UNCHANGED hiVars =>
                   /\ LanesCount' /\ UNCHANGED <<hiPushed, loPushed>>
                   /\ Served' = [Served EXCEPT ![Bot] = @ + 1]
<1> USE AsyncAssumption DEF LanesInv, LanesCount
<1>1. ASSUME NEW q \in Seq(Nat), NEW x \in Nat
      PROVE  /\ Append(q, x) \in Seq(Nat) /\ Len(Append(q, x)) = Len(q) + 1
             /\ q # <<>> => /\ Len(Append(Tail(q), x)) = Len(q)
                           /\ Tail(q) \in Seq(Nat) /\ Len(Tail(q)) = Len(q) - 1
                           /\ Head(q) \in Nat
  OBVIOUS
<1>2. ASSUME Hi!Push, UNCHANGED loVars
      PROVE  /\ LanesCount' /\ Served' = Served
             /\ hiPushed' + loPushed' = hiPushed + loPushed + 1
  <2>1. /\ hiPushed' = hiPushed + 1 /\ LanesInv'
        /\ UNCHANGED <<hiReceived, loQueue, LoDropped, loPushed, loReceived>>
        /\ \/ Len(hiQueue') = Len(hiQueue) + 1 /\ HiDropped' = HiDropped
           \/ Len(hiQueue') = Len(hiQueue) /\ HiDropped' = HiDropped + 1
    BY <1>2, PushToHi
  <2>2. LanesCount' /\ Served' = Served
    <3>1. /\ HiDropped \in Nat /\ Len(hiQueue) \in Nat /\ Len(hiReceived) \in Nat
      OBVIOUS
    <3>2. HiDropped' + Len(hiQueue') = HiDropped + Len(hiQueue) + 1
      <4> HIDE DEF LanesInv, LanesCount
      <4>1. PICK e, j \in Nat : e = HiDropped /\ j = Len(hiQueue)
        BY <3>1
      <4>2. CASE Len(hiQueue') = Len(hiQueue) + 1 /\ HiDropped' = HiDropped
        <5>1. e + (j + 1) = e + j + 1
          OBVIOUS
        <5> QED BY <4>1, <4>2, <5>1
      <4>3. CASE Len(hiQueue') = Len(hiQueue) /\ HiDropped' = HiDropped + 1
        <5>1. (e + 1) + j = e + j + 1
          OBVIOUS
        <5> QED BY <4>1, <4>3, <5>1
      <4> QED BY <2>1, <4>2, <4>3
    <3>3. HiDropped' \in Nat /\ Len(hiQueue') \in Nat
      BY <2>1 DEF LanesInv
    <3>4. hiPushed' = HiDropped' + Len(hiQueue') + Len(hiReceived')
      <4> HIDE DEF LanesInv
      <4>1. PICK d, k, m \in Nat : /\ d = HiDropped' /\ k = Len(hiQueue')
                                  /\ m = Len(hiReceived)
        BY <3>1, <3>3
      <4>2. PICK e, j \in Nat : e = HiDropped /\ j = Len(hiQueue)
        BY <3>1
      <4>3. d + k = e + j + 1 /\ hiPushed' = e + j + m + 1 /\ hiReceived' = hiReceived
        BY <2>1, <3>2, <4>1, <4>2
      <4>4. hiPushed' = d + k + m
        BY <4>3
      <4> QED BY <4>1, <4>3, <4>4
    <3>5. loPushed' = LoDropped' + Len(loQueue') + Len(loReceived')
      BY <2>1
    <3>6. hiReceived' \in Seq(Nat) /\ loReceived' \in Seq(Nat)
      BY <2>1
    <3>7. Served' = Served
      BY <2>1 DEF Served
    <3> HIDE DEF LanesInv
    <3> QED BY <3>4, <3>5, <3>6, <3>7
  <2>3. hiPushed \in Nat /\ loPushed \in Nat
    OBVIOUS
  <2>4. hiPushed' + loPushed' = hiPushed + loPushed + 1
    <3> HIDE DEF LanesInv, LanesCount
    <3> QED BY <2>1, <2>3
  <2> QED BY <2>2, <2>4
<1>3. ASSUME Lo!Push, UNCHANGED hiVars
      PROVE  /\ LanesCount' /\ Served' = Served
             /\ hiPushed' + loPushed' = hiPushed + loPushed + 1
  <2>1. /\ loPushed' = loPushed + 1 /\ LanesInv'
        /\ UNCHANGED <<loReceived, hiQueue, HiDropped, hiPushed, hiReceived>>
        /\ \/ Len(loQueue') = Len(loQueue) + 1 /\ LoDropped' = LoDropped
           \/ Len(loQueue') = Len(loQueue) /\ LoDropped' = LoDropped + 1
    BY <1>3, PushToLo
  <2>2. LanesCount' /\ Served' = Served
    <3>1. /\ LoDropped \in Nat /\ Len(loQueue) \in Nat /\ Len(loReceived) \in Nat
      OBVIOUS
    <3>2. LoDropped' + Len(loQueue') = LoDropped + Len(loQueue) + 1
      <4> HIDE DEF LanesInv, LanesCount
      <4>1. PICK e, j \in Nat : e = LoDropped /\ j = Len(loQueue)
        BY <3>1
      <4>2. CASE Len(loQueue') = Len(loQueue) + 1 /\ LoDropped' = LoDropped
        <5>1. e + (j + 1) = e + j + 1
          OBVIOUS
        <5> QED BY <4>1, <4>2, <5>1
      <4>3. CASE Len(loQueue') = Len(loQueue) /\ LoDropped' = LoDropped + 1
        <5>1. (e + 1) + j = e + j + 1
          OBVIOUS
        <5> QED BY <4>1, <4>3, <5>1
      <4> QED BY <2>1, <4>2, <4>3
    <3>3. LoDropped' \in Nat /\ Len(loQueue') \in Nat
      BY <2>1 DEF LanesInv
    <3>4. loPushed' = LoDropped' + Len(loQueue') + Len(loReceived')
      <4> HIDE DEF LanesInv
      <4>1. PICK d, k, m \in Nat : /\ d = LoDropped' /\ k = Len(loQueue')
                                  /\ m = Len(loReceived)
        BY <3>1, <3>3
      <4>2. PICK e, j \in Nat : e = LoDropped /\ j = Len(loQueue)
        BY <3>1
      <4>3. d + k = e + j + 1 /\ loPushed' = e + j + m + 1 /\ loReceived' = loReceived
        BY <2>1, <3>2, <4>1, <4>2
      <4>4. loPushed' = d + k + m
        BY <4>3
      <4> QED BY <4>1, <4>3, <4>4
    <3>5. hiPushed' = HiDropped' + Len(hiQueue') + Len(hiReceived')
      BY <2>1
    <3>6. hiReceived' \in Seq(Nat) /\ loReceived' \in Seq(Nat)
      BY <2>1
    <3>7. Served' = Served
      BY <2>1 DEF Served
    <3> HIDE DEF LanesInv
    <3> QED BY <3>4, <3>5, <3>6, <3>7
  <2>3. hiPushed \in Nat /\ loPushed \in Nat
    OBVIOUS
  <2>4. hiPushed' + loPushed' = hiPushed + loPushed + 1
    <3> HIDE DEF LanesInv, LanesCount
    <3> QED BY <2>1, <2>3
  <2> QED BY <2>2, <2>4
<1>4. ASSUME NEW w \in Workers, Hi!Take(w), UNCHANGED loVars
      PROVE  /\ LanesCount' /\ UNCHANGED <<hiPushed, loPushed>>
             /\ Served' = [Served EXCEPT ![Human] = @ + 1]
  <2>1. /\ hiQueue # <<>> /\ hiQueue' = Tail(hiQueue)
        /\ hiReceived' = Append(hiReceived, Head(hiQueue))
        /\ UNCHANGED <<HiDropped, hiPushed>>
    BY <1>4 DEF Hi!Take, HiDropped
  <2>2. /\ hiReceived' \in Seq(Nat) /\ Len(hiReceived') = Len(hiReceived) + 1
        /\ Len(hiQueue') = Len(hiQueue) - 1
        /\ Len(hiQueue) \in Nat /\ Len(hiReceived) \in Nat
    BY <1>1, <2>1
  <2>3. UNCHANGED <<loQueue, loReceived, LoDropped, loPushed>>
    BY <1>4 DEF loVars, LoDropped
  <2>4. LanesCount'
    BY <2>1, <2>2, <2>3 DEF LanesCount
  <2>5. Served' = [Served EXCEPT ![Human] = @ + 1]
    BY <2>2, <2>3 DEF Served, Priorities, Human, Bot
  <2> QED BY <2>1, <2>3, <2>4, <2>5
<1>5. ASSUME NEW w \in Workers, Lo!Take(w), UNCHANGED hiVars
      PROVE  /\ LanesCount' /\ UNCHANGED <<hiPushed, loPushed>>
             /\ Served' = [Served EXCEPT ![Bot] = @ + 1]
  <2>1. /\ loQueue # <<>> /\ loQueue' = Tail(loQueue)
        /\ loReceived' = Append(loReceived, Head(loQueue))
        /\ UNCHANGED <<LoDropped, loPushed>>
    BY <1>5 DEF Lo!Take, LoDropped
  <2>2. /\ loReceived' \in Seq(Nat) /\ Len(loReceived') = Len(loReceived) + 1
        /\ Len(loQueue') = Len(loQueue) - 1
        /\ Len(loQueue) \in Nat /\ Len(loReceived) \in Nat
    BY <1>1, <2>1
  <2>3. UNCHANGED <<hiQueue, hiReceived, HiDropped, hiPushed>>
    BY <1>5 DEF hiVars, HiDropped
  <2>4. LanesCount'
    BY <2>1, <2>2, <2>3 DEF LanesCount
  <2>5. Served' = [Served EXCEPT ![Bot] = @ + 1]
    BY <2>2, <2>3 DEF Served, Priorities, Human, Bot
  <2> QED BY <2>1, <2>3, <2>4, <2>5
<1> QED BY <1>2, <1>3, <1>4, <1>5

\* The task the parser was about to push is pushed.
LEMMA PushStepCounts == ASSUME LifeInv, SummaryInv, PushLane PROVE SummaryInv'
<1>1. BooksStay /\ UNCHANGED <<tally, at, hand, report>>
  BY DEF PushLane, ingestFrame, pool, books, BooksStay
<1>2. /\ LanesCount' /\ Served' = Served
      /\ hiPushed' + loPushed' = hiPushed + loPushed + 1
  BY LaneCounts DEF PushLane, LifeInv, SummaryInv
<1>3. main = "push" /\ main' \in {"select", "stop"} /\ incoming' = None
  BY DEF PushLane, AfterSink
<1>4. Busy' = Busy /\ \A c \in Priorities : Owed(c)' = Owed(c)
  BY <1>1 DEF Busy, Owed
<1>5. BooksCount' /\ ReportsCurrent'
  BY <1>1, <1>2, <1>3, <1>4, CountsStay DEF SummaryInv, Reporting
<1>6. ParserCounts'
  <2>1. tally \in Tallies /\ hiPushed \in Nat /\ loPushed \in Nat
    BY DEF LifeInv, LanesInv
  <2>2. hiPushed' \in Nat /\ loPushed' \in Nat
    <3>1. LanesInv'
      BY PushLives DEF Lives, LifeInv
    <3> QED BY <3>1 DEF LanesInv
  <2>3. /\ tally.received = tally.malformed + tally.parsed
        /\ tally.parsed = tally.shed + (hiPushed + loPushed) + 1
    BY <1>3, <2>1 DEF SummaryInv, ParserCounts, Tallies
  <2>4. tally' \in Tallies
    BY <1>1, <2>1
  <2>5. /\ tally'.received = tally'.malformed + tally'.parsed
        /\ tally'.parsed = tally'.shed + (hiPushed' + loPushed')
    <3>1. tally' = tally
      BY <1>1
    <3>2. tally.shed \in Nat
      BY <2>1 DEF Tallies
    <3>3. hiPushed' + loPushed' = hiPushed + loPushed + 1
      BY <1>2
    <3>4. tally.parsed = tally.shed + (hiPushed' + loPushed')
      BY <2>1, <2>3, <3>2, <3>3
    <3> QED BY <2>3, <3>1, <3>4
  <2> QED BY <1>3, <2>2, <2>4, <2>5 DEF ParserCounts, Tallies
<1> QED BY <1>2, <1>5, <1>6 DEF SummaryInv

\* Polling, suspending, waking and leaving: no task changes hands.
LEMMA PollStepCounts ==
  ASSUME LifeInv, SummaryInv, NEW w \in Workers,
         \/ PollCancelled(w) \/ PollCancelPending(w) \/ HumanAdvance(w) \/ HumanPending(w)
         \/ BotAdvance(w) \/ BotPending(w) \/ Wake(w) \/ DropHuman(w) \/ DropBot(w)
         \/ Leave(w)
  PROVE  SummaryInv'
<1>1. LanesKept
  BY DEF PollCancelled, PollCancelPending, HumanAdvance, HumanPending, BotAdvance, BotPending,
     Wake, DropHuman, DropBot, Leave, BeginHuman, BeginBot, HumanSuspends, Hi!Call, Lo!Call,
     Hi!SeeEmpty, Hi!PollPermit, Hi!PollWait, Hi!Resume, Hi!Drop, Hi!DropWaiting,
     Hi!DropNotified, Lo!SeeEmpty, Lo!PollPermit, Lo!PollWait, Lo!Resume, Lo!Drop,
     Lo!DropWaiting, Lo!DropNotified, hiVars, loVars, LanesStay, LanesKept
<1>2. BooksStay /\ UNCHANGED <<report, tally, main, incoming, hand>>
  BY DEF PollCancelled, PollCancelPending, HumanAdvance, HumanPending, BotAdvance, BotPending,
     Wake, DropHuman, DropBot, Leave, workerFrame, books, BooksStay
<1>3. \A v \in Workers : at'[v] = "timed" <=> at[v] = "timed"
  <2>1. at \in [Workers -> WorkerPositions]
    BY DEF LifeInv, PoolInv
  <2> QED
    BY <2>1 DEF PollCancelled, PollCancelPending, HumanAdvance, HumanPending, BotAdvance,
       BotPending, Wake, DropHuman, DropBot, Leave
<1>4. Busy' = Busy /\ \A c \in Priorities : Owed(c)' = Owed(c)
  BY <1>2, <1>3 DEF Busy, Owed
<1> QED BY <1>1, <1>2, <1>4, CountsStay DEF SummaryInv

\* A worker takes a task of a class into its hand.
LEMMA TakeStepCounts ==
  ASSUME LifeInv, SummaryInv, NEW w \in Workers, HumanReady(w) \/ BotReady(w)
  PROVE  SummaryInv'
<1>1. BooksStay /\ UNCHANGED <<report, tally, main, incoming>>
  BY DEF HumanReady, BotReady, workerFrame, books, BooksStay
<1>2. PICK c \in Priorities :
        /\ LanesCount' /\ UNCHANGED <<hiPushed, loPushed>>
        /\ Served' = [Served EXCEPT ![c] = @ + 1]
        /\ at[w] \in {"human", "bot"} /\ at' = [at EXCEPT ![w] = "leaving"]
        /\ hand' = [hand EXCEPT ![w] = c]
  <2>1. LanesInv /\ LanesCount
    BY DEF LifeInv, SummaryInv
  <2>2. CASE HumanReady(w)
    BY <2>1, <2>2, LaneCounts DEF HumanReady, Priorities
  <2>3. CASE BotReady(w)
    BY <2>1, <2>3, LaneCounts DEF BotReady, Popped, Priorities
  <2> QED BY <2>2, <2>3
<1>3. /\ w \notin Busy /\ Busy' = Busy \union {w}
      /\ w \notin Owed(c) /\ Owed(c)' = Owed(c) \union {w}
      /\ \A d \in Priorities \ {c} : Owed(d)' = Owed(d)
  BY <1>2 DEF LifeInv, PoolInv, Busy, Owed, Priorities, Human, Bot, None
<1>4. /\ Cardinality(Busy') = Cardinality(Busy) + 1 /\ Cardinality(Busy) \in Nat
      /\ Cardinality(Owed(c)') = Cardinality(Owed(c)) + 1
      /\ \A d \in Priorities : Cardinality(Owed(d)) \in Nat
  BY <1>3, OneMoreOrLess DEF Busy, Owed
<1>5. Served \in [Priorities -> Nat]
  BY DEF SummaryInv, LanesCount, Served
<1>6. BooksCount'
  <2>1. /\ M!BooksTypeOK' /\ Done' = Done /\ Done \in Nat
        /\ \A d \in Priorities : /\ metrics'.drift[d] = metrics.drift[d]
                                 /\ unrecorded'.drift[d] = unrecorded.drift[d]
                                 /\ metrics.drift[d] \in Nat /\ unrecorded.drift[d] \in Nat
    BY <1>1 DEF SummaryInv, BooksCount, BooksStay, M!BooksTypeOK, Done
  <2>2. \A d \in Priorities :
          metrics'.drift[d] + unrecorded'.drift[d] + Cardinality(Owed(d)') = Served'[d]
    <3> TAKE d \in Priorities
    <3>1. CASE d = c
      BY <1>2, <1>4, <1>5, <2>1, <3>1 DEF SummaryInv, BooksCount
    <3>2. CASE d # c
      BY <1>2, <1>3, <1>4, <1>5, <2>1, <3>2 DEF SummaryInv, BooksCount
    <3> QED BY <3>1, <3>2
  <2>3. Done' + Cardinality(Busy') = Served'[Human] + Served'[Bot]
    BY <1>2, <1>4, <1>5, <2>1 DEF SummaryInv, BooksCount, Priorities, Human, Bot
  <2> QED BY <2>1, <2>2, <2>3 DEF BooksCount
<1>7. ParserCounts' /\ ReportsCurrent'
  BY <1>1, <1>2, CountsStay DEF SummaryInv, ParserCounts
<1> QED BY <1>2, <1>6, <1>7 DEF SummaryInv

\* The drift of the task in hand is recorded: the worker owes it no more.
LEMMA ProcessCounts ==
  ASSUME LifeInv, SummaryInv, NEW w \in Workers, Process(w) PROVE SummaryInv'
<1>1. /\ LanesKept /\ UNCHANGED <<tally, main, incoming, hand>>
      /\ at[w] = "popped" /\ at' = [at EXCEPT ![w] = "timed"]
  BY DEF Process, lanes, hiVars, loVars, LanesStay, LanesKept
<1>2. PICK c \in Priorities : c = hand[w]
  BY <1>1 DEF LifeInv, PoolInv
<1>a. M!BooksTypeOK
  BY DEF SummaryInv, BooksCount
<1>3. /\ M!BooksTypeOK' /\ UNCHANGED report
      /\ \A d \in Priorities : metrics'.drift[d] + unrecorded'.drift[d]
           = metrics.drift[d] + unrecorded.drift[d] + (IF d = c THEN 1 ELSE 0)
      /\ metrics'.jitter = metrics.jitter /\ unrecorded'.jitter = unrecorded.jitter
  <2>1. M!RecordDrift(c)
    BY <1>2 DEF Process
  <2> QED BY <1>a, <2>1, DriftRecorded
<1>4. /\ Busy' = Busy
      /\ w \in Owed(c) /\ Owed(c)' = Owed(c) \ {w}
      /\ \A d \in Priorities \ {c} : Owed(d)' = Owed(d)
  BY <1>1, <1>2 DEF LifeInv, PoolInv, Busy, Owed
<1>5. /\ Cardinality(Owed(c)') = Cardinality(Owed(c)) - 1
      /\ \A d \in Priorities : Cardinality(Owed(d)) \in Nat
  BY <1>2, <1>4, OneMoreOrLess DEF Owed
<1>6. LanesCount' /\ Served' = Served
  BY <1>1, CountsStay DEF SummaryInv
<1>7. BooksCount'
  <2>1. \A d \in Priorities : /\ metrics.drift[d] \in Nat /\ unrecorded.drift[d] \in Nat
                              /\ metrics'.drift[d] \in Nat /\ unrecorded'.drift[d] \in Nat
    BY <1>3, <1>a DEF M!BooksTypeOK
  <2>2. ASSUME NEW d \in Priorities
        PROVE  metrics'.drift[d] + unrecorded'.drift[d] + Cardinality(Owed(d)') = Served[d]
    <3>1. CASE d = c
      BY <1>3, <1>5, <2>1, <3>1 DEF SummaryInv, BooksCount
    <3>2. CASE d # c
      BY <1>3, <1>4, <1>5, <2>1, <3>2 DEF SummaryInv, BooksCount
    <3> QED BY <3>1, <3>2
  <2>3. Done' = Done
    BY <1>3 DEF Done
  <2> QED BY <1>3, <1>4, <1>6, <2>2, <2>3 DEF SummaryInv, BooksCount
<1>8. ParserCounts'
  BY <1>1, CountsStay DEF SummaryInv
<1>9. ReportsCurrent'
  <2>1. main \notin Reporting
    BY <1>1 DEF LifeInv, Gone
  <2> QED BY <1>1, <1>3, <2>1 DEF SummaryInv, ReportsCurrent
<1> QED BY <1>6, <1>7, <1>8, <1>9 DEF SummaryInv

\* The task in hand is done, its drift recorded before.
LEMMA FinishCounts ==
  ASSUME LifeInv, SummaryInv, NEW w \in Workers, Finish(w) PROVE SummaryInv'
<1>1. /\ LanesKept /\ UNCHANGED <<tally, main, incoming>>
      /\ at[w] = "timed" /\ at' = [at EXCEPT ![w] = "cancel"]
      /\ hand' = [hand EXCEPT ![w] = None]
  BY DEF Finish, lanes, hiVars, loVars, LanesStay, LanesKept
<1>2. hand[w] \in Priorities /\ M!BooksTypeOK /\ Books
  BY <1>1 DEF LifeInv, PoolInv, SummaryInv, BooksCount
<1>3. /\ M!BooksTypeOK' /\ UNCHANGED report
      /\ metrics'.drift = metrics.drift /\ unrecorded'.drift = unrecorded.drift
      /\ Done' = Done + 1
  <2>1. M!RecordJitter(hand[w])
    BY DEF Finish
  <2>2. Done' = Done + 1
    BY <1>2, <2>1, SamplesCount
  <2> QED BY <1>2, <2>1, <2>2, JitterRecorded
<1>4. /\ w \in Busy /\ Busy' = Busy \ {w}
      /\ \A d \in Priorities : Owed(d)' = Owed(d)
  BY <1>1, <1>2 DEF LifeInv, PoolInv, Busy, Owed, Priorities, Human, Bot, None
<1>5. Cardinality(Busy') = Cardinality(Busy) - 1 /\ Cardinality(Busy) \in Nat
  BY <1>4, BusyCounts
<1>6. LanesCount' /\ Served' = Served
  BY <1>1, CountsStay DEF SummaryInv
<1>7. BooksCount'
  <2>1. Done \in Nat
    BY <1>2 DEF Books, Done
  <2>2. Done' + Cardinality(Busy') = Done + Cardinality(Busy)
    BY <1>3, <1>5, <2>1
  <2> QED BY <1>3, <1>4, <1>6, <2>2 DEF SummaryInv, BooksCount
<1>8. ParserCounts'
  BY <1>1, CountsStay DEF SummaryInv
<1>9. ReportsCurrent'
  <2>1. main \notin Reporting
    BY <1>1 DEF LifeInv, Gone
  <2> QED BY <1>1, <1>3, <2>1 DEF SummaryInv, ReportsCurrent
<1> QED BY <1>6, <1>7, <1>8, <1>9 DEF SummaryInv

\* The actor, the mode and the token count nothing; the shutdown writes the report.
LEMMA OtherStepsCount ==
  ASSUME LifeInv, SummaryInv,
         \/ LbStep \/ LbExit \/ SwitchMode \/ ExternalCancel
         \/ CancelWorkers \/ RequestSnapshot \/ DropSender \/ PrintSummary \/ DumpMetrics
         \/ UNCHANGED asyncVars
  PROVE  SummaryInv'
<1>1. LanesKept /\ BooksStay /\ UNCHANGED <<tally, incoming, at, hand>>
  BY DEF LbStep, LbExit, LbFrame, SwitchMode, ExternalCancel, CancelWorkers, RequestSnapshot,
     DropSender, PrintSummary, DumpMetrics, MainFrame, asyncVars, lanes, hiVars, loVars,
     LanesStay, LanesKept, pool, books, BooksStay, M!PrintMetrics, M!DumpCsv, M!DumpHgrm
<1>2. LanesCount' /\ Served' = Served
  BY <1>1, CountsStay DEF SummaryInv
<1>3. main' = main \/ (main \notin {"frame", "push"} /\ main' \notin {"frame", "push"})
  BY DEF LbStep, LbExit, LbFrame, SwitchMode, ExternalCancel, CancelWorkers, RequestSnapshot,
     DropSender, PrintSummary, DumpMetrics, asyncVars
<1>4. ParserCounts'
  <2>1. /\ main' = "frame" <=> main = "frame"
        /\ main' = "push" <=> main = "push"
    BY <1>3
  <2> QED BY <1>1, <2>1 DEF SummaryInv, ParserCounts, LanesKept, LanesStay
<1>5. Busy' = Busy /\ \A c \in Priorities : Owed(c)' = Owed(c)
  BY <1>1 DEF Busy, Owed
<1>6. M!Printed' = M!Printed /\ M!Csv' = M!Csv /\ M!Hgrm' = M!Hgrm
  BY <1>1 DEF BooksStay, M!Printed, M!Csv, M!Hgrm
<1>7. CASE PrintSummary
  <2>1. /\ main = "await" /\ main' = "dump_csv"
         /\ report' = [report EXCEPT !.printed = <<M!Printed>>]
    BY <1>7 DEF PrintSummary, M!PrintMetrics
  <2>2. /\ DOMAIN report = {"printed", "csv", "hgrm"} /\ report.csv = <<>> /\ report.hgrm = <<>>
    BY <2>1 DEF SummaryInv, BooksCount, M!BooksTypeOK, ReportsCurrent, Reporting
  <2>3. /\ DOMAIN report' = {"printed", "csv", "hgrm"}
        /\ report'.printed = <<M!Printed>> /\ report'.csv = <<>> /\ report'.hgrm = <<>>
    BY <2>1, <2>2
  <2>4. ReportsCurrent'
    BY <1>6, <2>1, <2>3 DEF ReportsCurrent, Reporting
  <2>5. BooksCount'
    BY <1>1, <1>2, <1>5, <2>3 DEF SummaryInv, BooksCount, M!BooksTypeOK, BooksStay, Done
  <2> QED BY <1>2, <1>4, <2>4, <2>5 DEF SummaryInv
<1>8. CASE DumpMetrics
  <2>1. /\ main \in Reporting /\ main' \in Reporting
        /\ report' \in {report, [report EXCEPT !.csv = <<M!Csv>>],
                               [report EXCEPT !.hgrm = <<M!Hgrm>>]}
    BY <1>8 DEF DumpMetrics, M!DumpCsv, M!DumpHgrm, Reporting
  <2>2. DOMAIN report = {"printed", "csv", "hgrm"}
    BY DEF SummaryInv, BooksCount, M!BooksTypeOK
  <2>3. /\ DOMAIN report' = {"printed", "csv", "hgrm"} /\ report'.printed = report.printed
        /\ report'.csv \in {report.csv, <<M!Csv>>} /\ report'.hgrm \in {report.hgrm, <<M!Hgrm>>}
    BY <2>1, <2>2
  <2>4. ReportsCurrent'
    BY <1>6, <2>1, <2>3 DEF SummaryInv, ReportsCurrent
  <2>5. BooksCount'
    BY <1>1, <1>2, <1>5, <2>3 DEF SummaryInv, BooksCount, M!BooksTypeOK, BooksStay, Done
  <2> QED BY <1>2, <1>4, <2>4, <2>5 DEF SummaryInv
<1>9. ASSUME \/ LbStep \/ LbExit \/ SwitchMode \/ ExternalCancel
             \/ CancelWorkers \/ RequestSnapshot \/ DropSender \/ UNCHANGED asyncVars
      PROVE  SummaryInv'
  <2>1. UNCHANGED report /\ (main' \in Reporting <=> main \in Reporting)
    BY <1>9 DEF LbStep, LbExit, LbFrame, SwitchMode, ExternalCancel, CancelWorkers,
       RequestSnapshot, DropSender, asyncVars, books, Reporting
  <2> QED BY <1>1, <1>2, <1>4, <1>5, <2>1, CountsStay DEF SummaryInv
<1> QED BY <1>7, <1>8, <1>9

LEMMA StepCounts == LifeInv /\ SummaryInv /\ [Next]_asyncVars => SummaryInv'
<1> SUFFICES ASSUME LifeInv, SummaryInv, [Next]_asyncVars PROVE SummaryInv'
  OBVIOUS
<1>1. CASE \/ StartIngest \/ StopIngest \/ ReceiveFrame \/ Reject \/ Shed
           \/ \E class \in Priorities : Accept(class)
  BY <1>1, ParserStepCounts
<1>2. CASE PushLane
  BY <1>2, PushStepCounts
<1>3. CASE \E w \in Workers : WorkerStep(w)
  BY <1>3, PollStepCounts, TakeStepCounts, ProcessCounts, FinishCounts DEF WorkerStep
<1>4. CASE \/ LbStep \/ LbExit \/ SwitchMode \/ ExternalCancel
           \/ CancelWorkers \/ RequestSnapshot \/ DropSender \/ PrintSummary \/ DumpMetrics
           \/ UNCHANGED asyncVars
  BY <1>4, OtherStepsCount
<1> QED BY <1>1, <1>2, <1>3, <1>4 DEF Next, MainStep

\* Nothing is counted, and nobody has a task.
LEMMA InitCounts == Init => SummaryInv
<1> SUFFICES ASSUME Init PROVE SummaryInv
  OBVIOUS
<1>1. /\ Busy = {} /\ \A c \in Priorities : Owed(c) = {}
  BY DEF Init, Busy, Owed, Priorities, Human, Bot, None
<1>2. /\ Cardinality(Busy) = 0 /\ \A c \in Priorities : Cardinality(Owed(c)) = 0
  BY <1>1, FS_EmptySet
<1>3. LanesCount /\ Served = [c \in Priorities |-> 0]
  BY DEF Init, Hi!Init, Lo!Init, LanesCount, Served, HiDropped, LoDropped
<1>4. M!BooksTypeOK /\ ReportsCurrent
  BY DEF Init, M!Init, M!BooksTypeOK, M!Zero, M!None, ReportsCurrent, Reporting
<1>5. BooksCount
  BY <1>2, <1>3, <1>4 DEF Init, M!Init, M!Zero, BooksCount, Done, Priorities
<1>6. ParserCounts
  BY DEF Init, Hi!Init, Lo!Init, ParserCounts
<1> QED BY <1>3, <1>4, <1>5, <1>6 DEF SummaryInv
-----------------------------------------------------------------------------
(* The types, and the theorems *)

\* The variables that no count is about.
RestOK ==
    /\ cancel \in BOOLEAN /\ degraded \in BOOLEAN
    /\ seen \in [Workers -> Nat]
    /\ Lb!LbTypeOK
    /\ accepted \in Nat

\* The board keeps its types: a message is sent only when there is room.
LEMMA BoardTyped ==
  ASSUME Lb!LbTypeOK, accepted \in Nat
  PROVE  /\ \A m \in Lb!Messages : Lb!Send(m) => Lb!LbTypeOK'
         /\ Lb!Step \/ Lb!Exit => Lb!LbTypeOK'
         /\ UNCHANGED board => Lb!LbTypeOK' /\ accepted' \in Nat
<1> USE AsyncAssumption DEF Lb!LbTypeOK
<1>1. ASSUME NEW m \in Lb!Messages, Lb!Send(m) PROVE Lb!LbTypeOK'
  <2>1. /\ channel' = Append(channel, m) /\ Len(channel) < LbCapacity
        /\ UNCHANGED <<lbUp, counted, reply>>
    BY <1>1 DEF Lb!Send, Lb!Sent, Lb!Room
  <2>2. channel' \in Seq(Lb!Messages) /\ Len(channel') = Len(channel) + 1 /\ Len(channel) \in Nat
    BY <2>1
  <2> QED BY <2>1, <2>2
<1>2. ASSUME Lb!Step \/ Lb!Exit PROVE Lb!LbTypeOK'
  <2>1. CASE Lb!Step
    <3>1. /\ channel # <<>> /\ channel' = Tail(channel) /\ lbUp' = lbUp
          /\ counted' \in Nat /\ reply' \in Nat \union {-1}
      BY <2>1 DEF Lb!Step, Lb!CountUpdate, Lb!AnswerSnapshot
    <3>2. channel' \in Seq(Lb!Messages) /\ Len(channel') = Len(channel) - 1 /\ Len(channel) \in Nat
      BY <3>1
    <3> QED BY <3>1, <3>2
  <2>2. CASE Lb!Exit
    BY <2>2 DEF Lb!Exit
  <2> QED BY <1>2, <2>1, <2>2
<1>3. ASSUME UNCHANGED board PROVE Lb!LbTypeOK' /\ accepted' \in Nat
  BY <1>3 DEF board, lbVars
<1> QED BY <1>1, <1>2, <1>3

LEMMA StepTyped == LifeInv /\ RestOK /\ [Next]_asyncVars => RestOK'
<1> SUFFICES ASSUME LifeInv, RestOK, [Next]_asyncVars PROVE RestOK'
  OBVIOUS
<1> USE DEF RestOK
<1>1. ASSUME UNCHANGED <<control, seen, board>> PROVE RestOK'
  BY <1>1, BoardTyped DEF control
<1>2. CASE \/ StartIngest \/ StopIngest \/ ReceiveFrame \/ Reject \/ Shed
           \/ \E class \in Priorities : Accept(class)
           \/ PushLane \/ DropSender \/ PrintSummary \/ DumpMetrics \/ UNCHANGED asyncVars
  BY <1>1, <1>2
  DEF StartIngest, StopIngest, ReceiveFrame, Reject, Shed, Accept, PushLane, DropSender,
      PrintSummary, DumpMetrics, MainFrame, ingestFrame, pool, control, asyncVars
<1>3. CASE SwitchMode \/ ExternalCancel \/ CancelWorkers
  BY <1>3, BoardTyped DEF SwitchMode, ExternalCancel, CancelWorkers, MainFrame, pool
<1>4. CASE RequestSnapshot
  BY <1>4, BoardTyped DEF RequestSnapshot, MainFrame, pool, Lb!Messages
<1>5. CASE LbStep \/ LbExit
  BY <1>5, BoardTyped DEF LbStep, LbExit, LbFrame, control, pool
<1>6. ASSUME NEW w \in Workers, WorkerStep(w) PROVE RestOK'
  <2>1. CASE Process(w)
    BY <2>1, BoardTyped DEF Process, control, Lb!Messages
  <2>2. CASE \/ PollCancelled(w) \/ HumanAdvance(w) \/ HumanReady(w) \/ HumanPending(w)
             \/ BotAdvance(w) \/ BotReady(w) \/ Wake(w) \/ DropHuman(w) \/ DropBot(w)
             \/ Finish(w)
    BY <1>1, <2>2
    DEF PollCancelled, HumanAdvance, HumanReady, HumanPending, BotAdvance, BotReady, Wake,
        DropHuman, DropBot, Finish, workerFrame
  <2>3. CASE PollCancelPending(w) \/ BotPending(w) \/ Leave(w)
    <3>1. UNCHANGED <<control, board>>
      BY <2>3 DEF PollCancelPending, BotPending, Leave, workerFrame
    <3>2. seen' \in [Workers -> Nat]
      BY <2>3 DEF PollCancelPending, BotPending, Leave, LifeInv, LanesInv
    <3> QED BY <3>1, <3>2, BoardTyped DEF control
  <2> QED BY <1>6, <2>1, <2>2, <2>3 DEF WorkerStep
<1> QED BY <1>2, <1>3, <1>4, <1>5, <1>6 DEF Next, MainStep

\* When the summary is printed the workers are done: they owe no drift and have no task.
LEMMA CountsComplete ==
  ASSUME LifeInv, LanesOK, SummaryInv, RestOK PROVE SummaryHasAllSamples
<1>1. TypeOK
  <2>1. /\ cancel \in BOOLEAN /\ degraded \in BOOLEAN /\ seen \in [Workers -> Nat]
        /\ Lb!LbTypeOK /\ accepted \in Nat
    BY DEF RestOK
  <2>2. /\ main \in Ingesting \union Stopping \union Reporting \union {"failed"}
        /\ at \in [Workers -> WorkerPositions]
        /\ hand \in [Workers -> Priorities \union {None}]
        /\ tally \in [received : Nat, malformed : Nat, parsed : Nat, shed : Nat]
    BY DEF LifeInv, PoolInv, Tallies
  <2>3. /\ incoming \in Priorities \union {None} /\ (incoming # None <=> main = "push")
        /\ M!BooksTypeOK
    BY DEF SummaryInv, ParserCounts, BooksCount
  <2>4. Hi!TypeOK /\ Lo!TypeOK
    BY DEF LanesOK
  <2> QED BY <2>1, <2>2, <2>3, <2>4 DEF TypeOK
<1>2. ASSUME main \in Reporting
      PROVE  /\ \A w \in Workers : at[w] = "done"
             /\ M!Complete(Served)
             /\ M!ReportsAgree
             /\ tally.parsed = tally.shed + HiDropped + LoDropped + M!Total(Served)
                                 + Len(hiQueue) + Len(loQueue)
  <2>1. \A w \in Workers : at[w] = "done"
    BY <1>2 DEF LifeInv, Gone
  <2>2. Busy = {} /\ \A c \in Priorities : Owed(c) = {}
    BY <2>1 DEF LifeInv, PoolInv, Busy, Owed, Priorities, Human, Bot, None
  <2>3. Cardinality(Busy) = 0 /\ \A c \in Priorities : Cardinality(Owed(c)) = 0
    BY <2>2, FS_EmptySet
  <2>4. /\ Len(hiReceived) \in Nat /\ Len(loReceived) \in Nat
        /\ Served \in [Priorities -> Nat]
        /\ Served[Human] = Len(hiReceived) /\ Served[Bot] = Len(loReceived)
    BY DEF SummaryInv, LanesCount, Served, Priorities, Human, Bot
  <2>5. /\ metrics.drift \in [Priorities -> Nat] /\ unrecorded.drift \in [Priorities -> Nat]
        /\ Done \in Nat
    BY DEF SummaryInv, BooksCount, M!BooksTypeOK, Done
  <2>6. M!Total(Served) = Served[Human] + Served[Bot]
    BY <2>4, TotalOfTwo DEF Priorities
  <2>7. /\ \A c \in Priorities : metrics.drift[c] + unrecorded.drift[c] = Served[c]
        /\ Done = Served[Human] + Served[Bot]
    BY <2>3, <2>4, <2>5 DEF SummaryInv, BooksCount
  <2>8. M!Complete(Served)
    BY <2>6, <2>7 DEF M!Complete, Done
  <2>9. M!ReportsAgree
    <3>1. /\ M!Total(metrics.drift) = metrics.drift[Human] + metrics.drift[Bot]
          /\ M!Total(unrecorded.drift) = unrecorded.drift[Human] + unrecorded.drift[Bot]
      BY <2>5, TotalOfTwo DEF Priorities
    <3>2. M!Total(metrics.drift) + M!Total(unrecorded.drift) = metrics.jitter + unrecorded.jitter
      <4>1. PICK a, b, c, d \in Nat : /\ a = metrics.drift[Human] /\ b = metrics.drift[Bot]
                                      /\ c = unrecorded.drift[Human] /\ d = unrecorded.drift[Bot]
        BY <2>5 DEF Priorities
      <4>2. Served[Human] = a + c /\ Served[Bot] = b + d
        BY <2>7, <4>1 DEF Priorities
      <4>3. (a + b) + (c + d) = (a + c) + (b + d)
        OBVIOUS
      <4> QED BY <2>7, <3>1, <4>1, <4>2, <4>3 DEF Done
    <3>3. /\ report.printed = <<M!Printed>>
          /\ report.csv \in {<<>>, <<M!Csv>>} /\ report.hgrm \in {<<>>, <<M!Hgrm>>}
      BY <1>2 DEF SummaryInv, ReportsCurrent
    <3>4. ASSUME NEW x, NEW s \in {<<>>, <<x>>}, NEW i \in DOMAIN s PROVE s[i] = x
      BY <3>4
    <3>5. /\ \A i \in DOMAIN report.csv : report.csv[i] = M!Csv
          /\ \A i \in DOMAIN report.hgrm : report.hgrm[i] = M!Hgrm
          /\ \A i \in DOMAIN report.printed : report.printed[i] = M!Printed
      BY <3>3, <3>4
    <3>6. /\ M!Csv.drift = metrics.drift /\ M!Hgrm.drift = metrics.drift
          /\ M!Printed.drift = metrics.drift
          /\ M!Csv.jitter = M!Total(metrics.drift) /\ M!Hgrm.jitter = metrics.jitter
      BY DEF M!Csv, M!Hgrm, M!Printed
    <3> QED BY <3>2, <3>5, <3>6 DEF M!ReportsAgree
  <2>10. tally.parsed = tally.shed + HiDropped + LoDropped + M!Total(Served)
                          + Len(hiQueue) + Len(loQueue)
    <3>1. main \notin {"frame", "push"}
      BY <1>2 DEF Reporting
    <3>2. /\ tally.parsed \in Nat /\ tally.shed \in Nat /\ HiDropped \in Nat
          /\ LoDropped \in Nat /\ Len(hiQueue) \in Nat /\ Len(loQueue) \in Nat
          /\ hiPushed \in Nat /\ loPushed \in Nat
      BY DEF LifeInv, LanesInv, Tallies
    <3>3. tally.parsed = tally.shed + (hiPushed + loPushed)
      BY <3>1, <3>2 DEF SummaryInv, ParserCounts
    <3>4. /\ hiPushed = HiDropped + Len(hiQueue) + Len(hiReceived)
          /\ loPushed = LoDropped + Len(loQueue) + Len(loReceived)
      BY DEF SummaryInv, LanesCount
    <3>5. M!Total(Served) = Len(hiReceived) + Len(loReceived)
      BY <2>4, <2>6
    <3> QED BY <2>4, <3>2, <3>3, <3>4, <3>5
  <2> QED BY <2>1, <2>8, <2>9, <2>10
<1> QED BY <1>1, <1>2 DEF SummaryHasAllSamples, Served

\* The summary waits for workers that nobody joins: it counts every task they popped, and
\* the files agree with it, for every pool, all capacities and every number of frames.
THEOREM AsyncSummaryIsComplete == Spec => []SummaryHasAllSamples
<1>1. Init => LifeInv /\ SummaryInv /\ RestOK
  <2>1. ASSUME Init PROVE RestOK
    <3>1. <<>> \in Seq(Lb!Messages) /\ Len(<<>>) = 0
      OBVIOUS
    <3>2. channel = <<>> /\ lbUp = TRUE /\ counted = 0 /\ reply = -1
      BY <2>1 DEF Init, Lb!Init
    <3>3. Lb!LbTypeOK
      BY <3>1, <3>2, AsyncAssumption DEF Lb!LbTypeOK
    <3>4. cancel = FALSE /\ degraded = FALSE /\ seen = [w \in Workers |-> 0] /\ accepted = 0
      BY <2>1 DEF Init
    <3> QED BY <3>3, <3>4 DEF RestOK
  <2> QED BY <2>1, InitLives, InitCounts
<1>2. LifeInv /\ [Next]_asyncVars => LifeInv'
  BY StepLives DEF Lives
<1>3. LifeInv /\ SummaryInv /\ [Next]_asyncVars => SummaryInv'
  BY StepCounts
<1>4. LifeInv /\ RestOK /\ [Next]_asyncVars => RestOK'
  BY StepTyped
<1>5. Spec => []LanesOK
  BY AsyncUsesRings, HiLaneOK, LoLaneOK, PTL DEF LanesOK
<1>6. LifeInv /\ LanesOK /\ SummaryInv /\ RestOK => SummaryHasAllSamples
  BY CountsComplete
<1> QED
  BY <1>1, <1>2, <1>3, <1>4, <1>5, <1>6, PTL DEF Spec

\* Every frame received is accounted for at every moment, and the summary is printed over
\* idle workers, for every pool, all capacities and every number of frames.
THEOREM AsyncLosesNothing == Spec => []Life!NothingLost
<1>1. Init => LifeInv /\ SummaryInv
  BY InitLives, InitCounts
<1>2. LifeInv /\ [Next]_asyncVars => LifeInv'
  BY StepLives DEF Lives
<1>3. LifeInv /\ SummaryInv /\ [Next]_asyncVars => SummaryInv'
  BY StepCounts
<1>4. ASSUME LifeInv, SummaryInv PROVE Life!NothingLost
  <2>1. /\ HiDropped \in Nat /\ LoDropped \in Nat /\ Len(hiQueue) \in Nat
        /\ Len(loQueue) \in Nat /\ hiPushed \in Nat /\ loPushed \in Nat
        /\ Len(hiReceived) \in Nat /\ Len(loReceived) \in Nat
        /\ Cardinality(Busy) \in Nat /\ Done \in Nat
        /\ tally.received \in Nat /\ tally.malformed \in Nat
        /\ tally.parsed \in Nat /\ tally.shed \in Nat
    BY <1>4, BusyCounts
    DEF LifeInv, LanesInv, Tallies, Books, Done, SummaryInv, LanesCount
  <2>2. hiPushed + loPushed = (HiDropped + LoDropped) + (Len(hiQueue) + Len(loQueue))
                                + Cardinality(Busy) + Done
    <3>1. Done + Cardinality(Busy) = Len(hiReceived) + Len(loReceived)
      BY <1>4 DEF SummaryInv, BooksCount, Served, Priorities, Human, Bot
    <3>2. /\ hiPushed = HiDropped + Len(hiQueue) + Len(hiReceived)
          /\ loPushed = LoDropped + Len(loQueue) + Len(loReceived)
      BY <1>4 DEF SummaryInv, LanesCount
    <3>3. /\ hiPushed + loPushed
               = (HiDropped + LoDropped) + (Len(hiQueue) + Len(loQueue))
                   + (Len(hiReceived) + Len(loReceived))
          /\ Len(hiReceived) + Len(loReceived) = Cardinality(Busy) + Done
      <4>1. ASSUME NEW a \in Nat, NEW b \in Nat, NEW c \in Nat,
                   NEW d \in Nat, NEW e \in Nat, NEW f \in Nat
            PROVE  (a + b + c) + (d + e + f) = (a + d) + (b + e) + (c + f)
        OBVIOUS
      <4>2. hiPushed + loPushed = (HiDropped + Len(hiQueue) + Len(hiReceived))
                                    + (LoDropped + Len(loQueue) + Len(loReceived))
        BY <3>2
      <4>3. (HiDropped + Len(hiQueue) + Len(hiReceived))
              + (LoDropped + Len(loQueue) + Len(loReceived))
            = (HiDropped + LoDropped) + (Len(hiQueue) + Len(loQueue))
                + (Len(hiReceived) + Len(loReceived))
        BY <2>1, <4>1
      <4> QED BY <2>1, <3>1, <4>2, <4>3
    <3>4. PICK x, b, d \in Nat :
            /\ x = (HiDropped + LoDropped) + (Len(hiQueue) + Len(loQueue))
            /\ b = Cardinality(Busy) /\ d = Done
      <4>1. (HiDropped + LoDropped) + (Len(hiQueue) + Len(loQueue)) \in Nat
        BY <2>1
      <4> QED BY <2>1, <4>1
    <3>5. hiPushed + loPushed = x + (b + d)
      BY <3>3, <3>4
    <3>6. x + (b + d) = x + b + d
      OBVIOUS
    <3> QED BY <3>4, <3>5, <3>6
  <2> DEFINE arriving == IF main \in {"frame", "push"} THEN 1 ELSE 0
  <2>3. tally.received = arriving + tally.malformed + tally.shed + (hiPushed + loPushed)
    <3>1. PICK n \in Nat : n = hiPushed + loPushed
      BY <2>1
    <3>2. /\ tally.received = tally.malformed + tally.parsed + (IF main = "frame" THEN 1 ELSE 0)
          /\ tally.parsed = tally.shed + n + (IF main = "push" THEN 1 ELSE 0)
      BY <1>4, <3>1 DEF SummaryInv, ParserCounts
    <3>3. PICK f, p \in {0, 1} : /\ f = IF main = "frame" THEN 1 ELSE 0
                                 /\ p = IF main = "push" THEN 1 ELSE 0
      OBVIOUS
    <3>4. f + p = arriving
      BY <3>3
    <3>5. PICK r, m, q, s \in Nat : /\ r = tally.received /\ m = tally.malformed
                                    /\ q = tally.parsed /\ s = tally.shed
      BY <2>1
    <3>6. r = m + q + f /\ q = s + n + p
      BY <3>2, <3>3, <3>5
    <3>7. r = (f + p) + m + s + n
      BY <3>6
    <3> HIDE DEF arriving
    <3> QED BY <3>1, <3>4, <3>5, <3>7
  <2>4. tally.received = arriving + tally.malformed + tally.shed + (HiDropped + LoDropped)
          + (Len(hiQueue) + Len(loQueue)) + Cardinality(Busy) + (metrics.jitter + unrecorded.jitter)
    <3>1. PICK a, m, s, o, q, b, d \in Nat :
            /\ a = arriving /\ m = tally.malformed /\ s = tally.shed
            /\ o = HiDropped + LoDropped /\ q = Len(hiQueue) + Len(loQueue)
            /\ b = Cardinality(Busy) /\ d = Done
      <4>1. /\ arriving \in Nat /\ HiDropped + LoDropped \in Nat
            /\ Len(hiQueue) + Len(loQueue) \in Nat
        BY <2>1
      <4> HIDE DEF arriving
      <4> QED BY <2>1, <4>1
    <3>2. tally.received = a + m + s + (o + q + b + d)
      BY <2>2, <2>3, <3>1
    <3>3. tally.received = a + m + s + o + q + b + d
      BY <3>2
    <3> QED BY <3>1, <3>3 DEF Done
  <2>5. Len(hiQueue) + Len(loQueue) <= 2 * LaneRoom
    BY <1>4, <2>1, AsyncAssumption DEF LifeInv, LanesInv
  <2>6. Cardinality(Busy) <= Cardinality(Workers)
    <3>1. Busy \in SUBSET Workers
      BY DEF Busy
    <3> QED BY <3>1, AsyncAssumption, FS_Subset
  <2>7. ASSUME main \in Reporting PROVE arriving = 0 /\ Cardinality(Busy) = 0
    <3>1. Busy = {}
      BY <1>4, <2>7 DEF LifeInv, PoolInv, Gone, Busy
    <3> QED BY <2>7, <3>1, FS_EmptySet DEF Reporting
  <2> QED
    BY <2>4, <2>5, <2>6, <2>7
    DEF Life!NothingLost, Evicted, Ingesting, Stopping
<1> QED BY <1>1, <1>2, <1>3, <1>4, PTL DEF Spec

\* Once the summary is out nothing is done to any event: its counts remain true.
THEOREM AsyncEndsWithReport == Spec => Life!ReportIsLast
<1>1. Init => LifeInv
  BY InitLives
<1>2. LifeInv /\ [Next]_asyncVars => LifeInv' /\ [Life!LifeNext]_Life!lifeVars
  BY StepLives DEF Lives
<1>3. ASSUME LifeInv, [Life!LifeNext]_Life!lifeVars, main \in Reporting
      PROVE  UNCHANGED Life!lifeVars
  <2>1. Busy = {}
    BY <1>3 DEF LifeInv, PoolInv, Gone, Busy
  <2>2. Cardinality(Busy) = 0
    BY <2>1, FS_EmptySet
  <2>3. main \notin Ingesting /\ main \notin Stopping
    BY <1>3 DEF Reporting, Ingesting, Stopping
  <2>4. ~Life!LifeNext
    BY <1>3, <2>2, <2>3
    DEF Life!LifeNext, Life!Receive, Life!Refuse, Life!Queue, Life!Settle, Life!Start,
        Life!Finish, Life!Close, Life!Report
  <2> QED BY <1>3, <2>4
<1>4. LifeInv /\ [Life!LifeNext]_Life!lifeVars =>
        [(CASE main \in Ingesting -> "open"
            [] main \in Stopping -> "closed"
            [] main \in Reporting -> "reported"
            [] OTHER -> "failed") # "reported"]_Life!lifeVars
  BY <1>3
<1> QED
  BY <1>1, <1>2, <1>4, PTL DEF Spec, Life!ReportIsLast
-----------------------------------------------------------------------------
(* The lanes keep order *)

\* The human lane delivers in the order of its pushes.
LEMMA HiLaneNumbers == Hi!Spec => []Hi!OldestFirst
<1>1. /\ Capacities \subseteq Nat /\ MaxEvents \in Nat /\ Workers \intersect {} = {}
      /\ HiRing!IsFiniteSet({})
  BY AsyncAssumption, FS_EmptySet DEF HiRing!IsFiniteSet, IsFiniteSet
<1>2. HiRing!Spec => []HiRing!OldestFirst
  BY <1>1, HiRing!RingIsFifo
<1>3. Hi!OldestFirst <=> HiRing!OldestFirst
  BY DEF Hi!OldestFirst, HiRing!OldestFirst, Hi!Range, HiRing!Range
<1> QED BY <1>2, <1>3, SameHiRing, PTL

\* So does the bot lane.
LEMMA LoLaneNumbers == Lo!Spec => []Lo!OldestFirst
<1>1. /\ Capacities \subseteq Nat /\ MaxEvents \in Nat /\ Workers \intersect {} = {}
      /\ LoRing!IsFiniteSet({})
  BY AsyncAssumption, FS_EmptySet DEF LoRing!IsFiniteSet, IsFiniteSet
<1>2. LoRing!Spec => []LoRing!OldestFirst
  BY <1>1, LoRing!RingIsFifo
<1>3. Lo!OldestFirst <=> LoRing!OldestFirst
  BY DEF Lo!OldestFirst, LoRing!OldestFirst, Lo!Range, LoRing!Range
<1> QED BY <1>2, <1>3, SameLoRing, PTL

\* Whatever the select drops and whoever is woken, each lane delivers in the order of its
\* pushes, loses its oldest items only, holds no more than its capacity, and counts what it
\* loses.  With a capacity of 0 nothing is lost, whatever is counted, and nothing bounded.
THEOREM AsyncLanesKeepOrder ==
  Spec => [](/\ Hi!OldestFirst /\ Hi!BoundedCapacity /\ Hi!OverflowCountsLosses
             /\ Lo!OldestFirst /\ Lo!BoundedCapacity /\ Lo!OverflowCountsLosses)
<1>1. /\ Capacities \subseteq Nat /\ MaxEvents \in Nat /\ Workers \intersect {} = {}
      /\ HiRing!IsFiniteSet({}) /\ LoRing!IsFiniteSet({})
  BY AsyncAssumption, FS_EmptySet DEF HiRing!IsFiniteSet, LoRing!IsFiniteSet, IsFiniteSet
<1>2. Hi!Spec => [](Hi!BoundedCapacity /\ Hi!OverflowCountsLosses)
  <2>1. HiRing!Spec => []HiRing!BoundedCapacity
    BY <1>1, HiRing!RingIsBounded
  <2>2. HiRing!Spec => []HiRing!OverflowCountsLosses
    BY <1>1, HiRing!OverflowIsTruthful
  <2>3. HiRing!BoundedCapacity => Hi!BoundedCapacity
    BY DEF HiRing!BoundedCapacity, Hi!BoundedCapacity
  <2>4. HiRing!OverflowCountsLosses => Hi!OverflowCountsLosses
    BY DEF HiRing!OverflowCountsLosses, Hi!OverflowCountsLosses, HiRing!Cardinality,
       Hi!Cardinality
  <2> QED BY <2>1, <2>2, <2>3, <2>4, SameHiRing, PTL
<1>3. Lo!Spec => [](Lo!BoundedCapacity /\ Lo!OverflowCountsLosses)
  <2>1. LoRing!Spec => []LoRing!BoundedCapacity
    BY <1>1, LoRing!RingIsBounded
  <2>2. LoRing!Spec => []LoRing!OverflowCountsLosses
    BY <1>1, LoRing!OverflowIsTruthful
  <2>3. LoRing!BoundedCapacity => Lo!BoundedCapacity
    BY DEF LoRing!BoundedCapacity, Lo!BoundedCapacity
  <2>4. LoRing!OverflowCountsLosses => Lo!OverflowCountsLosses
    BY DEF LoRing!OverflowCountsLosses, Lo!OverflowCountsLosses, LoRing!Cardinality,
       Lo!Cardinality
  <2> QED BY <2>1, <2>2, <2>3, <2>4, SameLoRing, PTL
<1> QED BY <1>2, <1>3, HiLaneNumbers, LoLaneNumbers, AsyncUsesRings, PTL
-----------------------------------------------------------------------------
(* A single worker drains the human lane first *)

\* The pool has one worker.
Alone == \E w : Workers = {w}

\* A poll that began over a queued Human is on its way to it, and does not come to the bot
\* lane: a worker alone cannot lose a Human to another, nor suspend while one is queued.
YieldInv ==
    /\ seen \in [Workers -> Nat]
    /\ \A w \in Workers :
          /\ at[w] = "cancel" => hiPc[w] \in {"idle", "waiting", "notified"}
          /\ at[w] = "human" /\ seen[w] # 0 =>
                hiQueue # <<>> /\ hiPc[w] \in {"check", "notified"}
          /\ at[w] = "bot" => seen[w] = 0
          /\ at[w] \in {"popped", "timed"} => hiPc[w] = "idle"

\* A push leaves a queued Human and touches only a suspended pop.
LEMMA PushToHumans ==
  ASSUME Hi!TypeOK, Hi!Push, NEW w \in Workers
  PROVE  /\ hiQueue' # <<>>
         /\ hiPc'[w] = hiPc[w] \/ (hiPc[w] = "waiting" /\ hiPc'[w] = "notified")
<1> USE DEF Hi!TypeOK, Hi!Consumers
<1>1. hiQueue' # <<>>
  <2>1. Hi!PopFront(hiQueue) \in Seq(Nat) /\ hiPushed \in Nat
    BY DEF Hi!PopFront
  <2>2. ASSUME NEW q \in Seq(Nat) PROVE Append(q, hiPushed + 1) # <<>>
    <3>1. PICK x \in Nat : x = hiPushed + 1
      BY <2>1
    <3>2. Len(Append(q, x)) = Len(q) + 1 /\ Len(q) \in Nat
      OBVIOUS
    <3>3. Len(<<>>) = 0
      OBVIOUS
    <3>4. Append(q, x) # <<>>
      BY <3>2, <3>3
    <3> QED BY <3>1, <3>4
  <2> QED BY <2>1, <2>2 DEF Hi!Push
<1>2. CASE hiWaiters = <<>>
  BY <1>1, <1>2 DEF Hi!Push, Hi!CondvarNotifyOne, Hi!NotifyOnePc
<1>3. CASE hiWaiters # <<>>
  <2>1. Head(hiWaiters) \in Workers /\ hiPc[Head(hiWaiters)] = "waiting"
    BY <1>3 DEF Hi!WaitListOK, Hi!Range
  <2>2. hiPc' = [hiPc EXCEPT ![Head(hiWaiters)] = "notified"]
    BY <1>3 DEF Hi!Push, Hi!CondvarNotifyOne, Hi!NotifyOnePc
  <2> QED BY <1>1, <2>1, <2>2
<1> QED BY <1>2, <1>3

\* What is not done by the worker or the parser leaves the lane and the worker alone.
LEMMA StepYields ==
  ASSUME NEW w, Workers = {w}, LifeInv, LanesOK, ParkInv, YieldInv, [Next]_asyncVars
  PROVE  YieldInv'
<1> USE DEF YieldInv
<1>0. /\ at \in [Workers -> WorkerPositions] /\ w \in Workers
      /\ seen \in [Workers -> Nat] /\ hiPushed \in Nat
      /\ hiPc \in [Workers -> Hi!AsyncPositions \union Hi!BlockingPositions]
  BY DEF LifeInv, PoolInv, LanesOK, Hi!TypeOK, Hi!Consumers
<1>1. CASE PushLane
  <2>1. at' = at /\ seen' = seen
    BY <1>1 DEF PushLane, ingestFrame, pool
  <2>2. CASE Hi!Push
    BY <2>1, <2>2, PushToHumans DEF LanesOK
  <2>3. CASE UNCHANGED hiVars
    BY <2>1, <2>3 DEF hiVars
  <2> QED BY <1>1, <2>2, <2>3 DEF PushLane
<1>2. CASE WorkerStep(w)
  <2> SUFFICES
        /\ seen' \in [Workers -> Nat]
        /\ at'[w] = "cancel" => hiPc'[w] \in {"idle", "waiting", "notified"}
        /\ at'[w] = "human" /\ seen'[w] # 0 =>
              hiQueue' # <<>> /\ hiPc'[w] \in {"check", "notified"}
        /\ at'[w] = "bot" => seen'[w] = 0
        /\ at'[w] \in {"popped", "timed"} => hiPc'[w] = "idle"
    OBVIOUS
  <2>1. CASE PollCancelPending(w)
    <3>1. /\ at[w] = "cancel" /\ at'[w] = "human" /\ BeginHuman(w)
      BY <1>0, <2>1 DEF PollCancelPending
    <3>2. hiQueue' = hiQueue
      BY <3>1 DEF BeginHuman, Hi!Call, hiVars
    <3>3. CASE hiQueue = <<>>
      <4>1. seen'[w] = 0 /\ seen' \in [Workers -> Nat]
        BY <1>0, <2>1, <3>3 DEF PollCancelPending
      <4> QED BY <3>1, <4>1
    <3>4. CASE hiQueue # <<>>
      <4>1. hiPc[w] # "waiting"
        <5>1. SUFFICES ASSUME hiPc[w] = "waiting" PROVE FALSE
          OBVIOUS
        <5>2. hiWaiters # <<>>
          BY <1>0, <5>1 DEF LanesOK, Hi!TypeOK, Hi!WaitListOK, Hi!Range
        <5>3. hiPermit
          BY <1>0, <3>4, <5>1 DEF LanesOK, Hi!LoopersNotStranded
        <5> QED BY <5>2, <5>3 DEF LanesOK, Hi!TypeOK, Hi!WaitListOK
      <4>2. hiPc'[w] \in {"check", "notified"}
        BY <1>0, <3>1, <4>1 DEF BeginHuman, Hi!Call, hiVars
      <4>3. seen' \in [Workers -> Nat]
        BY <1>0, <2>1 DEF PollCancelPending
      <4> QED BY <3>1, <3>2, <3>4, <4>2, <4>3
    <3> QED BY <3>3, <3>4
  <2>2. CASE HumanAdvance(w)
    <3>1. at' = at /\ seen' = seen /\ at[w] = "human" /\ hiQueue' = hiQueue
      BY <2>2 DEF HumanAdvance, Hi!SeeEmpty, Hi!PollPermit, Hi!Resume
    <3>2. seen[w] # 0 => hiPc'[w] = "check"
      BY <1>0, <2>2 DEF HumanAdvance, Hi!SeeEmpty, Hi!PollPermit, Hi!Resume
    <3> QED BY <1>0, <3>1, <3>2
  <2>3. CASE HumanPending(w)
    <3>1. at[w] = "human" /\ at'[w] = "bot" /\ seen' = seen /\ hiPc[w] \in {"poll", "waiting"}
      BY <1>0, <2>3 DEF HumanPending, HumanSuspends, Hi!PollWait
    <3> QED BY <1>0, <3>1
  <2>4. CASE BotAdvance(w)
    BY <1>0, <2>4 DEF BotAdvance, hiVars
  <2>5. CASE Wake(w)
    <3>1. at[w] = "parked" /\ at'[w] = "cancel" /\ hiPc' = hiPc /\ seen' = seen
      BY <1>0, <2>5 DEF Wake, hiVars
    <3>2. hiPc[w] \in {"idle", "waiting", "notified"}
      BY <1>0, <3>1 DEF ParkInv, Suspended
    <3> QED BY <1>0, <3>1, <3>2
  <2>6. CASE Leave(w) \/ Process(w) \/ Finish(w)
    BY <1>0, <2>6 DEF Leave, Process, Finish, lanes, hiVars
  <2>7. CASE \/ PollCancelled(w) \/ HumanReady(w) \/ BotReady(w) \/ BotPending(w)
             \/ DropHuman(w) \/ DropBot(w)
    <3>1. at'[w] \in {"leaving", "parked"} /\ seen' \in [Workers -> Nat]
      BY <1>0, <2>7 DEF PollCancelled, HumanReady, BotReady, BotPending, DropHuman, DropBot
    <3> QED BY <3>1
  <2> QED BY <1>2, <2>1, <2>2, <2>3, <2>4, <2>5, <2>6, <2>7 DEF WorkerStep
<1>3. CASE \/ StartIngest \/ StopIngest \/ ReceiveFrame \/ Reject \/ Shed
           \/ \E class \in Priorities : Accept(class)
           \/ SwitchMode \/ ExternalCancel \/ LbStep \/ LbExit
           \/ CancelWorkers \/ RequestSnapshot \/ DropSender \/ PrintSummary \/ DumpMetrics
           \/ UNCHANGED asyncVars
  <2>1. UNCHANGED <<at, seen, hiPc, hiQueue>>
    BY <1>3 DEF StartIngest, StopIngest, ReceiveFrame, Reject, Shed, Accept, SwitchMode,
       ExternalCancel, LbStep, LbExit, LbFrame, CancelWorkers, RequestSnapshot, DropSender,
       PrintSummary, DumpMetrics, MainFrame, ingestFrame, pool, lanes, hiVars, loVars,
       asyncVars
  <2> QED BY <2>1
<1> QED
  BY <1>1, <1>2, <1>3 DEF Next, MainStep

\* In a pool of one worker, whatever the capacities and however pushes, polls and dropped
\* futures interleave, a Bot is popped only when no Human was queued as the poll began.
\* (With two workers it is not so: see the run AsyncPriority.)
THEOREM AsyncBotsYieldToHumans == Alone /\ Spec => BotsYield
<1>1. Init => LifeInv /\ ParkInv
  BY InitLives DEF Init, ParkInv
<1>2. Init => YieldInv
  BY DEF Init, YieldInv, Hi!Init, Hi!Consumers
<1>3. LifeInv /\ [Next]_asyncVars => LifeInv'
  BY StepLives DEF Lives
<1>4. LifeInv /\ LanesOK /\ ParkInv /\ [Next]_asyncVars => ParkInv'
  BY StepParks
<1>5. Alone /\ LifeInv /\ LanesOK /\ ParkInv /\ YieldInv /\ [Next]_asyncVars => YieldInv'
  BY StepYields DEF Alone
<1>6. ASSUME YieldInv, Hi!OldestFirst, NEW w \in Workers, BotReady(w)
      PROVE  Cardinality({k \in 1..Len(hiQueue) : hiQueue[k] <= seen[w]})
               <= Cardinality({v \in Workers : hiPc[v] \in {"notified", "check"}})
  <2>1. seen[w] = 0
    BY <1>6 DEF YieldInv, BotReady
  <2>2. \A k \in 1..Len(hiQueue) : hiQueue[k] \in Nat \ {0}
    BY <1>6 DEF Hi!OldestFirst
  <2>3. {k \in 1..Len(hiQueue) : hiQueue[k] <= seen[w]} = {}
    BY <2>1, <2>2
  <2> DEFINE U == {v \in Workers : hiPc[v] \in {"notified", "check"}}
  <2>4. Cardinality(U) \in Nat
    <3>1. U \in SUBSET Workers
      OBVIOUS
    <3> HIDE DEF U
    <3> QED BY <3>1, AsyncAssumption, FS_Subset, FS_CardinalityType
  <2>5. Cardinality({}) = 0
    BY FS_EmptySet
  <2> HIDE DEF U
  <2>6. Cardinality({}) <= Cardinality(U)
    BY <2>4, <2>5
  <2> QED BY <2>3, <2>6 DEF U
<1>7. YieldInv /\ Hi!OldestFirst =>
        [\A w \in Workers : BotReady(w) =>
            Cardinality({k \in 1..Len(hiQueue) : hiQueue[k] <= seen[w]})
              <= Cardinality({v \in Workers : hiPc[v] \in {"notified", "check"}})]_asyncVars
  BY <1>6
<1>8. Spec => [](LanesOK /\ Hi!OldestFirst)
  BY AsyncUsesRings, HiLaneOK, LoLaneOK, HiLaneNumbers, PTL DEF LanesOK
<1>9. Alone => Alone'
  BY DEF Alone
<1> QED
  BY <1>1, <1>2, <1>3, <1>4, <1>5, <1>7, <1>8, <1>9, PTL DEF Spec, BotsYield
=============================================================================
