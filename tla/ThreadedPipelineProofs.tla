------------------------ MODULE ThreadedPipelineProofs ------------------------
(***************************************************************************)
(* Proofs about ThreadedPipeline, for every pool of workers, every         *)
(* capacity of the queue and every number of events: the queue is used as  *)
(* specified, every event lives as EventLife promises, none is lost, and   *)
(* the summary has all of them.  At the end, EventLife itself.             *)
(***************************************************************************)
EXTENDS ThreadedPipeline, EventLife, FiniteSetTheorems, TLAPS

(* The queue, as far as the events are counted by it. *)

\* The bound holds, and no task carries the number of the next one.
QueueInv ==
    /\ capacity \in Nat
    /\ pushed \in Nat
    /\ IsFiniteSet(heap)
    /\ Cardinality(heap) <= capacity
    /\ \A t \in heap : t.id \in 1..pushed
    /\ pc \in [Workers -> Q!Positions]

\* Workers that have left stay away.
Gone == {w \in Workers : pc[w] = "done"}

\* There are finitely many busy workers; one that takes or ends a task counts once.
LEMMA BusyCounts ==
  /\ IsFiniteSet(Busy) /\ Cardinality(Busy) \in Nat /\ Cardinality(Workers) \in Nat
  /\ \A w \in Workers \ Busy : /\ Cardinality(Busy \union {w}) = Cardinality(Busy) + 1
                               /\ Cardinality(Busy) < Cardinality(Workers)
  /\ \A w \in Busy : Cardinality(Busy \ {w}) = Cardinality(Busy) - 1
<1>1. Busy \in SUBSET Workers /\ IsFiniteSet(Workers)
  BY ThreadedAssumption DEF Busy
<1>2. IsFiniteSet(Busy)
  BY <1>1, FS_Subset
<1>3. ASSUME NEW w \in Workers \ Busy
      PROVE  /\ Cardinality(Busy \union {w}) = Cardinality(Busy) + 1
             /\ Cardinality(Busy) < Cardinality(Workers)
  <2>1. Cardinality(Busy \union {w}) = Cardinality(Busy) + 1
    BY <1>2, <1>3, FS_AddElement
  <2>2. Busy \union {w} \in SUBSET Workers
    BY <1>1, <1>3
  <2>3. Cardinality(Busy \union {w}) <= Cardinality(Workers)
    BY <1>1, <2>2, FS_Subset
  <2> QED BY <1>1, <1>2, <2>1, <2>3, FS_CardinalityType
<1> QED BY <1>1, <1>2, <1>3, FS_CardinalityType, FS_RemoveElement

\* The instance counts as this module does.
LEMMA SameCardinality == ASSUME NEW S PROVE Q!Cardinality(S) = Cardinality(S)
  BY DEF Q!Cardinality, Cardinality

\* A push fills the queue by one task, or evicts one; no worker begins, ends or leaves.
LEMMA PushCounts ==
  ASSUME QueueInv, NEW p \in Q!Priorities, NEW tick \in Ticks, Q!Push(p, tick)
  PROVE  /\ QueueInv'
         /\ UNCHANGED <<capacity, Busy, Gone, panicked>>
         /\ \/ /\ Cardinality(heap) < capacity
               /\ Cardinality(heap') = Cardinality(heap) + 1
               /\ overflow' = overflow
            \/ /\ Cardinality(heap) > 0
               /\ Cardinality(heap') = Cardinality(heap)
               /\ overflow' = overflow + 1
<1> DEFINE new == Q!Incoming(p, tick)
<1>1. /\ IsFiniteSet(heap) /\ Cardinality(heap) \in Nat /\ Cardinality(heap) <= capacity
      /\ capacity \in Nat /\ pushed \in Nat
      /\ Cardinality(heap) = 0 <=> heap = {}
  BY FS_CardinalityType, FS_EmptySet DEF QueueInv
<1>2. new.id = pushed + 1
  BY DEF Q!Incoming
<1>3. new \notin heap
  BY <1>1, <1>2 DEF QueueInv
<1>4. /\ pushed' = pushed + 1 /\ capacity' = capacity /\ panicked' = panicked
      /\ Q!PushFree(p, tick) \/ Q!PushEvict(p, tick)
  BY DEF Q!Push
<1>5. /\ pc' \in [Workers -> Q!Positions]
      /\ \A w \in Workers : pc'[w] = pc[w] \/ (pc[w] = "asleep" /\ pc'[w] = "woken")
  BY DEF Q!Push, Q!NotifyOne, Q!At, QueueInv, Q!Positions
<1>6. Busy' = Busy /\ Gone' = Gone
  BY <1>5 DEF Busy, Gone
<1>7. /\ heap' \subseteq heap \union {new}
      /\ IsFiniteSet(heap')
      /\ \/ /\ Cardinality(heap) < capacity
            /\ Cardinality(heap') = Cardinality(heap) + 1
            /\ overflow' = overflow
         \/ /\ Cardinality(heap) > 0
            /\ Cardinality(heap') = Cardinality(heap)
            /\ overflow' = overflow + 1
  <2>1. CASE Q!PushFree(p, tick)
    <3>1. heap' = heap \union {new} /\ overflow' = overflow
      BY <2>1 DEF Q!PushFree
    <3>2. ~(Cardinality(heap) >= capacity)
      BY <2>1, SameCardinality DEF Q!PushFree, Q!Full
    <3> HIDE DEF new
    <3> QED BY <1>1, <1>3, <3>1, <3>2, FS_AddElement
  <2>2. CASE Q!PushEvict(p, tick)
    <3>1. PICK out \in heap : heap' = (heap \ {out}) \union {new}
      BY <2>2 DEF Q!PushEvict, Q!Remaining, Q!Worst
    <3>2. overflow' = overflow + 1
      BY <2>2 DEF Q!PushEvict
    <3> HIDE DEF new
    <3>3. IsFiniteSet(heap \ {out}) /\ Cardinality(heap \ {out}) = Cardinality(heap) - 1
      BY <1>1, FS_RemoveElement
    <3>4. IsFiniteSet(heap') /\ Cardinality(heap') = Cardinality(heap) - 1 + 1
      BY <1>3, <3>1, <3>3, FS_AddElement
    <3> QED BY <1>1, <3>1, <3>2, <3>4
  <2> QED BY <1>4, <2>1, <2>2
<1> HIDE DEF new
<1>8. Cardinality(heap') <= capacity' /\ \A t \in heap' : t.id \in 1..pushed'
  BY <1>1, <1>2, <1>4, <1>7 DEF QueueInv
<1> QED BY <1>1, <1>4, <1>5, <1>6, <1>7, <1>8 DEF QueueInv

\* A pop moves one task from the queue to a worker.
LEMMA PopCounts ==
  ASSUME QueueInv, NEW w \in Workers, Q!Pop(w)
  PROVE  /\ QueueInv'
         /\ UNCHANGED <<capacity, overflow, Gone, panicked>>
         /\ w \notin Gone
         /\ Cardinality(heap) > 0 /\ Cardinality(heap') = Cardinality(heap) - 1
         /\ w \notin Busy /\ Busy' = Busy \union {w}
<1>1. PICK t \in heap : heap' = heap \ {t}
  BY DEF Q!Pop, Q!Best
<1>2. /\ pc[w] = "locked" /\ pc' = [pc EXCEPT ![w] = "busy"]
      /\ UNCHANGED <<capacity, overflow, panicked, pushed>>
  BY DEF Q!Pop
<1>3. /\ IsFiniteSet(heap) /\ Cardinality(heap) \in Nat /\ capacity \in Nat
      /\ Cardinality(heap) # 0
  BY FS_CardinalityType, FS_EmptySet DEF QueueInv
<1>4. IsFiniteSet(heap') /\ Cardinality(heap') = Cardinality(heap) - 1
  BY <1>1, <1>3, FS_RemoveElement
<1>5. w \notin Busy /\ w \notin Gone /\ Busy' = Busy \union {w} /\ Gone' = Gone
  BY <1>2 DEF Busy, Gone, QueueInv
<1> QED BY <1>1, <1>2, <1>3, <1>4, <1>5 DEF QueueInv, Q!Positions

\* The other steps around the queue move no task.
LEMMA WaitingCounts ==
  ASSUME QueueInv,
         \/ \E w \in Workers : Q!EnterCancelled(w) \/ Q!Enter(w) \/ Q!Wait(w) \/ Q!Timeout(w)
         \/ Q!Cancel \/ Q!WakeAll
  PROVE  /\ QueueInv'
         /\ UNCHANGED <<capacity, heap, overflow, Busy, panicked>>
         /\ Gone \subseteq Gone'
<1>1. UNCHANGED <<capacity, heap, overflow, pushed, panicked>>
  BY DEF Q!EnterCancelled, Q!Enter, Q!Wait, Q!Timeout, Q!Cancel, Q!WakeAll, Q!store, Q!log
<1>2. /\ pc' \in [Workers -> Q!Positions]
      /\ \A w \in Workers :
            \/ pc'[w] = pc[w]
            \/ pc[w] \in {"loop", "woken", "locked", "asleep"}
               /\ pc'[w] \in {"done", "locked", "asleep", "woken"}
  BY DEF Q!EnterCancelled, Q!Enter, Q!Wait, Q!Timeout, Q!Cancel, Q!WakeAll, Q!workers,
         QueueInv, Q!Positions
<1>3. Busy' = Busy /\ Gone \subseteq Gone'
  BY <1>2 DEF Busy, Gone
<1> QED BY <1>1, <1>2, <1>3 DEF QueueInv
-----------------------------------------------------------------------------
(* The threads around the queue *)

Tallies == [received : Nat, malformed : Nat, parsed : Nat, shed : Nat]

Books ==
    /\ "jitter" \in DOMAIN metrics /\ metrics.jitter \in Nat
    /\ "jitter" \in DOMAIN unrecorded /\ unrecorded.jitter \in Nat

\* What the refinement needs to know: once the workers are joined nobody works again,
\* so that no event is touched when the summary is out.
TInv ==
    /\ QueueInv
    /\ Books
    /\ tally \in Tallies
    /\ main \in Ingesting \union Stopping \union Reporting \union {"failed"}
    /\ main = "push" => incoming \in Q!Priorities
    /\ main \in {"release", "await"} \union Reporting => Gone = Workers

\* What is shown of every step.
Lives == TInv' /\ [Life!LifeNext]_Life!lifeVars

\* The finished tasks.
Done == metrics.jitter + unrecorded.jitter

\* Nothing that EventLife sees of the queue and of the workers changes.
QueueStays == UNCHANGED <<capacity, heap, overflow, pushed, pc>>

LEMMA Stays ==
  ASSUME QueueInv, QueueStays PROVE QueueInv' /\ Busy' = Busy /\ Gone' = Gone
BY DEF QueueStays, QueueInv, Busy, Gone

\* Reading and dispatching an event: it arrives, is refused, or is about to be pushed.
LEMMA StreamLives ==
  ASSUME TInv,
         \/ ReadLine \/ LineCancelled \/ LineToSink \/ EndOfIngest \/ Reject \/ Shed
         \/ \E class \in Q!Priorities : Accept(class)
  PROVE  Lives
<1>1. QueueStays /\ UNCHANGED books
  BY DEF ReadLine, LineCancelled, LineToSink, EndOfIngest, Reject, Shed, Accept, ingestFrame,
         queueVars, QueueStays
<1>2. QueueInv' /\ Busy' = Busy /\ Gone' = Gone /\ Books'
  BY <1>1, Stays DEF TInv, books, Books
<1>3. /\ UNCHANGED <<capacity, overflow, heap>>
      /\ (metrics.jitter + unrecorded.jitter)' = metrics.jitter + unrecorded.jitter
  BY <1>1 DEF QueueStays, books
<1> USE DEF TInv, Tallies, Ingesting, Stopping, Reporting, Life!lifeVars, Life!waitingVars
<1>4. CASE ReadLine
  BY <1>2, <1>3, <1>4 DEF Lives, ReadLine
<1>5. CASE LineCancelled \/ EndOfIngest
  BY <1>2, <1>3, <1>5 DEF Lives, LineCancelled, EndOfIngest, Life!LifeNext, Life!Close
<1>6. CASE LineToSink
  BY <1>2, <1>3, <1>6 DEF Lives, LineToSink, Life!LifeNext, Life!Receive
<1>7. CASE Reject
  BY <1>2, <1>3, <1>7 DEF Lives, Reject, Life!LifeNext, Life!Refuse, Life!Settle
<1>8. CASE Shed
  <2>1. /\ main = "dispatch" /\ main' = "read" /\ incoming' = incoming
        /\ tally' = [Parsed EXCEPT !.shed = @ + 1]
    BY <1>8 DEF Shed
  <2>2. /\ Parsed \in Tallies /\ Parsed.received = tally.received
        /\ Parsed.malformed = tally.malformed /\ Parsed.shed = tally.shed
    BY DEF Parsed
  <2>3. /\ tally' \in Tallies /\ tally'.received = Parsed.received
        /\ tally'.malformed = Parsed.malformed /\ tally'.shed = Parsed.shed + 1
    <3> DEFINE p == Parsed
    <3>1. p \in Tallies /\ tally' = [p EXCEPT !.shed = @ + 1]
      BY <2>1, <2>2
    <3> HIDE DEF p
    <3>2. /\ tally' \in Tallies /\ tally'.received = p.received
          /\ tally'.malformed = p.malformed /\ tally'.shed = p.shed + 1
      BY <3>1
    <3> QED BY <3>2 DEF p
  <2> QED BY <1>2, <1>3, <2>1, <2>2, <2>3 DEF Lives, Life!LifeNext, Life!Refuse, Life!Settle
<1>9. CASE \E class \in Q!Priorities : Accept(class)
  BY <1>2, <1>3, <1>9 DEF Lives, Accept, Parsed
<1> QED BY <1>4, <1>5, <1>6, <1>7, <1>8, <1>9
\* A push: the event waits, or another one is evicted, or the stream fails.
LEMMA PushLives == ASSUME TInv, PushTask \/ PushPanics PROVE Lives
<1> USE DEF TInv, Tallies, Ingesting, Stopping, Reporting, Life!lifeVars, Life!waitingVars
<1>1. UNCHANGED <<tally, metrics, unrecorded, report>>
  BY DEF PushTask, PushPanics, ingestFrame, books
<1>2. Books' /\ Done' = Done
  BY <1>1 DEF Books, Done
<1>3. CASE PushTask
  <2>1. PICK tick \in Ticks : Q!Push(incoming, tick)
    BY <1>3 DEF PushTask
  <2>2. main = "push" /\ main' = "read"
    BY <1>3 DEF PushTask
  <2>3. /\ QueueInv'
        /\ UNCHANGED <<capacity, Busy, Gone, panicked>>
        /\ \/ /\ Cardinality(heap) < capacity
              /\ Cardinality(heap') = Cardinality(heap) + 1
              /\ overflow' = overflow
           \/ /\ Cardinality(heap) > 0
              /\ Cardinality(heap') = Cardinality(heap)
              /\ overflow' = overflow + 1
    BY <2>1, <2>2, PushCounts
  <2> QED
    BY <1>1, <1>2, <2>2, <2>3 DEF Lives, Done, Life!LifeNext, Life!Queue, Life!Settle
<1>4. CASE PushPanics
  <2>1. QueueStays /\ main = "push" /\ main' = "failed"
    BY <1>4 DEF PushPanics, Q!PushPanics, QueueStays, Q!workers, Q!log
  <2>2. QueueInv' /\ Busy' = Busy /\ Gone' = Gone
    BY <2>1, Stays
  <2> QED
    BY <1>1, <1>2, <2>1, <2>2 DEF Lives, Done, QueueStays, Life!LifeNext, Life!Close
<1> QED BY <1>3, <1>4

\* A worker around the queue: it starts a task, or moves none.
LEMMA WorkerLives ==
  ASSUME TInv, NEW w \in Workers, WorkerPop(w) PROVE Lives
<1> USE DEF TInv, Tallies, Ingesting, Stopping, Reporting, Life!lifeVars, Life!waitingVars
<1>1. UNCHANGED <<tally, metrics, unrecorded, report, main, incoming>>
  BY DEF WorkerPop, workerFrame, books
<1>2. Books' /\ Done' = Done
  BY <1>1 DEF Books, Done
<1>3. CASE Q!Pop(w)
  <2>1. /\ QueueInv'
        /\ UNCHANGED <<capacity, overflow, Gone, panicked>>
        /\ w \notin Gone
        /\ Cardinality(heap) > 0 /\ Cardinality(heap') = Cardinality(heap) - 1
        /\ w \notin Busy /\ Busy' = Busy \union {w}
    BY <1>3, PopCounts
  <2>2. /\ Cardinality(Busy') = Cardinality(Busy) + 1
        /\ Cardinality(Busy) < Cardinality(Workers)
    BY <2>1, BusyCounts
  <2>3. main \notin {"release", "await"} \union Reporting
    BY <2>1
  <2> QED
    BY <1>1, <1>2, <2>1, <2>2, <2>3 DEF Lives, Done, Life!LifeNext, Life!Start
<1>4. CASE Q!EnterCancelled(w) \/ Q!Enter(w) \/ Q!Wait(w) \/ Q!Timeout(w)
  <2>1. /\ QueueInv'
        /\ UNCHANGED <<capacity, heap, overflow, Busy, panicked>>
        /\ Gone \subseteq Gone'
    BY <1>4, WaitingCounts
  <2>2. Gone = Workers => Gone' = Workers
    BY <2>1 DEF Gone
  <2> QED BY <1>1, <1>2, <2>1, <2>2 DEF Lives, Done
<1> QED BY <1>3, <1>4 DEF WorkerPop
\* The samples are counted, in the store or as refused.
LEMMA SamplesCount ==
  ASSUME Books, NEW c
  PROVE  /\ M!RecordDrift(c) => Books' /\ Done' = Done
         /\ M!RecordJitter(c) => Books' /\ Done' = Done + 1
<1> USE DEF Books, Done
<1>1. ASSUME M!RecordDrift(c) PROVE Books' /\ Done' = Done
  BY <1>1 DEF M!RecordDrift
<1>2. ASSUME M!RecordJitter(c) PROVE Books' /\ Done' = Done + 1
  <2>1. CASE metrics' = [metrics EXCEPT !.jitter = @ + 1] /\ UNCHANGED unrecorded
    BY <1>2, <2>1 DEF M!RecordJitter
  <2>2. CASE /\ metrics' = [metrics EXCEPT !.jitter = @ + 1, !.deadline_miss[c] = @ + 1]
             /\ UNCHANGED unrecorded
    <3>1. metrics'.jitter = metrics.jitter + 1 /\ DOMAIN metrics' = DOMAIN metrics
      BY <2>2
    <3> QED BY <1>2, <2>2, <3>1
  <2>3. CASE /\ metrics' = [metrics EXCEPT !.deadline_miss[c] = @ + 1]
             /\ unrecorded' = [unrecorded EXCEPT !.jitter = @ + 1]
    BY <1>2, <2>3 DEF M!RecordJitter
  <2> QED BY <1>2, <2>1, <2>2, <2>3 DEF M!RecordJitter
<1> QED BY <1>1, <1>2

\* The body of a task: it is finished when its last sample is recorded.
LEMMA TaskLives ==
  ASSUME TInv, NEW w \in Workers, SendUpdate(w) \/ FinishTask(w) PROVE Lives
<1> USE DEF TInv, Tallies, Ingesting, Stopping, Reporting, Life!lifeVars, Life!waitingVars
<1>1. UNCHANGED <<tally, main, incoming>>
  BY DEF SendUpdate, FinishTask, workerFrame
<1>2. CASE SendUpdate(w)
  <2>1. QueueStays /\ Books' /\ Done' = Done
    BY <1>2, SamplesCount DEF SendUpdate, QueueStays, queueVars
  <2>2. QueueInv' /\ Busy' = Busy /\ Gone' = Gone
    BY <2>1, Stays
  <2> QED BY <1>1, <2>1, <2>2 DEF Lives, Done, QueueStays
<1>3. CASE FinishTask(w)
  <2>1. Books' /\ Done' = Done + 1
    BY <1>3, SamplesCount DEF FinishTask
  <2>2. /\ UNCHANGED <<capacity, heap, overflow, pushed>>
        /\ pc[w] = "busy" /\ pc' = [pc EXCEPT ![w] = "loop"]
    BY <1>3 DEF FinishTask, Q!Finish, Q!store, Q!log
  <2>3. QueueInv' /\ w \in Busy /\ Busy' = Busy \ {w} /\ Gone' = Gone
    BY <2>2 DEF QueueInv, Busy, Gone, Q!Positions
  <2>4. Cardinality(Busy') = Cardinality(Busy) - 1 /\ Cardinality(Busy) > 0
    <3>1. Cardinality(Busy) # 0
      BY <2>3, BusyCounts, FS_EmptySet
    <3> QED BY <2>3, <3>1, BusyCounts
  <2> QED
    BY <1>1, <2>1, <2>2, <2>3, <2>4 DEF Lives, Done, Life!LifeNext, Life!Finish
<1> QED BY <1>2, <1>3

\* The leaderboard, the mode and the flag are no business of the events.
LEMMA OthersLive ==
  ASSUME TInv, LbStep \/ LbExit \/ SwitchMode \/ ExternalCancel PROVE Lives
<1>1. QueueStays /\ UNCHANGED <<tally, main, incoming, books>>
  BY DEF LbStep, LbExit, SwitchMode, ExternalCancel, Q!Cancel, Q!store, Q!workers, Q!log,
         ingestFrame, workerFrame, queueVars, QueueStays
<1>2. QueueInv' /\ Busy' = Busy /\ Gone' = Gone
  BY <1>1, Stays DEF TInv
<1> QED
  BY <1>1, <1>2 DEF Lives, TInv, QueueStays, books, Books, Life!lifeVars,
     Life!waitingVars

\* The shutdown: the stream stays closed until the summary is printed over idle workers.
LEMMA ShutdownLives ==
  ASSUME TInv,
         \/ SetCancel \/ WakeWorkers \/ RequestSnapshot \/ DropSender \/ PrintSummary
         \/ DumpMetrics
  PROVE  Lives
<1> USE DEF TInv, Ingesting, Stopping, Reporting, Life!lifeVars, Life!waitingVars
<1>1. UNCHANGED <<tally, incoming, metrics, unrecorded>> /\ Books'
  BY DEF SetCancel, WakeWorkers, RequestSnapshot, DropSender, PrintSummary, DumpMetrics,
         mainFrame, books, M!PrintMetrics, M!DumpCsv, M!DumpHgrm, Books
<1>2. /\ QueueInv'
      /\ UNCHANGED <<capacity, heap, overflow, Busy>>
      /\ Gone \subseteq Gone'
  <2>1. CASE WakeWorkers
    BY <2>1, WaitingCounts DEF WakeWorkers
  <2>2. CASE SetCancel
    <3>1. QueueStays
      BY <2>2 DEF SetCancel, QueueStays, queueVars, Q!Cancel, Q!store, Q!workers, Q!log
    <3> QED BY <3>1, Stays DEF QueueStays
  <2>3. CASE RequestSnapshot \/ DropSender \/ PrintSummary \/ DumpMetrics
    <3>1. QueueStays
      BY <2>3 DEF RequestSnapshot, DropSender, PrintSummary, DumpMetrics, QueueStays, queueVars
    <3> QED BY <3>1, Stays DEF QueueStays
  <2> QED BY <2>1, <2>2, <2>3
<1>3. Gone = Workers => Gone' = Workers
  BY <1>2 DEF Gone
<1>4. CASE SetCancel \/ WakeWorkers
  BY <1>1, <1>2, <1>4 DEF Lives, SetCancel, WakeWorkers
<1>5. CASE RequestSnapshot \/ DropSender
  <2>1. Gone = Workers
    BY <1>5 DEF RequestSnapshot, WorkersJoined, DropSender, Gone
  <2> QED BY <1>1, <1>2, <1>3, <1>5, <2>1 DEF Lives, RequestSnapshot, DropSender
<1>6. CASE PrintSummary
  <2>1. Busy = {}
    BY <1>6 DEF PrintSummary, Gone, Busy
  <2>2. Cardinality(Busy) = 0
    BY <2>1, FS_EmptySet
  <2> QED
    BY <1>1, <1>2, <1>3, <1>6, <2>2 DEF Lives, PrintSummary, Life!LifeNext, Life!Report
<1>7. CASE DumpMetrics
  BY <1>1, <1>2, <1>3, <1>7 DEF Lives, DumpMetrics
<1> QED BY <1>4, <1>5, <1>6, <1>7
-----------------------------------------------------------------------------
(* The refinement *)

\* Nothing has been received, and everything is empty.
LEMMA InitLives == Init => TInv /\ Life!LifeInit
<1> SUFFICES ASSUME Init PROVE TInv /\ Life!LifeInit
  OBVIOUS
<1>1. Cardinality(heap) = 0 /\ IsFiniteSet(heap)
  BY FS_EmptySet DEF Init, Q!Init
<1>2. Cardinality(Busy) = 0
  BY FS_EmptySet DEF Init, Q!Init, Busy
<1>3. QueueInv /\ overflow = 0
  BY <1>1, ThreadedAssumption DEF Init, Q!Init, QueueInv, Q!Positions
<1>4. Books /\ metrics.jitter = 0 /\ unrecorded.jitter = 0
  BY DEF Init, M!Init, Books, M!Zero
<1> QED
  BY <1>1, <1>2, <1>3, <1>4
  DEF Init, TInv, Tallies, Ingesting, Stopping, Reporting, QueueInv, Life!LifeInit

\* Every step of a thread is a step in the life of one event, or of none.
LEMMA StepLives == TInv /\ [Next]_threadedVars => Lives
<1> SUFFICES ASSUME TInv, [Next]_threadedVars PROVE Lives
  OBVIOUS
<1>1. CASE \/ ReadLine \/ LineCancelled \/ LineToSink \/ EndOfIngest \/ Reject \/ Shed
           \/ \E class \in Q!Priorities : Accept(class)
  BY <1>1, StreamLives
<1>2. CASE PushTask \/ PushPanics
  BY <1>2, PushLives
<1>3. CASE \E w \in Workers : WorkerStep(w)
  BY <1>3, WorkerLives, TaskLives DEF WorkerStep
<1>4. CASE LbStep \/ LbExit \/ SwitchMode \/ ExternalCancel
  BY <1>4, OthersLive
<1>5. CASE \/ SetCancel \/ WakeWorkers \/ RequestSnapshot \/ DropSender \/ PrintSummary
           \/ DumpMetrics
  BY <1>5, ShutdownLives
<1>6. CASE UNCHANGED threadedVars
  <2>1. QueueStays /\ UNCHANGED <<tally, main, incoming, metrics, unrecorded, report>>
    BY <1>6 DEF threadedVars, queueVars, books, QueueStays
  <2>2. QueueInv' /\ Busy' = Busy /\ Gone' = Gone
    BY <2>1, Stays DEF TInv
  <2> QED
    BY <2>1, <2>2 DEF Lives, TInv, QueueStays, Books, Life!lifeVars, Life!waitingVars
<1> QED
  BY <1>1, <1>2, <1>3, <1>4, <1>5, <1>6 DEF Next, MainStep

\* The threads, the queue and the shutdown do with the events what EventLife promises.
THEOREM ThreadedImplementsLife == Spec => ImplementsLife
<1>1. Init => TInv /\ Life!LifeInit
  BY InitLives
<1>2. TInv /\ [Next]_threadedVars => TInv' /\ [Life!LifeNext]_Life!lifeVars
  BY StepLives DEF Lives
<1> QED
  BY <1>1, <1>2, PTL DEF Spec, ImplementsLife, Life!LifeSpec
\* What a step does to the queue is a step of the queue; only the parser pushes, and only
\* the classes of tasks.
LEMMA StepUsesQueue == TInv /\ [Next]_threadedVars => [Q!Next]_Q!queueVars
<1> SUFFICES ASSUME TInv, [Next]_threadedVars PROVE [Q!Next]_Q!queueVars
  OBVIOUS
<1> USE DEF Q!Next
<1>1. CASE PushTask \/ PushPanics
  BY <1>1 DEF PushTask, PushPanics, TInv, Ticks
<1>2. CASE \E w \in Workers : WorkerStep(w)
  <2>1. PICK w \in Workers : WorkerStep(w)
    BY <1>2
  <2>2. CASE WorkerPop(w) \/ FinishTask(w)
    BY <2>2 DEF WorkerPop, FinishTask, Q!WorkerStep
  <2>3. CASE SendUpdate(w)
    BY <2>3 DEF SendUpdate, queueVars, Q!queueVars, Q!store, Q!flags, Q!workers, Q!log
  <2> QED BY <2>1, <2>2, <2>3 DEF WorkerStep
<1>3. CASE ExternalCancel \/ WakeWorkers
  BY <1>3 DEF ExternalCancel, WakeWorkers
<1>4. CASE SetCancel
  BY <1>4 DEF SetCancel, queueVars, Q!queueVars, Q!store, Q!flags, Q!workers, Q!log
<1>5. CASE \/ ReadLine \/ LineCancelled \/ LineToSink \/ EndOfIngest \/ Reject \/ Shed
           \/ \E class \in Q!Priorities : Accept(class)
           \/ LbStep \/ LbExit \/ SwitchMode
           \/ RequestSnapshot \/ DropSender \/ PrintSummary \/ DumpMetrics
           \/ UNCHANGED threadedVars
  <2>1. UNCHANGED queueVars
    BY <1>5 DEF ReadLine, LineCancelled, LineToSink, EndOfIngest, Reject, Shed, Accept,
       LbStep, LbExit, SwitchMode, RequestSnapshot, DropSender, PrintSummary, DumpMetrics,
       threadedVars
  <2> QED BY <2>1 DEF queueVars, Q!queueVars, Q!store, Q!flags, Q!workers, Q!log
<1> QED
  BY <1>1, <1>2, <1>3, <1>4, <1>5 DEF Next, MainStep

\* The pipeline uses the queue as its specification allows: what is proved of the queue
\* holds in the pipeline.
LEMMA ThreadedUsesQueue == Spec => Q!Spec
<1>1. Init => TInv /\ Q!Init
  BY InitLives DEF Init
<1>2. TInv /\ [Next]_threadedVars => TInv'
  BY StepLives DEF Lives
<1>3. TInv /\ [Next]_threadedVars => [Q!Next]_Q!queueVars
  BY StepUsesQueue
<1> QED
  BY <1>1, <1>2, <1>3, PTL DEF Spec, Q!Spec
-----------------------------------------------------------------------------
(* The samples of a task and its update reach the store and the leaderboard *)

\* A sum over the two priorities, as the fold of Metrics computes it.
LEMMA TotalOfTwo ==
  ASSUME NEW f, f[Q!Human] \in Nat, f[Q!Bot] \in Nat
  PROVE  M!Total(f) = f[Q!Human] + f[Q!Bot]
<1> DEFINE First(s) == CHOOSE c \in s : TRUE
           Sums(g) == g = [s \in SUBSET Q!Priorities |->
                             IF s = {} THEN 0 ELSE f[First(s)] + g[s \ {First(s)}]]
           sum == [s \in SUBSET Q!Priorities |->
                     (IF Q!Human \in s THEN f[Q!Human] ELSE 0)
                        + (IF Q!Bot \in s THEN f[Q!Bot] ELSE 0)]
<1>1. Sums(sum)
  <2>1. ASSUME NEW s \in SUBSET Q!Priorities, s # {}
        PROVE  sum[s] = f[First(s)] + sum[s \ {First(s)}]
    <3>1. PICK c \in s : c = First(s)
      BY <2>1
    <3>2. sum[s] = f[c] + sum[s \ {c}]
      BY DEF Q!Priorities, Q!Human, Q!Bot
    <3> QED BY <3>1, <3>2
  <2>2. sum[{}] = 0
    OBVIOUS
  <2> QED BY <2>1, <2>2, Zenon
<1>2. PICK g : g = CHOOSE k : Sums(k)
  OBVIOUS
<1>3. Sums(g)
  <2> HIDE DEF Sums, sum
  <2> QED BY <1>1, <1>2
<1>4. M!Total(f) = g[Q!Priorities]
  BY <1>2 DEF M!Total, M!MapThenSumSet, M!MapThenFoldSet
<1>5. g[{}] = 0
  BY <1>3
<1>6. ASSUME NEW s \in SUBSET Q!Priorities, s # {}
      PROVE  \E c \in s : g[s] = f[c] + g[s \ {c}]
  BY <1>3, <1>6
<1> HIDE DEF Sums, sum
<1>7. g[{Q!Human}] = f[Q!Human] /\ g[{Q!Bot}] = f[Q!Bot]
  <2>1. {Q!Human} \ {Q!Human} = {} /\ {Q!Bot} \ {Q!Bot} = {}
    OBVIOUS
  <2> QED BY <1>5, <1>6, <2>1 DEF Q!Priorities
<1>8. g[Q!Priorities] = f[Q!Human] + g[{Q!Bot}] \/ g[Q!Priorities] = f[Q!Bot] + g[{Q!Human}]
  <2>1. Q!Priorities \ {Q!Human} = {Q!Bot} /\ Q!Priorities \ {Q!Bot} = {Q!Human}
    BY DEF Q!Priorities, Q!Human, Q!Bot
  <2> QED BY <1>6, <2>1 DEF Q!Priorities
<1> QED BY <1>4, <1>7, <1>8

\* record_drift and record_jitter keep the types, and leave one sample each: in its
\* histogram, or among those refused.
LEMMA DriftRecorded ==
  ASSUME M!BooksTypeOK, NEW c \in Q!Priorities, M!RecordDrift(c)
  PROVE  /\ M!BooksTypeOK' /\ UNCHANGED report
         /\ \A d \in Q!Priorities : metrics'.drift[d] + unrecorded'.drift[d]
              = metrics.drift[d] + unrecorded.drift[d] + (IF d = c THEN 1 ELSE 0)
         /\ metrics'.jitter = metrics.jitter /\ unrecorded'.jitter = unrecorded.jitter
<1> USE DEF M!BooksTypeOK
<1>1. ASSUME NEW f \in [Q!Priorities -> Nat]
      PROVE  /\ [f EXCEPT ![c] = @ + 1] \in [Q!Priorities -> Nat]
             /\ \A d \in Q!Priorities :
                  [f EXCEPT ![c] = @ + 1][d] = f[d] + (IF d = c THEN 1 ELSE 0)
  OBVIOUS
<1>2. CASE metrics' = [metrics EXCEPT !.drift[c] = @ + 1] /\ UNCHANGED unrecorded
  <2> DEFINE g == [metrics.drift EXCEPT ![c] = @ + 1]
  <2>1. metrics' = [metrics EXCEPT !.drift = g]
    BY <1>2
  <2>2. /\ g \in [Q!Priorities -> Nat]
        /\ \A d \in Q!Priorities : g[d] = metrics.drift[d] + (IF d = c THEN 1 ELSE 0)
    BY <1>1
  <2> HIDE DEF g
  <2>3. /\ metrics' \in [drift : [Q!Priorities -> Nat], jitter : Nat,
                         deadline_miss : [Q!Priorities -> Nat], overflow_count : {0}]
        /\ metrics'.drift = g /\ metrics'.jitter = metrics.jitter
    BY <2>1, <2>2
  <2> QED BY <1>2, <2>2, <2>3 DEF M!RecordDrift
<1>3. CASE unrecorded' = [unrecorded EXCEPT !.drift[c] = @ + 1] /\ UNCHANGED metrics
  <2> DEFINE g == [unrecorded.drift EXCEPT ![c] = @ + 1]
  <2>1. unrecorded' = [unrecorded EXCEPT !.drift = g]
    BY <1>3
  <2>2. /\ g \in [Q!Priorities -> Nat]
        /\ \A d \in Q!Priorities : g[d] = unrecorded.drift[d] + (IF d = c THEN 1 ELSE 0)
    BY <1>1
  <2> HIDE DEF g
  <2>3. /\ unrecorded' \in [drift : [Q!Priorities -> Nat], jitter : Nat]
        /\ unrecorded'.drift = g /\ unrecorded'.jitter = unrecorded.jitter
    BY <2>1, <2>2
  <2> QED BY <1>3, <2>2, <2>3 DEF M!RecordDrift
<1> QED BY <1>2, <1>3 DEF M!RecordDrift

LEMMA JitterRecorded ==
  ASSUME M!BooksTypeOK, NEW c \in Q!Priorities, M!RecordJitter(c)
  PROVE  /\ M!BooksTypeOK' /\ UNCHANGED report
         /\ metrics'.drift = metrics.drift /\ unrecorded'.drift = unrecorded.drift
<1> USE DEF M!BooksTypeOK
<1> DEFINE g == [metrics.deadline_miss EXCEPT ![c] = @ + 1]
<1>1. g \in [Q!Priorities -> Nat]
  OBVIOUS
<1>2. /\ [metrics EXCEPT !.deadline_miss[c] = @ + 1] = [metrics EXCEPT !.deadline_miss = g]
      /\ [metrics EXCEPT !.jitter = @ + 1, !.deadline_miss[c] = @ + 1]
           = [metrics EXCEPT !.jitter = @ + 1, !.deadline_miss = g]
  OBVIOUS
<1>3. \/ /\ metrics' = [metrics EXCEPT !.jitter = @ + 1]
         /\ UNCHANGED unrecorded
      \/ /\ metrics' = [metrics EXCEPT !.jitter = @ + 1, !.deadline_miss = g]
         /\ UNCHANGED unrecorded
      \/ /\ metrics' = [metrics EXCEPT !.deadline_miss = g]
         /\ unrecorded' = [unrecorded EXCEPT !.jitter = @ + 1]
  BY <1>2 DEF M!RecordJitter
<1>4. UNCHANGED report
  BY DEF M!RecordJitter
<1> HIDE DEF g
<1>5. CASE /\ metrics' = [metrics EXCEPT !.jitter = @ + 1]
           /\ UNCHANGED unrecorded
  BY <1>4, <1>5
<1>6. CASE /\ metrics' = [metrics EXCEPT !.jitter = @ + 1, !.deadline_miss = g]
           /\ UNCHANGED unrecorded
  <2> DEFINE m == [metrics EXCEPT !.jitter = @ + 1]
  <2>1. /\ m \in [drift : [Q!Priorities -> Nat], jitter : Nat,
                  deadline_miss : [Q!Priorities -> Nat], overflow_count : {0}]
        /\ m.drift = metrics.drift
    OBVIOUS
  <2>2. metrics' = [m EXCEPT !.deadline_miss = g]
    BY <1>6
  <2> HIDE DEF m
  <2>3. /\ metrics' \in [drift : [Q!Priorities -> Nat], jitter : Nat,
                         deadline_miss : [Q!Priorities -> Nat], overflow_count : {0}]
        /\ metrics'.drift = m.drift
    BY <1>1, <2>1, <2>2
  <2> QED BY <1>4, <1>6, <2>1, <2>3
<1>7. CASE /\ metrics' = [metrics EXCEPT !.deadline_miss = g]
           /\ unrecorded' = [unrecorded EXCEPT !.jitter = @ + 1]
  BY <1>1, <1>4, <1>7
<1> QED BY <1>3, <1>5, <1>6, <1>7

\* A set of workers that one worker enters or leaves.
LEMMA OneMoreOrLess ==
  ASSUME NEW S \in SUBSET Workers, NEW w \in Workers
  PROVE  /\ Cardinality(S) \in Nat
         /\ w \notin S => Cardinality(S \union {w}) = Cardinality(S) + 1
         /\ w \in S => Cardinality(S \ {w}) = Cardinality(S) - 1
<1>1. IsFiniteSet(S)
  BY ThreadedAssumption, FS_Subset
<1> QED BY <1>1, FS_CardinalityType, FS_AddElement, FS_RemoveElement

\* The workers that have a task and have not recorded its drift, of a class.
Unsent == {w \in Busy : ~sent[w]}
Owed(class) == {w \in Unsent : hand[w] = class}

\* The tasks popped so far, of a class.
Popped(class) == {i \in 1..Len(served) : served[i].task.priority = class}

\* Each event is malformed, parsed or being looked at; each event parsed is shed, pushed or
\* about to be pushed, which fails when the push panics.
ParserCounts ==
    /\ incoming \in Q!Priorities \union {Q!NoClass}
    /\ incoming # Q!NoClass <=> main \in {"push", "failed"}
    /\ main = "failed" <=> panicked
    /\ tally.received = tally.malformed + tally.parsed + (IF main = "dispatch" THEN 1 ELSE 0)
    /\ tally.parsed = tally.shed + pushed + (IF main \in {"push", "failed"} THEN 1 ELSE 0)

\* Each popped task has left its samples, or a worker still owes them.
BooksCount ==
    /\ M!BooksTypeOK
    /\ sent \in [Workers -> BOOLEAN]
    /\ \A w \in Workers : sent[w] => w \in Busy
    /\ \A c \in Q!Priorities :
          metrics.drift[c] + unrecorded.drift[c] + Cardinality(Owed(c)) = Cardinality(Popped(c))
    /\ Done + Cardinality(Busy) = Len(served)

After == {"release", "await"} \union Reporting

OnlyUpdates == \A i \in 1..Len(channel) : channel[i] = "update"

\* The request is the last message, behind the updates not yet counted.
Requested ==
    /\ channel # <<>>
    /\ channel[Len(channel)] = "snapshot"
    /\ \A i \in 1..(Len(channel) - 1) : channel[i] = "update"
    /\ counted + Len(channel) = Len(served) + 1

Answered == channel = <<>> /\ reply = counted /\ counted = Len(served)

\* Each popped task is counted by the leaderboard, in its channel, or not sent yet; when
\* the snapshot is requested everything has been sent.
BoardCounts ==
    /\ Lb!LbTypeOK
    /\ main \notin After =>
          OnlyUpdates /\ counted + Len(channel) + Cardinality(Unsent) = Len(served)
    /\ main \in After => Requested \/ Answered
    /\ ~lbUp => /\ channel = <<>> /\ Gone = Workers
                /\ main \in {"await", "failed"} \union Reporting
    /\ main \in Reporting => ~lbUp

\* Nothing is written before the shutdown; afterwards what the store still says.
ReportsCurrent ==
    /\ report.printed = IF main \in Reporting THEN <<M!Printed>> ELSE <<>>
    /\ report.csv \in IF main \in Reporting THEN {<<>>, <<M!Csv>>} ELSE {<<>>}
    /\ report.hgrm \in IF main \in Reporting THEN {<<>>, <<M!Hgrm>>} ELSE {<<>>}

SummaryInv == ParserCounts /\ BooksCount /\ BoardCounts /\ ReportsCurrent /\ degraded \in BOOLEAN

\* The tasks popped are those of the one class and those of the other.
LEMMA PoppedCount ==
  ASSUME Q!TypeOK
  PROVE  /\ Len(served) \in Nat
         /\ \A c \in Q!Priorities : /\ IsFiniteSet(Popped(c)) /\ Cardinality(Popped(c)) \in Nat
                                    /\ Popped(c) \subseteq 1..Len(served)
         /\ Cardinality(Popped(Q!Human)) + Cardinality(Popped(Q!Bot)) = Len(served)
<1>1. served \in Seq([task : Q!Tasks, seen : Nat])
  BY DEF Q!TypeOK
<1>2. /\ Len(served) \in Nat
      /\ \A i \in 1..Len(served) : served[i].task.priority \in Q!Priorities
  <2>1. ASSUME NEW i \in 1..Len(served) PROVE served[i].task.priority \in Q!Priorities
    <3> DEFINE Pops == [task : Q!Tasks, seen : Nat]
    <3>1. served \in Seq(Pops)
      BY <1>1
    <3> HIDE DEF Pops
    <3>2. served[i] \in Pops
      BY <3>1
    <3> QED BY <3>2 DEF Q!Tasks, Pops
  <2> QED BY <1>1, <2>1
<1>3. IsFiniteSet(1..Len(served)) /\ Cardinality(1..Len(served)) = Len(served)
  <2>1. PICK n \in Nat : n = Len(served)
    BY <1>2
  <2>2. IsFiniteSet(1..n) /\ Cardinality(1..n) = IF 1 > n THEN 0 ELSE n - 1 + 1
    BY FS_Interval
  <2>3. Cardinality(1..n) = n
    BY <2>2
  <2> QED BY <2>1, <2>2, <2>3
<1>4. \A c \in Q!Priorities : /\ IsFiniteSet(Popped(c)) /\ Cardinality(Popped(c)) \in Nat
                              /\ Popped(c) \subseteq 1..Len(served)
  <2>1. \A c \in Q!Priorities : Popped(c) \subseteq 1..Len(served)
    BY DEF Popped
  <2> QED BY <1>3, <2>1, FS_Subset, FS_CardinalityType
<1>5. /\ Popped(Q!Human) \union Popped(Q!Bot) = 1..Len(served)
      /\ Popped(Q!Human) \cap Popped(Q!Bot) = {}
  BY <1>2 DEF Popped, Q!Priorities, Q!Human, Q!Bot
<1>6. Cardinality(Popped(Q!Human) \cap Popped(Q!Bot)) = 0
  BY <1>5, FS_EmptySet
<1>7. Q!Human \in Q!Priorities /\ Q!Bot \in Q!Priorities
  BY DEF Q!Priorities
<1>8. Cardinality(Popped(Q!Human) \union Popped(Q!Bot))
        = Cardinality(Popped(Q!Human)) + Cardinality(Popped(Q!Bot))
  <2>1. /\ IsFiniteSet(Popped(Q!Human)) /\ IsFiniteSet(Popped(Q!Bot))
        /\ Cardinality(Popped(Q!Human)) \in Nat /\ Cardinality(Popped(Q!Bot)) \in Nat
    BY <1>4, <1>7
  <2>2. Cardinality(Popped(Q!Human) \union Popped(Q!Bot))
          = Cardinality(Popped(Q!Human)) + Cardinality(Popped(Q!Bot))
              - Cardinality(Popped(Q!Human) \cap Popped(Q!Bot))
    BY <2>1, FS_Union, Zenon
  <2>3. ASSUME NEW a \in Nat, NEW b \in Nat PROVE a + b - 0 = a + b
    OBVIOUS
  <2> QED BY <1>6, <2>1, <2>2, <2>3
<1> QED BY <1>2, <1>3, <1>4, <1>5, <1>8

\* A pop adds one to the tasks popped, of the class of the task.
LEMMA PopCountsOne ==
  ASSUME Q!TypeOK, NEW w \in Workers, Q!Pop(w)
  PROVE  /\ Len(served') = Len(served) + 1
         /\ \E c \in Q!Priorities :
              /\ hand' = [hand EXCEPT ![w] = c]
              /\ Cardinality(Popped(c)') = Cardinality(Popped(c)) + 1
              /\ \A d \in Q!Priorities \ {c} : Popped(d)' = Popped(d)
<1> DEFINE Pops == [task : Q!Tasks, seen : Nat]
<1>1. PICK t \in heap : /\ served' = Append(served, [task |-> t, seen |-> pushed])
                        /\ hand' = [hand EXCEPT ![w] = t.priority]
  BY DEF Q!Pop, Q!Best
<1>2. t \in Q!Tasks /\ served \in Seq(Pops) /\ pushed \in Nat
  BY DEF Q!TypeOK
<1>3. t.priority \in Q!Priorities /\ [task |-> t, seen |-> pushed] \in Pops
  BY <1>2 DEF Q!Tasks
<1> DEFINE x == [task |-> t, seen |-> pushed]
<1>4. x.task.priority = t.priority
  OBVIOUS
<1> HIDE DEF x, Pops
<1>5. /\ Len(served') = Len(served) + 1 /\ Len(served) \in Nat
      /\ \A i \in 1..Len(served) : served'[i] = served[i]
      /\ served'[Len(served) + 1] = x
  <2>1. served' = Append(served, x)
    BY <1>1 DEF x
  <2>2. x \in Pops
    BY <1>3 DEF x
  <2> QED BY <1>2, <2>1, <2>2
<1>6. /\ Popped(t.priority)' = Popped(t.priority) \union {Len(served) + 1}
      /\ \A d \in Q!Priorities \ {t.priority} : Popped(d)' = Popped(d)
  <2> DEFINE c == t.priority
  <2>1. x.task.priority = c
    BY <1>4
  <2> HIDE DEF c
  <2>2. Popped(c)' = Popped(c) \union {Len(served) + 1}
    BY <1>5, <2>1 DEF Popped
  <2>3. \A d \in Q!Priorities \ {c} : Popped(d)' = Popped(d)
    BY <1>5, <2>1 DEF Popped
  <2> QED BY <2>2, <2>3 DEF c
<1>7. /\ IsFiniteSet(Popped(t.priority)) /\ Len(served) + 1 \notin Popped(t.priority)
  BY <1>3, <1>5, PoppedCount
<1>8. Cardinality(Popped(t.priority)') = Cardinality(Popped(t.priority)) + 1
  BY <1>6, <1>7, FS_AddElement
<1> QED BY <1>1, <1>3, <1>5, <1>6, <1>8

\* What a step leaves alone stays counted.
PoolKept == UNCHANGED <<served, hand, sent, Busy, Gone>>
StoreKept == UNCHANGED <<metrics, unrecorded>>

LEMMA CountsStay ==
  /\ ParserCounts /\ UNCHANGED <<incoming, main, tally, panicked, pushed>> => ParserCounts'
  /\ BooksCount /\ PoolKept /\ StoreKept /\ UNCHANGED report => BooksCount'
  /\ BoardCounts /\ PoolKept /\ UNCHANGED lbVars
       /\ (main' = main \/ (main \notin After \union {"failed"} /\ main' \notin After))
       => BoardCounts'
  /\ ReportsCurrent /\ StoreKept /\ UNCHANGED report
       /\ (main' \in Reporting <=> main \in Reporting) => ReportsCurrent'
<1>1. ASSUME ParserCounts, UNCHANGED <<incoming, main, tally, panicked, pushed>>
      PROVE  ParserCounts'
  BY <1>1 DEF ParserCounts
<1>2. ASSUME BooksCount, PoolKept, StoreKept, UNCHANGED report PROVE BooksCount'
  <2>1. \A c \in Q!Priorities : Owed(c)' = Owed(c) /\ Popped(c)' = Popped(c)
    BY <1>2 DEF PoolKept, Owed, Unsent, Popped
  <2> QED BY <1>2, <2>1 DEF BooksCount, PoolKept, StoreKept, M!BooksTypeOK, Done
<1>3. ASSUME BoardCounts, PoolKept, UNCHANGED lbVars,
             main' = main \/ (main \notin After \union {"failed"} /\ main' \notin After)
      PROVE  BoardCounts'
  <2>1. Unsent' = Unsent
    BY <1>3 DEF PoolKept, Unsent
  <2>2. Lb!LbTypeOK'
    BY <1>3 DEF BoardCounts, lbVars, Lb!LbTypeOK
  <2>3. (OnlyUpdates' <=> OnlyUpdates) /\ (Requested' <=> Requested) /\ (Answered' <=> Answered)
    BY <1>3 DEF lbVars, PoolKept, OnlyUpdates, Requested, Answered
  <2> QED BY <1>3, <2>1, <2>2, <2>3 DEF BoardCounts, lbVars, PoolKept, After
<1>4. ASSUME ReportsCurrent, StoreKept, UNCHANGED report,
             main' \in Reporting <=> main \in Reporting
      PROVE  ReportsCurrent'
  <2>1. M!Printed' = M!Printed /\ M!Csv' = M!Csv /\ M!Hgrm' = M!Hgrm
    BY <1>4 DEF StoreKept, M!Printed, M!Csv, M!Hgrm
  <2> QED BY <1>4, <2>1 DEF ReportsCurrent
<1> QED BY <1>1, <1>2, <1>3, <1>4

\* The parser counts what it receives and what it makes of it.
LEMMA ParserStepCounts ==
  ASSUME TInv, Q!TypeOK, SummaryInv,
         \/ ReadLine \/ LineCancelled \/ LineToSink \/ EndOfIngest \/ Reject \/ Shed
         \/ \E class \in Q!Priorities : Accept(class)
  PROVE  SummaryInv'
<1>1. UNCHANGED <<served, pushed, hand, pc, panicked, sent, metrics, unrecorded, report,
                  lbVars, degraded>>
  BY DEF ReadLine, LineCancelled, LineToSink, EndOfIngest, Reject, Shed, Accept, ingestFrame,
         queueVars, books
<1>2. PoolKept /\ StoreKept
  BY <1>1 DEF PoolKept, StoreKept, Busy, Gone
<1>3. main \in Ingesting /\ main' \in Ingesting \union {"stop"}
  BY DEF ReadLine, LineCancelled, LineToSink, EndOfIngest, Reject, Shed, Accept, Ingesting
<1>4. /\ main \notin After \union Reporting \union {"failed"}
      /\ main' \notin After \union Reporting \union {"failed"}
  BY <1>3 DEF After, Reporting, Ingesting
<1>5. BooksCount' /\ BoardCounts' /\ ReportsCurrent'
  BY <1>1, <1>2, <1>4, CountsStay DEF SummaryInv
<1>6. ParserCounts'
  <2>0. tally \in Tallies /\ pushed \in Nat
    BY DEF TInv, Q!TypeOK
  <2>5. /\ Parsed \in Tallies /\ Parsed.received = tally.received
        /\ Parsed.malformed = tally.malformed /\ Parsed.shed = tally.shed
        /\ Parsed.parsed = tally.parsed + 1
    BY <2>0 DEF Parsed, Tallies
  <2> USE DEF SummaryInv, ParserCounts
  <2>1. CASE ReadLine \/ LineCancelled \/ EndOfIngest
    BY <1>1, <2>1 DEF ReadLine, LineCancelled, EndOfIngest
  <2>2. CASE LineToSink
    <3>1. /\ tally'.received = tally.received + 1 /\ tally'.malformed = tally.malformed
          /\ tally'.parsed = tally.parsed /\ tally'.shed = tally.shed
      BY <2>0, <2>2 DEF LineToSink, Tallies
    <3> QED BY <1>1, <2>0, <2>2, <3>1 DEF LineToSink, Tallies
  <2>3. CASE Reject
    <3>1. /\ tally'.received = tally.received /\ tally'.malformed = tally.malformed + 1
          /\ tally'.parsed = tally.parsed /\ tally'.shed = tally.shed
      BY <2>0, <2>3 DEF Reject, Tallies
    <3> QED BY <1>1, <2>0, <2>3, <3>1 DEF Reject, Tallies
  <2>4. CASE Shed
    <3> DEFINE p == Parsed
    <3>1. tally' = [p EXCEPT !.shed = @ + 1]
      BY <2>4 DEF Shed
    <3> HIDE DEF p
    <3>2. p \in Tallies
      BY <2>5 DEF p
    <3>3. /\ tally'.received = p.received /\ tally'.malformed = p.malformed
          /\ tally'.parsed = p.parsed /\ tally'.shed = p.shed + 1
      BY <3>1, <3>2 DEF Tallies
    <3>4. main = "dispatch" /\ main' = "read" /\ incoming' = incoming
      BY <2>4 DEF Shed
    <3>5. /\ tally'.received = tally.received /\ tally'.malformed = tally.malformed
          /\ tally'.parsed = tally.parsed + 1 /\ tally'.shed = tally.shed + 1
      BY <2>5, <3>3 DEF p
    <3> QED BY <1>1, <2>0, <3>4, <3>5 DEF Tallies
  <2>6. CASE \E class \in Q!Priorities : Accept(class)
    <3>1. /\ tally' = Parsed /\ main = "dispatch" /\ main' = "push"
          /\ incoming' \in Q!Priorities
      BY <2>6 DEF Accept
    <3>2. /\ tally'.received = tally.received /\ tally'.malformed = tally.malformed
          /\ tally'.parsed = tally.parsed + 1 /\ tally'.shed = tally.shed
      BY <2>5, <3>1
    <3> QED BY <1>1, <2>0, <3>1, <3>2 DEF Tallies, Q!Priorities, Q!Human, Q!Bot, Q!NoClass
  <2> QED BY <2>1, <2>2, <2>3, <2>4, <2>6
<1> QED BY <1>1, <1>5, <1>6 DEF SummaryInv

\* The task the parser was about to push is pushed, or the push panics.
LEMMA PushStepCounts ==
  ASSUME TInv, Q!TypeOK, SummaryInv, PushTask \/ PushPanics PROVE SummaryInv'
<1>0. UNCHANGED <<sent, metrics, unrecorded, report, lbVars, tally, degraded>>
  BY DEF PushTask, PushPanics, ingestFrame, books
<1>1. main = "push" /\ main' \in {"read", "failed"}
  BY DEF PushTask, PushPanics
<1>2. UNCHANGED <<served, hand, Busy, Gone>>
  <2>1. CASE PushTask
    <3>1. incoming \in Q!Priorities /\ QueueInv
      BY <1>1 DEF TInv
    <3>2. PICK tick \in Ticks : Q!Push(incoming, tick)
      BY <2>1 DEF PushTask
    <3>3. UNCHANGED <<Busy, Gone>>
      BY <3>1, <3>2, PushCounts
    <3>4. UNCHANGED <<served, hand>>
      BY <3>2 DEF Q!Push
    <3> QED BY <3>3, <3>4
  <2>2. CASE PushPanics
    BY <2>2 DEF PushPanics, Q!PushPanics, Q!workers, Q!log, Busy, Gone
  <2> QED BY <2>1, <2>2
<1>3. PoolKept /\ StoreKept
  BY <1>0, <1>2 DEF PoolKept, StoreKept
<1>4. /\ main \notin After \union Reporting \union {"failed"}
      /\ main' \notin After \union Reporting
  BY <1>1 DEF After, Reporting
<1>5. BooksCount' /\ BoardCounts' /\ ReportsCurrent'
  BY <1>0, <1>3, <1>4, CountsStay DEF SummaryInv
<1>6. ParserCounts'
  <2>0. tally \in Tallies /\ pushed \in Nat
    BY DEF TInv, Q!TypeOK
  <2>1. CASE PushTask
    <3>1. /\ main' = "read" /\ incoming' = Q!NoClass /\ pushed' = pushed + 1
          /\ panicked' = panicked
      BY <2>1 DEF PushTask, Q!Push
    <3> QED BY <1>0, <1>1, <2>0, <3>1 DEF SummaryInv, ParserCounts, Tallies
  <2>2. CASE PushPanics
    <3>1. /\ main' = "failed" /\ incoming' = incoming /\ pushed' = pushed /\ panicked' = TRUE
      BY <2>2 DEF PushPanics, Q!PushPanics, Q!log
    <3> QED BY <1>0, <1>1, <2>0, <3>1 DEF SummaryInv, ParserCounts, Tallies
  <2> QED BY <2>1, <2>2
<1> QED BY <1>0, <1>5, <1>6 DEF SummaryInv

\* The sets of workers counted are finite; a worker enters or leaves them one at a time.
LEMMA OwedCount ==
  /\ Cardinality(Unsent) \in Nat /\ Cardinality(Busy) \in Nat
  /\ \A c \in Q!Priorities : Cardinality(Owed(c)) \in Nat
<1>1. ASSUME NEW S \in SUBSET Workers PROVE Cardinality(S) \in Nat
  BY ThreadedAssumption, FS_Subset, FS_CardinalityType
<1>2. /\ Unsent \in SUBSET Workers /\ Busy \in SUBSET Workers
      /\ \A c \in Q!Priorities : Owed(c) \in SUBSET Workers
  BY DEF Unsent, Owed, Busy
<1> QED BY <1>1, <1>2

\* A worker pops a task, which it owes the store and the leaderboard, or moves none.
LEMMA PopStepCounts ==
  ASSUME TInv, Q!TypeOK, SummaryInv, NEW w \in Workers, WorkerPop(w) PROVE SummaryInv'
<1>1. UNCHANGED <<sent, metrics, unrecorded, report, lbVars, degraded, main, incoming, tally>>
  BY DEF WorkerPop, books, workerFrame
<1>2. UNCHANGED <<pushed, panicked>>
  BY DEF WorkerPop, Q!EnterCancelled, Q!Enter, Q!Pop, Q!Wait, Q!Timeout, Q!store, Q!log
<1>3. ParserCounts' /\ ReportsCurrent'
  BY <1>1, <1>2, CountsStay DEF SummaryInv, StoreKept
<1>4. CASE Q!EnterCancelled(w) \/ Q!Enter(w) \/ Q!Wait(w) \/ Q!Timeout(w)
  <2>1. Busy' = Busy /\ Gone \subseteq Gone' /\ UNCHANGED <<served, hand>>
    <3>1. Busy' = Busy /\ Gone \subseteq Gone'
      BY <1>4, WaitingCounts DEF TInv
    <3>2. UNCHANGED <<served, hand>>
      BY <1>4 DEF Q!EnterCancelled, Q!Enter, Q!Wait, Q!Timeout, Q!log
    <3> QED BY <3>1, <3>2
  <2>2. Unsent' = Unsent /\ \A c \in Q!Priorities : Owed(c)' = Owed(c) /\ Popped(c)' = Popped(c)
    BY <1>1, <2>1 DEF Unsent, Owed, Popped
  <2>3. BooksCount'
    BY <1>1, <2>1, <2>2 DEF SummaryInv, BooksCount, M!BooksTypeOK, Done
  <2>4. BoardCounts'
    <3>1. (OnlyUpdates' <=> OnlyUpdates) /\ (Requested' <=> Requested) /\ (Answered' <=> Answered)
      BY <1>1, <2>1 DEF lbVars, OnlyUpdates, Requested, Answered
    <3>2. Lb!LbTypeOK'
      BY <1>1 DEF SummaryInv, BoardCounts, lbVars, Lb!LbTypeOK
    <3>3. Gone = Workers => Gone' = Workers
      BY <2>1 DEF Gone
    <3> QED BY <1>1, <2>1, <2>2, <3>1, <3>2, <3>3 DEF SummaryInv, BoardCounts, lbVars
  <2> QED BY <1>1, <1>3, <2>3, <2>4 DEF SummaryInv
<1>5. CASE Q!Pop(w)
  <2>1. PICK c \in Q!Priorities :
          /\ hand' = [hand EXCEPT ![w] = c]
          /\ Cardinality(Popped(c)') = Cardinality(Popped(c)) + 1
          /\ \A d \in Q!Priorities \ {c} : Popped(d)' = Popped(d)
    BY <1>5, PopCountsOne
  <2>2. Len(served') = Len(served) + 1 /\ Len(served) \in Nat
    BY <1>5, PopCountsOne, PoppedCount
  <2>3. w \notin Gone /\ w \notin Busy /\ Busy' = Busy \union {w} /\ Gone' = Gone
    BY <1>5, PopCounts DEF TInv
  <2>4. ~sent[w] /\ sent' = sent
    BY <1>1, <2>3 DEF SummaryInv, BooksCount
  <2>5. /\ w \notin Unsent /\ Unsent' = Unsent \union {w}
        /\ w \notin Owed(c) /\ Owed(c)' = Owed(c) \union {w}
        /\ \A d \in Q!Priorities \ {c} : Owed(d)' = Owed(d)
    <3>1. w \notin Unsent /\ Unsent' = Unsent \union {w}
      BY <2>3, <2>4 DEF Unsent
    <3>2. \A v \in Unsent : v # w /\ hand'[v] = hand[v]
      BY <2>1, <3>1 DEF Q!TypeOK, Unsent, Busy
    <3>3. hand'[w] = c
      BY <2>1 DEF Q!TypeOK
    <3> QED BY <3>1, <3>2, <3>3 DEF Owed
  <2>6. /\ Cardinality(Unsent') = Cardinality(Unsent) + 1
        /\ Cardinality(Owed(c)') = Cardinality(Owed(c)) + 1
        /\ Cardinality(Busy') = Cardinality(Busy) + 1
    BY <2>3, <2>5, OneMoreOrLess DEF Unsent, Owed, Busy
  <2>7. BooksCount'
    <3>1. /\ M!BooksTypeOK' /\ Done' = Done /\ Done \in Nat
          /\ \A d \in Q!Priorities : /\ metrics'.drift[d] = metrics.drift[d]
                                     /\ unrecorded'.drift[d] = unrecorded.drift[d]
                                     /\ metrics.drift[d] \in Nat /\ unrecorded.drift[d] \in Nat
      BY <1>1 DEF SummaryInv, BooksCount, M!BooksTypeOK, Done
    <3>2. ASSUME NEW d \in Q!Priorities
          PROVE  metrics'.drift[d] + unrecorded'.drift[d] + Cardinality(Owed(d)')
                   = Cardinality(Popped(d)')
      <4>1. metrics.drift[d] + unrecorded.drift[d] + Cardinality(Owed(d)) = Cardinality(Popped(d))
        BY DEF SummaryInv, BooksCount
      <4>2. CASE d = c
        <5>1. PICK a, b, o \in Nat : /\ a = metrics.drift[c] /\ b = unrecorded.drift[c]
                                     /\ o = Cardinality(Owed(c))
          BY <3>1, OwedCount
        <5>2. a + b + (o + 1) = (a + b + o) + 1
          OBVIOUS
        <5>3. metrics'.drift[c] + unrecorded'.drift[c] + Cardinality(Owed(c)')
                = Cardinality(Popped(c)')
          BY <2>1, <2>6, <3>1, <4>1, <4>2, <5>1, <5>2
        <5> QED BY <4>2, <5>3
      <4>3. CASE d # c
        BY <2>1, <2>5, <3>1, <4>1, <4>3
      <4> QED BY <4>2, <4>3
    <3>3. Done' + Cardinality(Busy') = Len(served')
      BY <2>2, <2>6, <3>1, OwedCount DEF SummaryInv, BooksCount
    <3>4. sent' \in [Workers -> BOOLEAN] /\ \A v \in Workers : sent'[v] => v \in Busy'
      BY <2>3, <2>4 DEF SummaryInv, BooksCount
    <3> QED BY <3>1, <3>2, <3>3, <3>4 DEF BooksCount
  <2>8. BoardCounts'
    <3>1. main \notin After /\ main' = main
      BY <1>1, <2>3 DEF TInv, After
    <3>2. Lb!LbTypeOK' /\ (OnlyUpdates' <=> OnlyUpdates)
      BY <1>1 DEF SummaryInv, BoardCounts, lbVars, Lb!LbTypeOK, OnlyUpdates
    <3>3. OnlyUpdates /\ counted + Len(channel) + Cardinality(Unsent) = Len(served)
          /\ counted \in Nat /\ Len(channel) \in Nat
      BY <3>1 DEF SummaryInv, BoardCounts, Lb!LbTypeOK
    <3>4. counted' + Len(channel') + Cardinality(Unsent') = Len(served')
      BY <1>1, <2>2, <2>6, <3>3, OwedCount DEF lbVars
    <3>5. lbUp'
      BY <1>1, <2>3 DEF SummaryInv, BoardCounts, lbVars
    <3> QED BY <3>1, <3>2, <3>3, <3>4, <3>5 DEF BoardCounts, After
  <2> QED BY <1>1, <1>3, <2>7, <2>8 DEF SummaryInv
<1> QED BY <1>4, <1>5 DEF WorkerPop

\* The drift is recorded and the update sent: the worker owes neither any more.
LEMMA SendStepCounts ==
  ASSUME TInv, Q!TypeOK, SummaryInv, NEW w \in Workers, SendUpdate(w) PROVE SummaryInv'
<1>1. /\ UNCHANGED <<pc, hand, served, pushed, panicked, degraded, main, incoming, tally>>
      /\ w \in Busy /\ ~sent[w] /\ sent' = [sent EXCEPT ![w] = TRUE]
  BY DEF SendUpdate, queueVars, workerFrame, Busy
<1>2. PICK c \in Q!Priorities : c = hand[w]
  BY <1>1 DEF Q!TypeOK, Busy
<1>3. M!BooksTypeOK /\ sent \in [Workers -> BOOLEAN] /\ Lb!LbTypeOK
  BY DEF SummaryInv, BooksCount, BoardCounts
<1>4. /\ M!BooksTypeOK' /\ UNCHANGED report
      /\ \A d \in Q!Priorities : metrics'.drift[d] + unrecorded'.drift[d]
           = metrics.drift[d] + unrecorded.drift[d] + (IF d = c THEN 1 ELSE 0)
      /\ metrics'.jitter = metrics.jitter /\ unrecorded'.jitter = unrecorded.jitter
  <2>1. M!RecordDrift(c)
    BY <1>2 DEF SendUpdate
  <2> QED BY <1>3, <2>1, DriftRecorded
<1>5. /\ Busy' = Busy /\ Gone' = Gone
      /\ w \in Unsent /\ Unsent' = Unsent \ {w}
      /\ w \in Owed(c) /\ Owed(c)' = Owed(c) \ {w}
      /\ \A d \in Q!Priorities \ {c} : Owed(d)' = Owed(d)
      /\ \A d \in Q!Priorities : Popped(d)' = Popped(d)
  <2>1. Busy' = Busy /\ Gone' = Gone /\ \A d \in Q!Priorities : Popped(d)' = Popped(d)
    BY <1>1 DEF Busy, Gone, Popped
  <2>2. w \in Unsent /\ Unsent' = Unsent \ {w}
    BY <1>1, <1>3, <2>1 DEF Unsent, Busy
  <2> QED BY <1>1, <1>2, <2>1, <2>2 DEF Owed
<1>6. /\ Cardinality(Unsent') = Cardinality(Unsent) - 1
      /\ Cardinality(Owed(c)') = Cardinality(Owed(c)) - 1
  BY <1>5, OneMoreOrLess DEF Unsent, Owed, Busy
<1>7. BooksCount'
  <2>1. \A d \in Q!Priorities : /\ metrics.drift[d] \in Nat /\ unrecorded.drift[d] \in Nat
                                /\ metrics'.drift[d] \in Nat /\ unrecorded'.drift[d] \in Nat
    BY <1>3, <1>4 DEF M!BooksTypeOK
  <2>2. ASSUME NEW d \in Q!Priorities
        PROVE  metrics'.drift[d] + unrecorded'.drift[d] + Cardinality(Owed(d)')
                 = Cardinality(Popped(d))
    <3>1. metrics.drift[d] + unrecorded.drift[d] + Cardinality(Owed(d)) = Cardinality(Popped(d))
      BY DEF SummaryInv, BooksCount
    <3>2. CASE d = c
      <4>1. PICK a, o \in Nat : /\ a = metrics.drift[d] + unrecorded.drift[d]
                                /\ o = Cardinality(Owed(d))
        BY <2>1, OwedCount
      <4>2. (a + 1) + (o - 1) = a + o
        OBVIOUS
      <4>3. Cardinality(Owed(d)') = o - 1
        BY <1>6, <3>2, <4>1
      <4>4. metrics'.drift[d] + unrecorded'.drift[d] = a + 1
        BY <1>4, <3>2, <4>1
      <4> QED BY <3>1, <4>1, <4>2, <4>3, <4>4
    <3>3. CASE d # c
      <4>1. metrics'.drift[d] + unrecorded'.drift[d] = metrics.drift[d] + unrecorded.drift[d]
        BY <1>4, <2>1, <3>3
      <4> QED BY <1>5, <3>1, <3>3, <4>1
    <3> QED BY <3>2, <3>3
  <2>3. Done' = Done
    BY <1>4 DEF Done
  <2>4. sent' \in [Workers -> BOOLEAN] /\ \A v \in Workers : sent'[v] => v \in Busy'
    BY <1>1, <1>3, <1>5 DEF SummaryInv, BooksCount
  <2> QED BY <1>1, <1>4, <1>5, <2>2, <2>3, <2>4 DEF SummaryInv, BooksCount
<1>8. main \notin After /\ main \notin Reporting /\ lbUp
  <2>1. w \notin Gone
    BY <1>1 DEF Busy, Gone
  <2> QED BY <2>1 DEF TInv, After, SummaryInv, BoardCounts
<1>9. BoardCounts'
  <2>1. /\ channel' = Append(channel, "update") /\ Len(channel) < MaxEvents + 1
        /\ UNCHANGED <<lbUp, counted, reply>>
    BY DEF SendUpdate, Lb!Send, Lb!Sent, Lb!Room
  <2>2. /\ channel' \in Seq(Lb!Messages) /\ Len(channel') = Len(channel) + 1
        /\ Len(channel) \in Nat
        /\ \A i \in 1..Len(channel) : channel'[i] = channel[i]
        /\ channel'[Len(channel) + 1] = "update"
    BY <1>3, <2>1 DEF Lb!LbTypeOK, Lb!Messages
  <2>3. Lb!LbTypeOK'
    BY <1>3, <2>1, <2>2, ThreadedAssumption DEF Lb!LbTypeOK
  <2>4. OnlyUpdates /\ counted + Len(channel) + Cardinality(Unsent) = Len(served)
    BY <1>8 DEF SummaryInv, BoardCounts
  <2>5. OnlyUpdates'
    BY <2>2, <2>4 DEF OnlyUpdates
  <2>6. counted' + Len(channel') + Cardinality(Unsent') = Len(served')
    <3>1. counted \in Nat
      BY <1>3 DEF Lb!LbTypeOK
    <3>2. PICK k, n, u \in Nat : k = counted /\ n = Len(channel) /\ u = Cardinality(Unsent)
      BY <2>2, <3>1, OwedCount
    <3>3. k + (n + 1) + (u - 1) = k + n + u
      OBVIOUS
    <3> QED BY <1>1, <1>6, <2>1, <2>2, <2>4, <3>2, <3>3
  <2> QED BY <1>1, <1>8, <2>1, <2>3, <2>5, <2>6 DEF BoardCounts
<1>10. ParserCounts' /\ ReportsCurrent'
  BY <1>1, <1>4, <1>8, CountsStay DEF SummaryInv, ReportsCurrent
<1> QED BY <1>1, <1>7, <1>9, <1>10 DEF SummaryInv

\* The jitter is recorded, the drift was recorded before; the task is done.
LEMMA FinishStepCounts ==
  ASSUME TInv, Q!TypeOK, SummaryInv, NEW w \in Workers, FinishTask(w) PROVE SummaryInv'
<1>1. /\ UNCHANGED <<served, pushed, panicked, degraded, main, incoming, tally, lbVars>>
      /\ sent[w] /\ sent' = [sent EXCEPT ![w] = FALSE]
      /\ pc[w] = "busy" /\ pc' = [pc EXCEPT ![w] = "loop"]
      /\ hand' = [hand EXCEPT ![w] = Q!NoClass]
  BY DEF FinishTask, Q!Finish, Q!store, Q!log, workerFrame
<1>2. PICK c \in Q!Priorities : c = hand[w]
  BY <1>1 DEF Q!TypeOK
<1>3. /\ M!BooksTypeOK /\ Books
      /\ sent \in [Workers -> BOOLEAN] /\ \A v \in Workers : sent[v] => v \in Busy
  BY DEF SummaryInv, BooksCount, TInv
<1>4. /\ M!BooksTypeOK' /\ UNCHANGED report
      /\ metrics'.drift = metrics.drift /\ unrecorded'.drift = unrecorded.drift
      /\ Done' = Done + 1
  <2>1. M!RecordJitter(c)
    BY <1>2 DEF FinishTask
  <2>2. Done' = Done + 1
    BY <1>3, <2>1, SamplesCount
  <2> QED BY <1>3, <2>1, <2>2, JitterRecorded
<1>5. /\ w \in Busy /\ Busy' = Busy \ {w} /\ Gone' = Gone /\ w \notin Gone
      /\ Unsent' = Unsent
      /\ \A d \in Q!Priorities : Owed(d)' = Owed(d) /\ Popped(d)' = Popped(d)
  <2>1. w \in Busy /\ Busy' = Busy \ {w} /\ Gone' = Gone /\ w \notin Gone
    BY <1>1 DEF Q!TypeOK, Busy, Gone
  <2>2. Unsent' = Unsent /\ w \notin Unsent
    BY <1>1, <1>3, <2>1 DEF Unsent, Busy
  <2>3. \A v \in Unsent : hand'[v] = hand[v]
    BY <1>1, <2>2
  <2>4. \A d \in Q!Priorities : Owed(d)' = Owed(d) /\ Popped(d)' = Popped(d)
    BY <1>1, <2>2, <2>3 DEF Owed, Popped
  <2> QED BY <2>1, <2>2, <2>4
<1>6. Cardinality(Busy') = Cardinality(Busy) - 1 /\ Cardinality(Busy) \in Nat
  BY <1>5, BusyCounts
<1>7. BooksCount'
  <2>1. Done \in Nat
    BY <1>3 DEF Books, Done
  <2>2. Done' + Cardinality(Busy') = Done + Cardinality(Busy)
    BY <1>4, <1>6, <2>1
  <2>3. sent' \in [Workers -> BOOLEAN] /\ \A v \in Workers : sent'[v] => v \in Busy'
    BY <1>1, <1>3, <1>5
  <2> QED BY <1>1, <1>4, <1>5, <2>2, <2>3 DEF SummaryInv, BooksCount
<1>8. main \notin Reporting
  BY <1>5 DEF TInv
<1>9. BoardCounts'
  <2>1. (OnlyUpdates' <=> OnlyUpdates) /\ (Requested' <=> Requested) /\ (Answered' <=> Answered)
    BY <1>1 DEF lbVars, OnlyUpdates, Requested, Answered
  <2>2. Lb!LbTypeOK'
    BY <1>1 DEF SummaryInv, BoardCounts, lbVars, Lb!LbTypeOK
  <2> QED BY <1>1, <1>5, <2>1, <2>2 DEF SummaryInv, BoardCounts, lbVars
<1>10. ParserCounts' /\ ReportsCurrent'
  BY <1>1, <1>4, <1>8, CountsStay DEF SummaryInv, ReportsCurrent
<1> QED BY <1>1, <1>7, <1>9, <1>10 DEF SummaryInv

\* The leaderboard counts the updates before it answers, and ends when nothing is left.
LEMMA BoardStepCounts ==
  ASSUME TInv, SummaryInv, LbStep \/ LbExit PROVE SummaryInv'
<1>1. /\ UNCHANGED <<pc, hand, served, sent, pushed, panicked, metrics, unrecorded, report>>
      /\ UNCHANGED <<degraded, main, incoming, tally>>
  BY DEF LbStep, LbExit, queueVars, books, workerFrame
<1>2. PoolKept /\ StoreKept
  BY <1>1 DEF PoolKept, StoreKept, Busy, Gone
<1>3. ParserCounts' /\ BooksCount' /\ ReportsCurrent'
  BY <1>1, <1>2, CountsStay DEF SummaryInv
<1>4. Unsent' = Unsent
  BY <1>2 DEF PoolKept, Unsent
<1>5. BoardCounts'
  <2> USE <1>1, <1>2, <1>4 DEF PoolKept
  <2>0. Lb!LbTypeOK
    BY DEF SummaryInv, BoardCounts
  <2>1. ASSUME NEW m \in Lb!Messages, lbUp, channel # <<>>, Head(channel) = m,
               channel' = Tail(channel)
        PROVE  /\ channel' \in Seq(Lb!Messages) /\ Len(channel') = Len(channel) - 1
               /\ Len(channel) \in Nat \ {0} /\ channel[1] = m
               /\ \A i \in 1..Len(channel') : channel'[i] = channel[i + 1]
    BY <2>0, <2>1 DEF Lb!LbTypeOK
  <2>2. CASE Lb!CountUpdate
    <3>1. /\ lbUp /\ channel # <<>> /\ Head(channel) = "update" /\ channel' = Tail(channel)
          /\ counted' = counted + 1 /\ UNCHANGED <<lbUp, reply>>
      BY <2>2 DEF Lb!CountUpdate
    <3>2. /\ channel' \in Seq(Lb!Messages) /\ Len(channel') = Len(channel) - 1
          /\ Len(channel) \in Nat \ {0} /\ channel[1] = "update"
          /\ \A i \in 1..Len(channel') : channel'[i] = channel[i + 1]
      BY <2>1, <3>1 DEF Lb!Messages
    <3>3. Lb!LbTypeOK'
      BY <2>0, <3>1, <3>2, ThreadedAssumption DEF Lb!LbTypeOK
    <3>4. ASSUME OnlyUpdates, counted + Len(channel) + Cardinality(Unsent) = Len(served)
          PROVE  OnlyUpdates' /\ counted' + Len(channel') + Cardinality(Unsent') = Len(served')
      <4>1. OnlyUpdates'
        BY <3>2, <3>4 DEF OnlyUpdates
      <4>2. PICK k, n, u \in Nat : k = counted /\ n = Len(channel) /\ u = Cardinality(Unsent)
        BY <2>0, <3>2, OwedCount DEF Lb!LbTypeOK
      <4>3. (k + 1) + (n - 1) + u = k + n + u
        OBVIOUS
      <4> QED BY <3>1, <3>2, <3>4, <4>1, <4>2, <4>3
    <3>5. ASSUME Requested PROVE Requested'
      <4>1. Len(channel) # 1
        BY <3>2, <3>5 DEF Requested
      <4>2. channel' # <<>> /\ channel'[Len(channel')] = "snapshot"
        BY <3>2, <3>5, <4>1 DEF Requested
      <4>3. \A i \in 1..(Len(channel') - 1) : channel'[i] = "update"
        BY <3>2, <3>5 DEF Requested
      <4>4. counted' + Len(channel') = Len(served') + 1
        BY <2>0, <3>1, <3>2, <3>5 DEF Requested, Lb!LbTypeOK
      <4> QED BY <4>2, <4>3, <4>4 DEF Requested
    <3> QED BY <3>1, <3>3, <3>4, <3>5 DEF SummaryInv, BoardCounts, Answered
  <2>3. CASE Lb!AnswerSnapshot
    <3>1. /\ lbUp /\ channel # <<>> /\ Head(channel) = "snapshot" /\ channel' = Tail(channel)
          /\ reply' = counted /\ UNCHANGED <<lbUp, counted>>
      BY <2>3 DEF Lb!AnswerSnapshot
    <3>2. /\ channel' \in Seq(Lb!Messages) /\ Len(channel') = Len(channel) - 1
          /\ Len(channel) \in Nat \ {0} /\ channel[1] = "snapshot"
          /\ \A i \in 1..Len(channel') : channel'[i] = channel[i + 1]
      BY <2>1, <3>1 DEF Lb!Messages
    <3>3. Lb!LbTypeOK'
      BY <2>0, <3>1, <3>2, ThreadedAssumption DEF Lb!LbTypeOK
    <3>4. ~OnlyUpdates
      BY <3>2 DEF OnlyUpdates
    <3>5. ASSUME Requested PROVE Answered'
      <4>1. Len(channel) = 1
        BY <3>2, <3>5 DEF Requested
      <4>2. channel' = <<>>
        BY <3>2, <4>1
      <4> QED BY <2>0, <3>1, <3>5, <4>1, <4>2 DEF Requested, Answered, Lb!LbTypeOK
    <3> QED BY <3>1, <3>3, <3>4, <3>5 DEF SummaryInv, BoardCounts, Answered
  <2>4. CASE LbExit
    <3>1. /\ channel = <<>> /\ UNCHANGED <<channel, counted, reply>> /\ ~lbUp'
          /\ main \in {"await", "failed"} \union Reporting /\ Gone = Workers
      BY <2>4 DEF LbExit, Lb!Exit, Gone
    <3>2. Lb!LbTypeOK'
      BY <2>0, <2>4, <3>1 DEF LbExit, Lb!Exit, Lb!LbTypeOK
    <3>3. (OnlyUpdates' <=> OnlyUpdates) /\ (Requested' <=> Requested) /\ (Answered' <=> Answered)
      BY <3>1 DEF OnlyUpdates, Requested, Answered
    <3> QED BY <3>1, <3>2, <3>3 DEF SummaryInv, BoardCounts
  <2> QED BY <2>2, <2>3, <2>4 DEF LbStep, Lb!Step
<1> QED BY <1>1, <1>3, <1>5 DEF SummaryInv

\* The shutdown requests the snapshot when every worker is joined, so that nothing is left
\* to send, and writes the report when the leaderboard has ended.
LEMMA OtherStepsCount ==
  ASSUME TInv, Q!TypeOK, SummaryInv,
         \/ SwitchMode \/ ExternalCancel \/ SetCancel \/ WakeWorkers
         \/ RequestSnapshot \/ DropSender \/ PrintSummary \/ DumpMetrics
         \/ UNCHANGED threadedVars
  PROVE  SummaryInv'
<1>1. /\ StoreKept
      /\ UNCHANGED <<tally, incoming, sent, served, hand, pushed, panicked>>
      /\ degraded' \in BOOLEAN
  BY DEF SummaryInv, SwitchMode, ExternalCancel, SetCancel, WakeWorkers, RequestSnapshot,
     DropSender, PrintSummary, DumpMetrics, Q!Cancel, Q!WakeAll, Q!store, Q!workers, Q!log,
     mainFrame, ingestFrame, threadedVars, queueVars, books, StoreKept, M!PrintMetrics,
     M!DumpCsv, M!DumpHgrm
<1>2. Busy' = Busy /\ Gone \subseteq Gone'
  <2>1. CASE ExternalCancel \/ WakeWorkers
    BY <2>1, WaitingCounts DEF TInv, ExternalCancel, WakeWorkers
  <2>2. CASE \/ SwitchMode \/ SetCancel \/ RequestSnapshot \/ DropSender \/ PrintSummary
             \/ DumpMetrics \/ UNCHANGED threadedVars
    <3>1. pc' = pc
      BY <2>2 DEF SwitchMode, SetCancel, RequestSnapshot, DropSender, PrintSummary, DumpMetrics,
         threadedVars, queueVars, Q!Cancel, Q!store, Q!workers, Q!log
    <3> QED BY <3>1 DEF Busy, Gone
  <2> QED BY <2>1, <2>2
<1>3. Gone = Workers => Gone' = Workers
  BY <1>2 DEF Gone
<1>4. /\ Unsent' = Unsent
      /\ \A c \in Q!Priorities : Owed(c)' = Owed(c) /\ Popped(c)' = Popped(c)
  BY <1>1, <1>2 DEF Unsent, Owed, Popped
<1>5. ParserCounts'
  <2>1. \/ main' = main
        \/ /\ main \notin {"dispatch", "push", "failed"}
           /\ main' \notin {"dispatch", "push", "failed"}
    BY DEF SwitchMode, ExternalCancel, SetCancel, WakeWorkers, RequestSnapshot, DropSender,
       PrintSummary, DumpMetrics, threadedVars
  <2>2. /\ main' = "dispatch" <=> main = "dispatch"
        /\ main' = "failed" <=> main = "failed"
        /\ main' \in {"push", "failed"} <=> main \in {"push", "failed"}
    BY <2>1
  <2> QED BY <1>1, <2>2 DEF SummaryInv, ParserCounts
<1>6. ASSUME DOMAIN report' = {"printed", "csv", "hgrm"} PROVE BooksCount'
  BY <1>1, <1>2, <1>4, <1>6 DEF SummaryInv, BooksCount, M!BooksTypeOK, StoreKept, Done
<1>7. M!Printed' = M!Printed /\ M!Csv' = M!Csv /\ M!Hgrm' = M!Hgrm
  BY <1>1 DEF StoreKept, M!Printed, M!Csv, M!Hgrm
<1>8. DOMAIN report = {"printed", "csv", "hgrm"}
  BY DEF SummaryInv, BooksCount, M!BooksTypeOK
<1>9. ASSUME UNCHANGED lbVars,
             \/ main' = main
             \/ main \notin After \union {"failed"} /\ main' \notin After
             \/ main \in After /\ main' \in {"await"} \union Reporting
                /\ (main' \in Reporting => ~lbUp)
      PROVE  BoardCounts'
  <2>1. (OnlyUpdates' <=> OnlyUpdates) /\ (Requested' <=> Requested) /\ (Answered' <=> Answered)
    BY <1>1, <1>9 DEF lbVars, OnlyUpdates, Requested, Answered
  <2>2. Lb!LbTypeOK'
    BY <1>9 DEF SummaryInv, BoardCounts, lbVars, Lb!LbTypeOK
  <2> QED BY <1>1, <1>3, <1>4, <1>9, <2>1, <2>2 DEF SummaryInv, BoardCounts, lbVars, After
<1>10. CASE SwitchMode \/ ExternalCancel \/ SetCancel \/ WakeWorkers \/ DropSender
            \/ UNCHANGED threadedVars
  <2>1. UNCHANGED <<lbVars, report>> /\ (main' \in Reporting <=> main \in Reporting)
    BY <1>10 DEF SwitchMode, ExternalCancel, SetCancel, WakeWorkers, DropSender, threadedVars,
       ingestFrame, books, Reporting
  <2>2. \/ main' = main
        \/ main \notin After \union {"failed"} /\ main' \notin After
        \/ main \in After /\ main' \in {"await"} \union Reporting
           /\ (main' \in Reporting => ~lbUp)
    BY <1>10 DEF SwitchMode, ExternalCancel, SetCancel, WakeWorkers, DropSender, threadedVars,
       ingestFrame, After, Reporting
  <2>3. BoardCounts'
    BY <1>9, <2>1, <2>2
  <2> QED BY <1>1, <1>5, <1>6, <1>8, <2>1, <2>3, CountsStay DEF SummaryInv
<1>11. CASE RequestSnapshot
  <2>1. /\ main = "join" /\ main' = "release" /\ Gone = Workers /\ report' = report
        /\ channel' = Append(channel, "snapshot") /\ Len(channel) < MaxEvents + 1
        /\ UNCHANGED <<lbUp, counted, reply>>
    BY <1>11 DEF RequestSnapshot, WorkersJoined, Gone, Lb!Send, Lb!Sent, Lb!Room, books
  <2>2. lbUp
    BY <2>1 DEF SummaryInv, BoardCounts, Reporting
  <2>3. Unsent = {}
    BY <2>1 DEF Gone, Unsent, Busy
  <2>4. Cardinality(Unsent) = 0
    BY <2>3, FS_EmptySet
  <2>5. /\ OnlyUpdates /\ counted + Len(channel) = Len(served)
        /\ counted \in Nat /\ Len(channel) \in Nat /\ Lb!LbTypeOK
    BY <2>1, <2>4 DEF SummaryInv, BoardCounts, Lb!LbTypeOK, After, Reporting
  <2>6. /\ channel' \in Seq(Lb!Messages) /\ Len(channel') = Len(channel) + 1
        /\ \A i \in 1..Len(channel) : channel'[i] = channel[i]
        /\ channel'[Len(channel) + 1] = "snapshot"
    BY <2>1, <2>5 DEF Lb!LbTypeOK, Lb!Messages
  <2>7. Lb!LbTypeOK'
    BY <2>1, <2>5, <2>6, ThreadedAssumption DEF Lb!LbTypeOK
  <2>8. Requested'
    BY <1>1, <2>1, <2>5, <2>6 DEF Requested, OnlyUpdates
  <2>9. BoardCounts'
    BY <1>3, <2>1, <2>2, <2>7, <2>8 DEF BoardCounts, After, Reporting
  <2>10. ReportsCurrent'
    BY <1>1, <2>1, CountsStay DEF SummaryInv, Reporting
  <2> QED BY <1>1, <1>5, <1>6, <1>8, <2>1, <2>9, <2>10 DEF SummaryInv
<1>12. CASE PrintSummary
  <2>1. /\ main = "await" /\ ~lbUp /\ main' = "dump_csv" /\ UNCHANGED lbVars
        /\ report' = [report EXCEPT !.printed = <<M!Printed>>]
    BY <1>12 DEF PrintSummary, M!PrintMetrics
  <2>2. report.csv = <<>> /\ report.hgrm = <<>>
    BY <2>1 DEF SummaryInv, ReportsCurrent, Reporting
  <2>3. /\ DOMAIN report' = {"printed", "csv", "hgrm"}
        /\ report'.printed = <<M!Printed>> /\ report'.csv = <<>> /\ report'.hgrm = <<>>
    BY <1>8, <2>1, <2>2
  <2>4. ReportsCurrent'
    BY <1>7, <2>1, <2>3 DEF ReportsCurrent, Reporting
  <2>5. BoardCounts'
    BY <1>9, <2>1 DEF After, Reporting
  <2> QED BY <1>1, <1>5, <1>6, <2>3, <2>4, <2>5 DEF SummaryInv
<1>13. CASE DumpMetrics
  <2>1. /\ main \in Reporting /\ main' \in Reporting /\ UNCHANGED lbVars
        /\ report' \in {report, [report EXCEPT !.csv = <<M!Csv>>],
                               [report EXCEPT !.hgrm = <<M!Hgrm>>]}
    BY <1>13 DEF DumpMetrics, M!DumpCsv, M!DumpHgrm, Reporting
  <2>2. /\ DOMAIN report' = {"printed", "csv", "hgrm"} /\ report'.printed = report.printed
        /\ report'.csv \in {report.csv, <<M!Csv>>} /\ report'.hgrm \in {report.hgrm, <<M!Hgrm>>}
    BY <1>8, <2>1
  <2>3. ReportsCurrent'
    BY <1>7, <2>1, <2>2 DEF SummaryInv, ReportsCurrent
  <2>4. BoardCounts'
    BY <1>9, <2>1 DEF SummaryInv, BoardCounts, After
  <2> QED BY <1>1, <1>5, <1>6, <2>2, <2>3, <2>4 DEF SummaryInv
<1> QED BY <1>10, <1>11, <1>12, <1>13

LEMMA StepCounts == TInv /\ Q!TypeOK /\ SummaryInv /\ [Next]_threadedVars => SummaryInv'
<1> SUFFICES ASSUME TInv, Q!TypeOK, SummaryInv, [Next]_threadedVars PROVE SummaryInv'
  OBVIOUS
<1>1. CASE \/ ReadLine \/ LineCancelled \/ LineToSink \/ EndOfIngest \/ Reject \/ Shed
           \/ \E class \in Q!Priorities : Accept(class)
  BY <1>1, ParserStepCounts
<1>2. CASE PushTask \/ PushPanics
  BY <1>2, PushStepCounts
<1>3. CASE \E w \in Workers : WorkerStep(w)
  BY <1>3, PopStepCounts, SendStepCounts, FinishStepCounts DEF WorkerStep
<1>4. CASE LbStep \/ LbExit
  BY <1>4, BoardStepCounts
<1>5. CASE \/ SwitchMode \/ ExternalCancel \/ SetCancel \/ WakeWorkers
           \/ RequestSnapshot \/ DropSender \/ PrintSummary \/ DumpMetrics
           \/ UNCHANGED threadedVars
  BY <1>5, OtherStepsCount
<1> QED BY <1>1, <1>2, <1>3, <1>4, <1>5 DEF Next, MainStep

\* Nothing is counted, and nobody has a task.
LEMMA InitCounts == Init => SummaryInv
<1> SUFFICES ASSUME Init PROVE SummaryInv
  OBVIOUS
<1>1. /\ Busy = {} /\ Unsent = {} /\ \A c \in Q!Priorities : Owed(c) = {} /\ Popped(c) = {}
  BY DEF Init, Q!Init, Busy, Unsent, Owed, Popped
<1>2. /\ Cardinality(Busy) = 0 /\ Cardinality(Unsent) = 0
      /\ \A c \in Q!Priorities : Cardinality(Owed(c)) = 0 /\ Cardinality(Popped(c)) = 0
  BY <1>1, FS_EmptySet
<1>3. /\ M!BooksTypeOK /\ ReportsCurrent
      /\ \A c \in Q!Priorities : metrics.drift[c] = 0 /\ unrecorded.drift[c] = 0
      /\ Done = 0
  BY DEF Init, M!Init, M!BooksTypeOK, M!Zero, M!None, ReportsCurrent, Reporting, Done
<1>4. BooksCount
  <2>1. sent \in [Workers -> BOOLEAN] /\ \A w \in Workers : ~sent[w]
    BY DEF Init
  <2>2. Len(served) = 0
    BY DEF Init, Q!Init
  <2> QED BY <1>2, <1>3, <2>1, <2>2 DEF BooksCount
<1>5. ParserCounts
  BY DEF Init, Q!Init, ParserCounts, Q!NoClass, Q!Priorities, Q!Human, Q!Bot
<1>6. BoardCounts
  <2>1. /\ channel = <<>> /\ lbUp = TRUE /\ counted = 0 /\ reply = -1 /\ main = "read"
        /\ Len(served) = 0
    BY DEF Init, Lb!Init, Q!Init
  <2>2. Lb!LbTypeOK
    <3>1. <<>> \in Seq(Lb!Messages) /\ Len(<<>>) = 0
      OBVIOUS
    <3> QED BY <2>1, <3>1, ThreadedAssumption DEF Lb!LbTypeOK
  <2>3. OnlyUpdates /\ counted + Len(channel) + Cardinality(Unsent) = Len(served)
    BY <1>2, <2>1 DEF OnlyUpdates
  <2> QED BY <2>1, <2>2, <2>3 DEF BoardCounts, After, Reporting
<1> QED BY <1>3, <1>4, <1>5, <1>6 DEF SummaryInv, Init

-----------------------------------------------------------------------------
(* The summary: what is proved of the queue is used of the pipeline *)

QP == INSTANCE PriorityQueueProofs WITH MaxPushes <- MaxEvents

\* The proofs of the queue speak of the queue of the pipeline.
LEMMA SameQueue ==
  /\ Q!Spec <=> QP!Spec
  /\ QP!Accounting => Q!TypeOK /\ pushed = Len(served) + overflow + Cardinality(heap)
<1>0. ASSUME NEW S PROVE Q!Cardinality(S) = QP!Cardinality(S)
  BY DEF Q!Cardinality, QP!Cardinality
<1>1. Q!Full <=> QP!Full
  BY <1>0 DEF Q!Full, QP!Full
<1>2. Q!Init <=> QP!Init
  BY DEF Q!Init, QP!Init, Q!NoClass, QP!NoClass, Q!NoTask, QP!NoTask, Q!Human, QP!Human
<1>3. Q!Next <=> QP!Next
  <2>1. ASSUME NEW p, NEW tick PROVE Q!Push(p, tick) <=> QP!Push(p, tick)
    BY <1>1
    DEF Q!Push, QP!Push, Q!CanPush, QP!CanPush, Q!Unlocked, QP!Unlocked, Q!At, QP!At,
        Q!PushFree, QP!PushFree, Q!PushEvict, QP!PushEvict, Q!Incoming, QP!Incoming,
        Q!Worst, QP!Worst, Q!Worse, QP!Worse, Q!Remaining, QP!Remaining,
        Q!NotifyOne, QP!NotifyOne, Q!flags, QP!flags
  <2>2. Q!PushPanics <=> QP!PushPanics
    BY <1>1
    DEF Q!PushPanics, QP!PushPanics, Q!CanPush, QP!CanPush, Q!Unlocked, QP!Unlocked, Q!At,
        QP!At, Q!flags, QP!flags, Q!workers, QP!workers, Q!log, QP!log
  <2>3. ASSUME NEW w PROVE Q!WorkerStep(w) <=> QP!WorkerStep(w)
    BY DEF
        Q!WorkerStep, QP!WorkerStep, Q!EnterCancelled, QP!EnterCancelled, Q!Enter, QP!Enter,
        Q!Pop, QP!Pop, Q!Best, QP!Best, Q!Better, QP!Better, Q!Wait, QP!Wait, Q!Timeout,
        QP!Timeout, Q!Finish, QP!Finish, Q!NoClass, QP!NoClass, Q!Unlocked, QP!Unlocked,
        Q!At, QP!At, Q!store, QP!store, Q!flags, QP!flags, Q!log, QP!log
  <2>4. (Q!Cancel <=> QP!Cancel) /\ (Q!WakeAll <=> QP!WakeAll)
    BY DEF Q!Cancel, QP!Cancel, Q!WakeAll, QP!WakeAll, Q!store, QP!store, Q!workers,
        QP!workers, Q!log, QP!log
  <2> QED
    BY <2>1, <2>2, <2>3, <2>4
    DEF Q!Next, QP!Next, Q!Priorities, QP!Priorities, Q!Human, QP!Human, Q!Bot, QP!Bot
<1>4. Q!Spec <=> QP!Spec
  <2>1. [Q!Next]_Q!queueVars <=> [QP!Next]_QP!queueVars
    BY <1>3
    DEF Q!queueVars, QP!queueVars, Q!store, QP!store, Q!flags, QP!flags, Q!workers,
        QP!workers, Q!log, QP!log
  <2> QED BY <1>2, <2>1, PTL DEF Q!Spec, QP!Spec
<1>5. ASSUME QP!Accounting
      PROVE  Q!TypeOK /\ pushed = Len(served) + overflow + Cardinality(heap)
  <2>1. QP!TypeOK /\ pushed = Len(served) + overflow + QP!Cardinality(heap)
    BY <1>5 DEF QP!Accounting
  <2>2. QP!IsFiniteSet(heap) => Q!IsFiniteSet(heap)
    BY DEF QP!IsFiniteSet, Q!IsFiniteSet
  <2>3. Q!TypeOK
    BY <2>1, <2>2
    DEF Q!TypeOK, QP!TypeOK, Q!Tasks, QP!Tasks, Q!Priorities, QP!Priorities, Q!Human,
        QP!Human, Q!Bot, QP!Bot, Q!NoClass, QP!NoClass, Q!Positions, QP!Positions, Q!At, QP!At
  <2> QED BY <1>0, <2>1, <2>3, SameCardinality
<1> QED BY <1>4, <1>5

QueueOK == Q!TypeOK /\ pushed = Len(served) + overflow + Cardinality(heap)

\* The queue of the pipeline keeps its types, and accounts for what was pushed.
LEMMA QueueCounts == Spec => []QueueOK
<1>1. /\ Capacities \subseteq Nat /\ MaxEvents \in Nat /\ QP!IsFiniteSet(Workers)
  BY ThreadedAssumption DEF QP!IsFiniteSet, IsFiniteSet
<1>2. QP!Spec => []QP!Accounting
  BY <1>1, QP!QueueAccounts
<1>3. QP!Accounting => QueueOK
  BY SameQueue DEF QueueOK
<1> QED BY <1>2, <1>3, SameQueue, ThreadedUsesQueue, PTL

\* Whoever runs on which thread, the pipeline serves each class in the order of its stamps,
\* Humans before Bots, evicts Bots and then the oldest, and lets no worker sleep over a task.
THEOREM ThreadedServesInOrder ==
  Spec => [](Q!FifoWithinClass /\ Q!HumansFirst /\ Q!EvictsBotsThenOldest /\ Q!WorkConserving)
<1>1. /\ Capacities \subseteq Nat /\ MaxEvents \in Nat /\ QP!IsFiniteSet(Workers)
  BY ThreadedAssumption DEF QP!IsFiniteSet, IsFiniteSet
<1>2. QP!Spec => [](QP!FifoWithinClass /\ QP!HumansFirst /\ QP!EvictsBotsThenOldest
                       /\ QP!WorkConserving)
  <2>1. QP!Spec => []QP!FifoWithinClass
    BY <1>1, QP!QueueIsFifoWithinClass
  <2>2. QP!Spec => []QP!HumansFirst
    BY <1>1, QP!QueueServesHumansFirst
  <2>3. QP!Spec => []QP!EvictsBotsThenOldest
    BY <1>1, QP!QueueEvictsTheWorst
  <2>4. QP!Spec => []QP!WorkConserving
    BY <1>1, QP!QueueConservesWork
  <2> QED BY <2>1, <2>2, <2>3, <2>4, PTL
<1>3. QP!FifoWithinClass <=> Q!FifoWithinClass
  BY DEF QP!FifoWithinClass, Q!FifoWithinClass
<1>4. QP!HumansFirst <=> Q!HumansFirst
  BY DEF QP!HumansFirst, Q!HumansFirst, QP!Human, Q!Human, QP!Bot, Q!Bot
<1>5. QP!EvictsBotsThenOldest <=> Q!EvictsBotsThenOldest
  BY DEF QP!EvictsBotsThenOldest, Q!EvictsBotsThenOldest
<1>6. QP!WorkConserving <=> Q!WorkConserving
  <2>1. ASSUME NEW S PROVE Q!Cardinality(S) = QP!Cardinality(S)
    BY DEF Q!Cardinality, QP!Cardinality
  <2> QED BY <2>1 DEF QP!WorkConserving, Q!WorkConserving, QP!At, Q!At
<1> QED BY <1>2, <1>3, <1>4, <1>5, <1>6, SameQueue, ThreadedUsesQueue, PTL

\* When the summary is printed everybody has left: no drift is owed, and no update is on
\* its way to a leaderboard that has ended.
LEMMA CountsComplete ==
  ASSUME TInv, QueueOK, SummaryInv PROVE SummaryIsComplete
<1>1. TypeOK
  <2>1. Q!TypeOK
    BY DEF QueueOK
  <2>2. /\ main \in Ingesting \union Stopping \union Reporting \union {"failed"}
        /\ tally \in [received : Nat, malformed : Nat, parsed : Nat, shed : Nat]
    BY DEF TInv, Tallies
  <2>3. /\ incoming \in Q!Priorities \union {Q!NoClass}
        /\ incoming # Q!NoClass <=> main \in {"push", "failed"}
        /\ main = "failed" <=> panicked
        /\ M!BooksTypeOK
        /\ sent \in [Workers -> BOOLEAN] /\ \A w \in Workers : sent[w] => w \in Busy
        /\ Lb!LbTypeOK /\ degraded \in BOOLEAN
    BY DEF SummaryInv, ParserCounts, BooksCount, BoardCounts
  <2> QED BY <2>1, <2>2, <2>3 DEF TypeOK
<1> DEFINE popped == [c \in Q!Priorities |->
                         Cardinality({i \in 1..Len(served) : served[i].task.priority = c})]
<1>2. ASSUME main \in Reporting
      PROVE  /\ reply = Len(served)
             /\ counted = reply
             /\ M!Complete(popped)
             /\ M!ReportsAgree
             /\ tally.parsed = tally.shed + overflow + reply + Cardinality(heap)
  <2>1. Gone = Workers
    BY <1>2 DEF TInv
  <2>2. Busy = {} /\ \A c \in Q!Priorities : Owed(c) = {}
    BY <2>1 DEF Gone, Busy, Unsent, Owed
  <2>3. Cardinality(Busy) = 0 /\ \A c \in Q!Priorities : Cardinality(Owed(c)) = 0
    BY <2>2, FS_EmptySet
  <2>4. reply = Len(served) /\ counted = reply
    BY <1>2 DEF SummaryInv, BoardCounts, After, Requested, Answered
  <2>5. /\ popped \in [Q!Priorities -> Nat]
        /\ \A c \in Q!Priorities : popped[c] = Cardinality(Popped(c))
        /\ popped[Q!Human] + popped[Q!Bot] = Len(served) /\ Len(served) \in Nat
    <3>1. \A c \in Q!Priorities : popped[c] = Cardinality(Popped(c))
      BY DEF Popped
    <3>2. Q!Human \in Q!Priorities /\ Q!Bot \in Q!Priorities
      BY DEF Q!Priorities
    <3>3. popped = [c \in Q!Priorities |-> Cardinality(Popped(c))]
      BY DEF Popped
    <3> HIDE DEF popped
    <3> QED BY <3>1, <3>2, <3>3, PoppedCount DEF QueueOK
  <2> HIDE DEF popped
  <2>6. /\ metrics.drift \in [Q!Priorities -> Nat] /\ unrecorded.drift \in [Q!Priorities -> Nat]
        /\ Done \in Nat
    BY DEF SummaryInv, BooksCount, M!BooksTypeOK, Done
  <2>7. M!Total(popped) = popped[Q!Human] + popped[Q!Bot]
    BY <2>5, TotalOfTwo DEF Q!Priorities
  <2>8. /\ \A c \in Q!Priorities : metrics.drift[c] + unrecorded.drift[c] = popped[c]
        /\ Done = popped[Q!Human] + popped[Q!Bot]
    BY <2>3, <2>5, <2>6 DEF SummaryInv, BooksCount
  <2>9. M!Complete(popped)
    BY <2>7, <2>8 DEF M!Complete, Done
  <2>10. M!ReportsAgree
    <3>1. /\ M!Total(metrics.drift) = metrics.drift[Q!Human] + metrics.drift[Q!Bot]
          /\ M!Total(unrecorded.drift) = unrecorded.drift[Q!Human] + unrecorded.drift[Q!Bot]
      BY <2>6, TotalOfTwo DEF Q!Priorities
    <3>2. M!Total(metrics.drift) + M!Total(unrecorded.drift) = metrics.jitter + unrecorded.jitter
      <4>1. PICK a, b, c, d \in Nat : /\ a = metrics.drift[Q!Human] /\ b = metrics.drift[Q!Bot]
                                      /\ c = unrecorded.drift[Q!Human]
                                       /\ d = unrecorded.drift[Q!Bot]
        BY <2>6 DEF Q!Priorities
      <4>2. popped[Q!Human] = a + c /\ popped[Q!Bot] = b + d
        BY <2>8, <4>1 DEF Q!Priorities
      <4>3. (a + b) + (c + d) = (a + c) + (b + d)
        OBVIOUS
      <4> QED BY <2>8, <3>1, <4>1, <4>2, <4>3 DEF Done
    <3>3. /\ report.printed = <<M!Printed>>
          /\ report.csv \in {<<>>, <<M!Csv>>} /\ report.hgrm \in {<<>>, <<M!Hgrm>>}
      BY <1>2 DEF SummaryInv, ReportsCurrent
    <3>4. ASSUME NEW x, NEW s \in {<<>>, <<x>>}, NEW i \in DOMAIN s PROVE s[i] = x
      BY <3>4
    <3>5. /\ \A i \in DOMAIN report.csv : report.csv[i] = M!Csv
          /\ \A i \in DOMAIN report.hgrm : report.hgrm[i] = M!Hgrm
          /\ \A i \in DOMAIN report.printed : report.printed[i] = M!Printed
      BY <3>3, <3>4
    <3>6. /\ M!Csv.drift = metrics.drift /\ M!Hgrm.drift = metrics.drift
          /\ M!Printed.drift = metrics.drift
          /\ M!Csv.jitter = M!Total(metrics.drift) /\ M!Hgrm.jitter = metrics.jitter
      BY DEF M!Csv, M!Hgrm, M!Printed
    <3> QED BY <3>2, <3>5, <3>6 DEF M!ReportsAgree
  <2>11. tally.parsed = tally.shed + overflow + reply + Cardinality(heap)
    <3>1. PICK p, s, o, h, n, q \in Nat :
            /\ p = tally.parsed /\ s = tally.shed /\ o = overflow /\ h = Cardinality(heap)
            /\ n = Len(served) /\ q = pushed
      BY <2>5, FS_CardinalityType DEF TInv, QueueInv, Tallies, QueueOK, Q!TypeOK
    <3>2. p = s + q /\ q = n + o + h
      BY <1>2, <3>1 DEF SummaryInv, ParserCounts, QueueOK, Reporting
    <3>3. p = s + o + n + h
      BY <3>2
    <3> QED BY <2>4, <3>1, <3>3
  <2> QED BY <2>4, <2>9, <2>10, <2>11
<1> HIDE DEF popped
<1>3. popped = [c \in Q!Priorities |->
                   Cardinality({i \in 1..Len(served) : served[i].task.priority = c})]
  BY DEF popped
<1> QED BY <1>1, <1>2, <1>3 DEF SummaryIsComplete

\* The summary comes after every join and after the leaderboard's last update: it counts
\* every task popped, and the files agree with it, for every pool, every capacity and every
\* number of events.
THEOREM ThreadedSummaryIsComplete == Spec => []SummaryIsComplete
<1>1. Init => TInv /\ SummaryInv
  BY InitLives, InitCounts
<1>2. TInv /\ [Next]_threadedVars => TInv'
  BY StepLives DEF Lives
<1>3. TInv /\ QueueOK /\ SummaryInv /\ [Next]_threadedVars => SummaryInv'
  BY StepCounts DEF QueueOK
<1>4. TInv /\ QueueOK /\ SummaryInv => SummaryIsComplete
  BY CountsComplete
<1> QED
  BY <1>1, <1>2, <1>3, <1>4, QueueCounts, PTL DEF Spec

\* Every event received is accounted for at every moment, and the summary is printed over
\* idle workers, for every pool, every capacity and every number of events.
THEOREM ThreadedLosesNothing == Spec => []Life!NothingLost
<1>1. Init => TInv /\ SummaryInv
  BY InitLives, InitCounts
<1>2. TInv /\ [Next]_threadedVars => TInv'
  BY StepLives DEF Lives
<1>3. TInv /\ QueueOK /\ SummaryInv /\ [Next]_threadedVars => SummaryInv'
  BY StepCounts DEF QueueOK
<1>4. ASSUME TInv, QueueOK, SummaryInv PROVE Life!NothingLost
  <2> DEFINE inHand == IF main \in {"dispatch", "push", "failed"} THEN 1 ELSE 0
  <2>1. PICK r, m, p, s, o, h, b, d, q \in Nat :
          /\ r = tally.received /\ m = tally.malformed /\ p = tally.parsed /\ s = tally.shed
          /\ o = overflow /\ h = Cardinality(heap) /\ b = Cardinality(Busy)
          /\ d = Done /\ q = pushed
    <3>1. /\ tally.received \in Nat /\ tally.malformed \in Nat /\ tally.parsed \in Nat
          /\ tally.shed \in Nat /\ overflow \in Nat /\ pushed \in Nat /\ Done \in Nat
          /\ Cardinality(heap) \in Nat /\ Cardinality(Busy) \in Nat
      BY <1>4, BusyCounts, FS_CardinalityType
      DEF TInv, QueueInv, Tallies, Books, Done, QueueOK, Q!TypeOK
    <3> QED BY <3>1
  <2>2. PICK f, g \in {0, 1} : /\ f = IF main = "dispatch" THEN 1 ELSE 0
                               /\ g = IF main \in {"push", "failed"} THEN 1 ELSE 0
    OBVIOUS
  <2>3. f + g = inHand
    BY <2>2
  <2>4. r = m + p + f /\ p = s + q + g
    BY <1>4, <2>1, <2>2 DEF SummaryInv, ParserCounts
  <2>5. q = (d + b) + o + h
    BY <1>4, <2>1 DEF SummaryInv, BooksCount, QueueOK
  <2>6. r = (f + g) + m + s + o + h + b + d
    BY <2>4, <2>5
  <2>7. tally.received = inHand + tally.malformed + tally.shed + overflow
          + Cardinality(heap) + Cardinality(Busy) + (metrics.jitter + unrecorded.jitter)
    <3> HIDE DEF inHand
    <3> QED BY <2>1, <2>3, <2>6 DEF Done
  <2>8. Cardinality(heap) <= capacity
    BY <1>4 DEF TInv, QueueInv
  <2>9. Cardinality(Busy) <= Cardinality(Workers)
    <3>1. Busy \in SUBSET Workers
      BY DEF Busy
    <3> QED BY <3>1, ThreadedAssumption, FS_Subset
  <2>10. ASSUME main \in Reporting PROVE inHand = 0 /\ Cardinality(Busy) = 0
    <3>1. Busy = {}
      BY <1>4, <2>10 DEF TInv, Gone, Busy
    <3> QED BY <2>10, <3>1, FS_EmptySet DEF Reporting
  <2> QED
    BY <2>7, <2>8, <2>9, <2>10
    DEF Life!NothingLost, Ingesting, Stopping
<1> QED BY <1>1, <1>2, <1>3, <1>4, QueueCounts, PTL DEF Spec

\* Once the summary is out nothing is done to any event: its counts remain true.
THEOREM ThreadedEndsWithReport == Spec => Life!ReportIsLast
<1>1. Init => TInv
  BY InitLives
<1>2. TInv /\ [Next]_threadedVars => TInv' /\ [Life!LifeNext]_Life!lifeVars
  BY StepLives DEF Lives
<1>3. ASSUME TInv, [Life!LifeNext]_Life!lifeVars, main \in Reporting
      PROVE  UNCHANGED Life!lifeVars
  <2>1. Busy = {}
    BY <1>3 DEF TInv, Gone, Busy
  <2>2. Cardinality(Busy) = 0
    BY <2>1, FS_EmptySet
  <2>3. main \notin Ingesting /\ main \notin Stopping
    BY <1>3 DEF Reporting, Ingesting, Stopping
  <2>4. ~Life!LifeNext
    BY <1>3, <2>2, <2>3
    DEF Life!LifeNext, Life!Receive, Life!Refuse, Life!Queue, Life!Settle, Life!Start,
        Life!Finish, Life!Close, Life!Report
  <2> QED BY <1>3, <2>4
<1>4. TInv /\ [Life!LifeNext]_Life!lifeVars =>
        [(CASE main \in Ingesting -> "open"
            [] main \in Stopping -> "closed"
            [] main \in Reporting -> "reported"
            [] OTHER -> "failed") # "reported"]_Life!lifeVars
  BY <1>3
<1> QED
  BY <1>1, <1>2, <1>4, PTL DEF Spec, Life!ReportIsLast
-----------------------------------------------------------------------------
(***************************************************************************)
(* EventLife itself, with variables of its own: what every pipeline that   *)
(* implements it has, for every number of workers and of events.           *)
(***************************************************************************)

LifeCounts == received \in Nat /\ rejected \in Nat /\ shed \in Nat /\ evicted \in Nat
LifePlaces == arriving \in {0, 1} /\ waiting \in Nat /\ working \in Nat /\ done \in Nat

\* NothingLost is not inductive: that no event is on its way when the stream is closed
\* is what lets the report be the end.
Closed == stage \in {"closed", "reported"} => arriving = 0

Balance ==
    /\ LifeCounts
    /\ LifePlaces
    /\ room \in Nat
    /\ Closed
    /\ NothingLost

\* Nothing has happened yet.
LEMMA InitBalance == ASSUME Hands \in Nat PROVE LifeInit => Balance
  BY DEF LifeInit, Balance, LifeCounts, LifePlaces, Closed, NothingLost

\* A step moves one event from one place to the next, and keeps the bounds.
LEMMA StepBalance == ASSUME Hands \in Nat PROVE Balance /\ [LifeNext]_lifeVars => Balance'
<1> SUFFICES ASSUME Hands \in Nat, Balance, [LifeNext]_lifeVars PROVE Balance'
  OBVIOUS
<1> USE DEF Balance, LifeCounts, LifePlaces, Closed, NothingLost
<1>1. CASE Receive
  BY <1>1 DEF Receive, waitingVars
<1>2. CASE Refuse
  <2>1. CASE rejected' = rejected + 1 /\ UNCHANGED shed
    BY <1>2, <2>1 DEF Refuse, Settle
  <2>2. CASE shed' = shed + 1 /\ UNCHANGED rejected
    BY <1>2, <2>2 DEF Refuse, Settle
  <2> QED BY <1>2, <2>1, <2>2 DEF Refuse
<1>3. CASE Queue
  <2>1. CASE waiting < room /\ waiting' = waiting + 1 /\ UNCHANGED evicted
    BY <1>3, <2>1 DEF Queue, Settle
  <2>2. CASE waiting > 0 /\ evicted' = evicted + 1 /\ UNCHANGED waiting
    BY <1>3, <2>2 DEF Queue, Settle
  <2> QED BY <1>3, <2>1, <2>2 DEF Queue
<1>4. CASE Start
  BY <1>4 DEF Start
<1>5. CASE Finish
  BY <1>5 DEF Finish
<1>6. CASE Close
  BY <1>6 DEF Close, waitingVars
<1>7. CASE Report
  BY <1>7 DEF Report, waitingVars
<1>8. CASE UNCHANGED lifeVars
  BY <1>8 DEF lifeVars, waitingVars
<1> QED
  BY <1>1, <1>2, <1>3, <1>4, <1>5, <1>6, <1>7, <1>8 DEF LifeNext

\* Whatever implements the life of an event loses none, does none twice, keeps its bounds
\* and reports over idle workers.
THEOREM LifeLosesNothing == ASSUME Hands \in Nat PROVE LifeSpec => []NothingLost
<1>1. LifeInit => Balance
  BY InitBalance
<1>2. Balance /\ [LifeNext]_lifeVars => Balance'
  BY StepBalance
<1>3. Balance => NothingLost
  BY DEF Balance
<1> QED
  BY <1>1, <1>2, <1>3, PTL DEF LifeSpec

\* A step after the report could only be the end of a task, and no worker has one.
LEMMA NoStepAfterReport == Balance /\ [LifeNext]_lifeVars => [stage # "reported"]_lifeVars
<1> SUFFICES ASSUME Balance, LifeNext, stage = "reported" PROVE FALSE
  OBVIOUS
<1> QED
  BY DEF Balance, NothingLost, LifeNext, Receive, Refuse, Queue, Settle, Start, Finish,
         Close, Report

\* After the summary no event changes its place.
THEOREM LifeEndsWithReport == ASSUME Hands \in Nat PROVE LifeSpec => ReportIsLast
<1>1. LifeInit => Balance
  BY InitBalance
<1>2. Balance /\ [LifeNext]_lifeVars => Balance'
  BY StepBalance
<1>3. Balance /\ [LifeNext]_lifeVars => [stage # "reported"]_lifeVars
  BY NoStepAfterReport
<1> QED
  BY <1>1, <1>2, <1>3, PTL DEF LifeSpec, ReportIsLast
=============================================================================
