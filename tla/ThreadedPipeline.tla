--------------------------- MODULE ThreadedPipeline ---------------------------
(***************************************************************************)
(* crates/rts-threaded: the parser that fills the PriorityQueue, the       *)
(* worker threads, the leaderboard thread and the orchestrator that starts *)
(* and shuts them down.  The queue and the loop of the workers are an      *)
(* instance of PriorityQueue; this module adds what a worker does with a   *)
(* task, and the thread that reads the stream and later joins everybody.   *)
(***************************************************************************)
EXTENDS Integers, Sequences, FiniteSets

CONSTANTS
    Workers,       \* the worker threads
    Capacities,    \* the capacities of the queue looked at
    MaxEvents,     \* bound: number of events received in a behaviour
    MaxOutliers    \* bound: missed deadlines and times beyond 60 s in a behaviour

ASSUME ThreadedAssumption ==
    /\ IsFiniteSet(Workers)
    /\ Capacities \subseteq Nat
    /\ MaxEvents \in Nat
    /\ MaxOutliers \in Nat

VARIABLES
    \* the queue and its workers, as in PriorityQueue
    capacity, heap, overflow, panicked, cancel, woken_all, pc, hand, clock,
    pushed, served, eviction,
    degraded,     \* the flag of the FailSafeController
    main,         \* where the orchestrator's thread is
    incoming,     \* the class of the task about to be pushed, or NoClass
    tally,        \* numbers of events: see Init
    sent,         \* whether a busy worker has sent its leaderboard update
    metrics, unrecorded, report,      \* as in Metrics
    channel, lbUp, counted, reply     \* as in Leaderboard

queueVars == <<capacity, heap, overflow, panicked, cancel, woken_all, pc, hand, clock,
               pushed, served, eviction>>
books == <<metrics, unrecorded, report>>
lbVars == <<channel, lbUp, counted, reply>>

threadedVars == <<queueVars, degraded, main, incoming, tally, sent, books, lbVars>>

Q == INSTANCE PriorityQueue WITH MaxPushes <- MaxEvents

\* crossbeam's channel is unbounded: there is room for every update and the request.
Lb == INSTANCE Leaderboard WITH LbCapacity <- MaxEvents + 1
M == INSTANCE Metrics WITH Classes <- Q!Priorities

(***************************************************************************)
(* The orchestrator's thread: "read": blocked in the stream or asleep      *)
(* before a reconnection.  "line": has read an event.  "dispatch", "push": *)
(* in the sink.  "failed": a push panicked.  The others come after run_sse *)
(* in the order of run.                                                    *)
(***************************************************************************)
Ingesting == {"read", "line", "dispatch", "push"}
Stopping == {"stop", "wake", "join", "release", "await"}
Reporting == {"dump_csv", "dump_hgrm", "returned"}

Init ==
    /\ Q!Init
    /\ Lb!Init
    /\ M!Init
    /\ degraded = FALSE
    /\ main = "read"
    /\ incoming = Q!NoClass
    /\ tally = [received |-> 0, malformed |-> 0, parsed |-> 0, shed |-> 0]
    /\ sent = [w \in Workers |-> FALSE]

-----------------------------------------------------------------------------
(* The stream and dispatch.  The Mutant operators are faults that the         *)
(* properties below must notice.                                              *)

ingestFrame == <<degraded, sent, books, lbVars>>

\* A blocking read yields an event; the flag is looked at afterwards.
ReadLine ==
    /\ main = "read"
    /\ tally.received < MaxEvents
    /\ main' = "line"
    /\ UNCHANGED <<queueVars, incoming, tally, ingestFrame>>

LineCancelled ==
    /\ main = "line"
    /\ cancel
    /\ main' = "stop"
    /\ UNCHANGED <<queueVars, incoming, tally, ingestFrame>>

LineToSink ==
    /\ main = "line"
    /\ ~cancel
    /\ main' = "dispatch"
    /\ tally' = [tally EXCEPT !.received = @ + 1]
    /\ UNCHANGED <<queueVars, incoming, ingestFrame>>

\* run_sse returns: the limit, the end of the stream, or the flag seen after a
\* read that timed out or a back-off.  It never fails.
EndOfIngest ==
    /\ main = "read"
    /\ main' = "stop"
    /\ UNCHANGED <<queueVars, incoming, tally, ingestFrame>>

Reject ==
    /\ main = "dispatch"
    /\ tally' = [tally EXCEPT !.malformed = @ + 1]
    /\ main' = "read"
    /\ UNCHANGED <<queueVars, incoming, ingestFrame>>

\* parse_one counts every event it parses, as borrowed or as owned.
Parsed == [tally EXCEPT !.parsed = @ + 1]

\* The mode is read when the class is known ...
Shed ==
    /\ main = "dispatch"
    /\ degraded
    /\ tally' = [Parsed EXCEPT !.shed = @ + 1]
    /\ main' = "read"
    /\ UNCHANGED <<queueVars, incoming, ingestFrame>>

\* ... and may change before the task is pushed.
Accept(class) ==
    /\ main = "dispatch"
    /\ class = Q!Bot => ~degraded
    /\ incoming' = class
    /\ tally' = Parsed
    /\ main' = "push"
    /\ UNCHANGED <<queueVars, ingestFrame>>

\* How far the monotonic clock may move between two stamps.
Ticks == {0, 1}

PushTask ==
    /\ main = "push"
    /\ \E tick \in Ticks : Q!Push(incoming, tick)
    /\ incoming' = Q!NoClass
    /\ main' = "read"
    /\ UNCHANGED <<tally, ingestFrame>>

\* The panic unwinds run: nobody sets the flag, nobody is joined.
PushPanics ==
    /\ main = "push"
    /\ Q!PushPanics
    /\ main' = "failed"
    /\ UNCHANGED <<incoming, tally, ingestFrame>>

\* The ticker thread of the controller: FailSafe says when.
SwitchMode ==
    /\ ~cancel
    /\ degraded' = ~degraded
    /\ UNCHANGED <<queueVars, main, incoming, tally, sent, books, lbVars>>

\* Ctrl-C or the duration timer; nobody is woken.
ExternalCancel ==
    /\ Q!Cancel
    /\ UNCHANGED <<main, incoming, tally, ingestFrame>>

-----------------------------------------------------------------------------
(* The workers: the loop over the queue is that of PriorityQueue. *)

workerFrame == <<degraded, main, incoming, tally>>

WorkerPop(w) ==
    /\ \/ Q!EnterCancelled(w)
       \/ Q!Enter(w)
       \/ Q!Pop(w)
       \/ Q!Wait(w)
       \/ Q!Timeout(w)
    /\ UNCHANGED <<sent, books, lbVars, workerFrame>>

\* The drift is recorded and the update sent.
SendUpdate(w) ==
    /\ pc[w] = "busy"
    /\ ~sent[w]
    /\ M!RecordDrift(hand[w])
    /\ Lb!Send("update")
    /\ sent' = [sent EXCEPT ![w] = TRUE]
    /\ UNCHANGED <<queueVars, workerFrame>>

\* The jitter is recorded; the loop goes round.
FinishTask(w) ==
    /\ sent[w]
    /\ M!RecordJitter(hand[w])
    /\ sent' = [sent EXCEPT ![w] = FALSE]
    /\ Q!Finish(w)
    /\ UNCHANGED <<lbVars, workerFrame>>

-----------------------------------------------------------------------------
(* The leaderboard thread *)

LbStep ==
    /\ Lb!Step
    /\ UNCHANGED <<queueVars, sent, books, workerFrame>>

\* Every sender is dropped: that of the orchestrator, and each worker's with it.
LbExit ==
    /\ main \in {"await", "failed"} \union Reporting
    /\ \A w \in Workers : pc[w] = "done"
    /\ Lb!Exit
    /\ UNCHANGED <<queueVars, sent, books, workerFrame>>

-----------------------------------------------------------------------------
(* Shutdown, in the order of run *)

mainFrame == <<degraded, incoming, tally, sent>>

SetCancel ==
    /\ main = "stop"
    /\ Q!Cancel \/ (cancel /\ UNCHANGED queueVars)
    /\ main' = "wake"
    /\ UNCHANGED <<mainFrame, books, lbVars>>

WakeWorkers ==
    /\ main = "wake"
    /\ Q!WakeAll
    /\ main' = "join"
    /\ UNCHANGED <<mainFrame, books, lbVars>>

\* Mutant: the workers are not joined.
MutantWorkersJoined == TRUE

WorkersJoined == \A w \in Workers : pc[w] = "done"

\* After the last join the snapshot is requested.
RequestSnapshot ==
    /\ main = "join"
    /\ WorkersJoined
    /\ Lb!Send("snapshot")
    /\ main' = "release"
    /\ UNCHANGED <<queueVars, mainFrame, books>>

\* Mutant: the sender is kept until the function returns.
MutantDropSender ==
    /\ main = "release"
    /\ main' = "release"
    /\ UNCHANGED <<queueVars, mainFrame, books, lbVars>>

DropSender ==
    /\ main = "release"
    /\ main' = "await"
    /\ UNCHANGED <<queueVars, mainFrame, books, lbVars>>

\* The leaderboard thread is joined and the summary printed.
PrintSummary ==
    /\ main = "await"
    /\ ~lbUp
    /\ M!PrintMetrics
    /\ main' = "dump_csv"
    /\ UNCHANGED <<queueVars, mainFrame, lbVars>>

\* Each dump reads the store anew.
DumpMetrics ==
    /\ \/ main = "dump_csv" /\ M!DumpCsv /\ main' = "dump_hgrm"
       \/ main = "dump_hgrm" /\ M!DumpHgrm /\ main' = "returned"
    /\ UNCHANGED <<queueVars, mainFrame, lbVars>>

-----------------------------------------------------------------------------

WorkerStep(w) == WorkerPop(w) \/ SendUpdate(w) \/ FinishTask(w)

\* What the orchestrator's thread does without waiting for the network.
MainStep ==
    \/ LineCancelled
    \/ LineToSink
    \/ Reject
    \/ Shed
    \/ \E class \in Q!Priorities : Accept(class)
    \/ PushTask
    \/ PushPanics
    \/ SetCancel
    \/ WakeWorkers
    \/ RequestSnapshot
    \/ DropSender
    \/ PrintSummary
    \/ DumpMetrics

Next ==
    \/ MainStep
    \/ ReadLine
    \/ EndOfIngest
    \/ SwitchMode
    \/ ExternalCancel
    \/ \E w \in Workers : WorkerStep(w)
    \/ LbStep
    \/ LbExit

Spec == Init /\ [][Next]_threadedVars

(***************************************************************************)
(* The operating system runs every runnable thread.  A blocked read ends   *)
(* within its timeout of 30 s, and a back-off within 36 s, so a set flag   *)
(* is noticed.  Events need not arrive, and nobody has to cancel.          *)
(***************************************************************************)
Fairness ==
    /\ WF_threadedVars(MainStep)
    /\ WF_threadedVars(cancel /\ EndOfIngest)
    /\ \A w \in Workers : WF_threadedVars(WorkerStep(w))
    /\ WF_threadedVars(LbStep \/ LbExit)

FairSpec == Spec /\ Fairness
-----------------------------------------------------------------------------
(* Properties *)

Busy == {w \in Workers : pc[w] = "busy"}

\* Every variable has its type, those of the queue and the leaderboard included;
\* only a busy worker has an update behind it.
TypeOK ==
    /\ Q!TypeOK
    /\ Lb!LbTypeOK
    /\ M!BooksTypeOK
    /\ degraded \in BOOLEAN
    /\ main \in Ingesting \union Stopping \union Reporting \union {"failed"}
    /\ main = "failed" <=> panicked
    /\ incoming \in Q!Priorities \union {Q!NoClass}
    /\ incoming # Q!NoClass <=> main \in {"push", "failed"}
    /\ tally \in [received : Nat, malformed : Nat, parsed : Nat, shed : Nat]
    /\ sent \in [Workers -> BOOLEAN]
    /\ \A w \in Workers : sent[w] => w \in Busy

\* The pipeline as the life of its events: none gets lost between the threads, whatever
\* is interleaved, and nothing is done to any of them after the summary.
Life == INSTANCE EventLife WITH
    Hands <- Cardinality(Workers),
    stage <- CASE main \in Ingesting -> "open"
               [] main \in Stopping -> "closed"
               [] main \in Reporting -> "reported"
               [] OTHER -> "failed",
    room <- capacity,
    arriving <- IF main \in {"dispatch", "push", "failed"} THEN 1 ELSE 0,
    received <- tally.received, rejected <- tally.malformed, shed <- tally.shed,
    evicted <- overflow,
    waiting <- Cardinality(heap),
    working <- Cardinality(Busy),
    done <- metrics.jitter + unrecorded.jitter

ImplementsLife == Life!LifeSpec

\* The types hold, and, as the documentation of run says, the leaderboard is drained
\* before the summary is printed: it counts every task that any worker popped, the
\* metrics hold their samples, the files agree with the summary, and what was parsed is
\* shed, overflowed, counted or left in the queue.
SummaryIsComplete ==
    /\ TypeOK
    /\ main \in Reporting =>
        LET popped == [c \in Q!Priorities |->
                          Cardinality({i \in 1..Len(served) : served[i].task.priority = c})]
        IN  /\ reply = Len(served)
            /\ counted = reply
            /\ M!Complete(popped)
            /\ M!ReportsAgree
            /\ tally.parsed = tally.shed + overflow + reply + Cardinality(heap)

\* Setting the flag brings the whole pipeline down: the reader notices, every worker ends,
\* the leaderboard too, and the summary is printed.  After a panic in a push nothing is
\* printed and nobody joined, yet the threads end all the same once the flag is set.
ShutsDown ==
    cancel ~> /\ main \in {"returned", "failed"}
              /\ \A w \in Workers : pc[w] = "done"
              /\ ~lbUp
=============================================================================
