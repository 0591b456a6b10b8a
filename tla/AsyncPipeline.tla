---------------------------- MODULE AsyncPipeline ----------------------------
(***************************************************************************)
(* crates/rts-async: the parser that fills two DropOldestRing lanes, the   *)
(* pool of workers that select over them, the leaderboard actor and the    *)
(* orchestrator that starts and shuts them down.                           *)
(*                                                                         *)
(* The lanes are instances of DropOldestRing.  A worker's select polls,    *)
(* in this order, the cancellation token, the pop of the human lane and    *)
(* the pop of the bot lane; every poll is made of the steps of the ring,   *)
(* so other tasks run in between.  Reading the stream is reduced to the    *)
(* frames it yields, the Degraded-Mode controller to the flag it switches. *)
(***************************************************************************)
EXTENDS Integers, Sequences, FiniteSets, SequencesExt

CONSTANTS
    Workers,       \* the worker tasks
    Capacities,    \* the capacities that the lanes may be given
    LbCapacity,    \* the capacity of the leaderboard channel, 1024 in the code
    MaxEvents,     \* bound: number of frames received in a behaviour
    MaxOutliers    \* bound: missed deadlines and times beyond 60 s in a behaviour

ASSUME AsyncAssumption ==
    /\ IsFiniteSet(Workers)
    /\ Capacities \subseteq Nat
    /\ LbCapacity \in Nat \ {0}
    /\ MaxEvents \in Nat
    /\ MaxOutliers \in Nat

Human == "human"
Bot == "bot"
None == "none"
Priorities == {Human, Bot}

VARIABLES
    capacity,     \* that of each lane, never changed; the command line accepts 0
    \* the two lanes, as in DropOldestRing
    hiQueue, hiOverflow, hiPermit, hiWaiters, hiPc, hiPushed, hiReceived, hiLost,
    loQueue, loOverflow, loPermit, loWaiters, loPc, loPushed, loReceived, loLost,
    cancel,       \* the CancellationToken
    degraded,     \* the flag of the FailSafeController
    main,         \* where the orchestrator is
    incoming,     \* the class of the task about to be pushed, or None
    tally,        \* numbers of frames: see Init
    at,           \* where each worker is
    hand,         \* the class of the task a worker has popped, or None
    seen,         \* history: the Humans pushed when a worker's poll found some queued, or 0
    metrics, unrecorded, report,        \* as in Metrics
    channel, lbUp, counted, reply,      \* as in Leaderboard
    accepted      \* history: updates the channel accepted before the snapshot request

hiVars == <<capacity, hiQueue, hiOverflow, hiPermit, hiWaiters, hiPc, hiPushed,
            hiReceived, hiLost>>
loVars == <<capacity, loQueue, loOverflow, loPermit, loWaiters, loPc, loPushed,
            loReceived, loLost>>
lanes == <<hiVars, loVars>>
control == <<cancel, degraded>>
pool == <<at, hand, seen>>
books == <<metrics, unrecorded, report>>
lbVars == <<channel, lbUp, counted, reply>>
board == <<lbVars, accepted>>

asyncVars == <<lanes, control, main, incoming, tally, pool, books, board>>

Hi == INSTANCE DropOldestRing WITH
        AsyncConsumers <- Workers, BlockingConsumers <- {}, MaxPushes <- MaxEvents,
        queue <- hiQueue, overflow <- hiOverflow, permit <- hiPermit,
        waiters <- hiWaiters, asleep <- {}, pc <- hiPc, pushed <- hiPushed,
        received <- hiReceived, lost <- hiLost

Lo == INSTANCE DropOldestRing WITH
        AsyncConsumers <- Workers, BlockingConsumers <- {}, MaxPushes <- MaxEvents,
        queue <- loQueue, overflow <- loOverflow, permit <- loPermit,
        waiters <- loWaiters, asleep <- {}, pc <- loPc, pushed <- loPushed,
        received <- loReceived, lost <- loLost

Lb == INSTANCE Leaderboard
M == INSTANCE Metrics WITH Classes <- Priorities

(***************************************************************************)
(* A worker: "cancel", "human", "bot": about to poll that branch of the    *)
(* select.  "parked": all branches pending.  "leaving": the select is      *)
(* over, its other futures are dropped.  "popped", "timed": processes the  *)
(* task, before and after the leaderboard update.  "done": returned.       *)
(*                                                                         *)
(* The orchestrator: "start", "select", "frame", "push" inside run_sse;    *)
(* the others after it, in the order of run.                               *)
(***************************************************************************)
WorkerPositions == {"cancel", "human", "bot", "parked", "leaving", "popped", "timed", "done"}
Ingesting == {"start", "select", "frame", "push"}
Stopping == {"stop", "request", "release", "await"}
Reporting == {"dump_csv", "dump_hgrm", "returned"}

Init ==
    /\ Hi!Init
    /\ Lo!Init
    /\ cancel = FALSE
    /\ degraded = FALSE
    /\ main = "start"
    /\ incoming = None
    /\ tally = [received |-> 0, malformed |-> 0, parsed |-> 0, shed |-> 0]
    /\ at = [w \in Workers |-> "cancel"]
    /\ hand = [w \in Workers |-> None]
    /\ seen = [w \in Workers |-> 0]
    /\ M!Init
    /\ Lb!Init
    /\ accepted = 0

-----------------------------------------------------------------------------
(* Ingest and dispatch.  The Mutant operators are faults that the properties *)
(* below must notice.                                                         *)

ingestFrame == <<control, pool, books, board>>

\* run_sse builds its HTTP client, or cannot and fails; run then returns with the error,
\* and cancels nobody.
StartIngest ==
    /\ main = "start"
    /\ main' \in {"select", "failed"}
    /\ UNCHANGED <<lanes, incoming, tally, ingestFrame>>

\* The biased select of run_sse: the token first ...
StopIngest ==
    /\ main = "select"
    /\ cancel
    /\ main' = "stop"
    /\ UNCHANGED <<lanes, incoming, tally, ingestFrame>>

\* ... then the stream; the token may be cancelled from here on.
ReceiveFrame ==
    /\ main = "select"
    /\ ~cancel
    /\ tally.received < MaxEvents
    /\ main' = "frame"
    /\ tally' = [tally EXCEPT !.received = @ + 1]
    /\ UNCHANGED <<lanes, incoming, ingestFrame>>

\* run_sse goes on, or returns because the limit is reached.
AfterSink == main' \in {"select", "stop"}

\* parse_one fails: a warning, and the watchdog is not touched.
Reject ==
    /\ main = "frame"
    /\ tally' = [tally EXCEPT !.malformed = @ + 1]
    /\ AfterSink
    /\ UNCHANGED <<lanes, incoming, ingestFrame>>

\* parse_one counts every event it parses, as borrowed or as owned.
Parsed == [tally EXCEPT !.parsed = @ + 1]

\* The flag is read when the class is known ...
Shed ==
    /\ main = "frame"
    /\ degraded
    /\ tally' = [Parsed EXCEPT !.shed = @ + 1]
    /\ AfterSink
    /\ UNCHANGED <<lanes, incoming, ingestFrame>>

\* ... and may change before the task is pushed.
Accept(class) ==
    /\ main = "frame"
    /\ class = Bot => ~degraded
    /\ incoming' = class
    /\ tally' = Parsed
    /\ main' = "push"
    /\ UNCHANGED <<lanes, ingestFrame>>

PushLane ==
    /\ main = "push"
    /\ \/ incoming = Human /\ Hi!Push /\ UNCHANGED loVars
       \/ incoming = Bot /\ Lo!Push /\ UNCHANGED hiVars
    /\ incoming' = None
    /\ AfterSink
    /\ UNCHANGED <<tally, ingestFrame>>

\* The ticker of the controller: FailSafe says when.  Its select polls the token
\* before each tick; a tick in progress is as good as one just before the cancel.
SwitchMode ==
    /\ ~cancel
    /\ degraded' = ~degraded
    /\ UNCHANGED <<lanes, cancel, main, incoming, tally, pool, books, board>>

\* Ctrl-C or the duration timer.
ExternalCancel ==
    /\ ~cancel
    /\ cancel' = TRUE
    /\ UNCHANGED <<lanes, degraded, main, incoming, tally, pool, books, board>>

-----------------------------------------------------------------------------
(* Workers *)

workerFrame == <<control, main, incoming, tally, books, board>>

\* First branch: the cancelled token ends the loop.
PollCancelled(w) ==
    /\ at[w] = "cancel"
    /\ cancel
    /\ at' = [at EXCEPT ![w] = "leaving"]
    /\ UNCHANGED <<hiVars, loVars, hand, seen, workerFrame>>

\* Creating a pop future and its Notified concerns nobody else: it is one step with
\* the end of the branch before.
BeginHuman(w) == IF hiPc[w] = "idle" THEN Hi!Call(w) ELSE UNCHANGED hiVars
BeginBot(w) == IF loPc[w] = "idle" THEN Lo!Call(w) ELSE UNCHANGED loVars

PollCancelPending(w) ==
    /\ at[w] = "cancel"
    /\ ~cancel
    /\ BeginHuman(w)
    /\ at' = [at EXCEPT ![w] = "human"]
    /\ seen' = [seen EXCEPT ![w] = IF hiQueue = <<>> THEN 0 ELSE hiPushed]
    /\ UNCHANGED <<loVars, hand, workerFrame>>

\* Second branch: the pop of the human lane makes progress, ...
HumanAdvance(w) ==
    /\ at[w] = "human"
    /\ Hi!SeeEmpty(w) \/ Hi!PollPermit(w) \/ Hi!Resume(w)
    /\ UNCHANGED <<loVars, at, hand, seen, workerFrame>>

\* ... yields a task, ...
HumanReady(w) ==
    /\ at[w] = "human"
    /\ Hi!Take(w)
    /\ hand' = [hand EXCEPT ![w] = Human]
    /\ at' = [at EXCEPT ![w] = "leaving"]
    /\ UNCHANGED <<loVars, seen, workerFrame>>

\* Mutant: the select moves on whenever the human lane is slow to answer.
MutantHumanSuspends(w) == Hi!PollWait(w) \/ UNCHANGED hiVars

HumanSuspends(w) == Hi!PollWait(w) \/ (hiPc[w] = "waiting" /\ UNCHANGED hiVars)

\* ... or is pending: it suspends, or was suspended and not notified.
HumanPending(w) ==
    /\ at[w] = "human"
    /\ HumanSuspends(w)
    /\ BeginBot(w)
    /\ at' = [at EXCEPT ![w] = "bot"]
    /\ UNCHANGED <<hand, seen, workerFrame>>

\* Third branch: the same for the bot lane; when it is pending the task parks.
BotAdvance(w) ==
    /\ at[w] = "bot"
    /\ Lo!SeeEmpty(w) \/ Lo!PollPermit(w) \/ Lo!Resume(w)
    /\ UNCHANGED <<hiVars, at, hand, seen, workerFrame>>

\* Mutant: a task popped while the token is being cancelled is forgotten.
MutantPopped(w) == [hand EXCEPT ![w] = IF cancel THEN None ELSE Bot]

Popped(w) == [hand EXCEPT ![w] = Bot]

BotReady(w) ==
    /\ at[w] = "bot"
    /\ Lo!Take(w)
    /\ hand' = Popped(w)
    /\ at' = [at EXCEPT ![w] = "leaving"]
    /\ UNCHANGED <<hiVars, seen, workerFrame>>

BotPending(w) ==
    /\ at[w] = "bot"
    /\ Lo!PollWait(w) \/ (loPc[w] = "waiting" /\ UNCHANGED loVars)
    /\ at' = [at EXCEPT ![w] = "parked"]
    /\ seen' = [seen EXCEPT ![w] = 0]
    /\ UNCHANGED <<hiVars, hand, workerFrame>>

\* Mutant: the token is only looked at, it wakes nobody.
MutantWoken(w) == hiPc[w] = "notified" \/ loPc[w] = "notified"

\* The wakers a parked task has left behind.
Woken(w) == cancel \/ hiPc[w] = "notified" \/ loPc[w] = "notified"

Wake(w) ==
    /\ at[w] = "parked"
    /\ Woken(w)
    /\ at' = [at EXCEPT ![w] = "cancel"]
    /\ UNCHANGED <<hiVars, loVars, hand, seen, workerFrame>>

\* The select is left: what remains of its futures is dropped, one after the other.
DropHuman(w) ==
    /\ at[w] = "leaving"
    /\ Hi!Drop(w)
    /\ UNCHANGED <<loVars, at, hand, seen, workerFrame>>

DropBot(w) ==
    /\ at[w] = "leaving"
    /\ hiPc[w] = "idle"
    /\ Lo!Drop(w)
    /\ UNCHANGED <<hiVars, at, hand, seen, workerFrame>>

Leave(w) ==
    /\ at[w] = "leaving"
    /\ hiPc[w] = "idle"
    /\ loPc[w] = "idle"
    /\ at' = [at EXCEPT ![w] = IF hand[w] = None THEN "done" ELSE "popped"]
    /\ seen' = [seen EXCEPT ![w] = 0]
    /\ UNCHANGED <<hiVars, loVars, hand, workerFrame>>

\* The drift is recorded and the update offered to the channel, never waited for.
Process(w) ==
    /\ at[w] = "popped"
    /\ M!RecordDrift(hand[w])
    /\ \/ /\ Lb!Send("update")
          /\ accepted' = IF main \in Ingesting \union {"stop", "request"} THEN accepted + 1 ELSE accepted
       \/ ~Lb!Room /\ UNCHANGED board
    /\ at' = [at EXCEPT ![w] = "timed"]
    /\ UNCHANGED <<lanes, control, main, incoming, tally, hand, seen>>

\* The jitter is recorded; the loop goes round.
Finish(w) ==
    /\ at[w] = "timed"
    /\ M!RecordJitter(hand[w])
    /\ hand' = [hand EXCEPT ![w] = None]
    /\ at' = [at EXCEPT ![w] = "cancel"]
    /\ UNCHANGED <<lanes, control, main, incoming, tally, seen, board>>

-----------------------------------------------------------------------------
(* The leaderboard actor *)

LbFrame == <<lanes, control, main, incoming, tally, pool, books, accepted>>

LbStep == Lb!Step /\ UNCHANGED LbFrame

\* Mutant: the senders inside the workers are not waited for.
MutantSendersDropped == main \in {"await", "failed"} \union Reporting

\* Every sender is dropped: that of the orchestrator, and each worker's with it.
SendersDropped ==
    /\ main \in {"await", "failed"} \union Reporting
    /\ \A w \in Workers : at[w] = "done"

LbExit ==
    /\ SendersDropped
    /\ Lb!Exit
    /\ UNCHANGED LbFrame

-----------------------------------------------------------------------------
(* Shutdown, in the order of run *)

MainFrame == <<lanes, degraded, incoming, tally, pool>>

CancelWorkers ==
    /\ main = "stop"
    /\ cancel' = TRUE
    /\ main' = "request"
    /\ UNCHANGED <<MainFrame, books, board>>

\* send(...).await waits for room in the channel.
RequestSnapshot ==
    /\ main = "request"
    /\ Lb!Send("snapshot")
    /\ main' = "release"
    /\ UNCHANGED <<MainFrame, cancel, books, accepted>>

DropSender ==
    /\ main = "release"
    /\ main' = "await"
    /\ UNCHANGED <<MainFrame, cancel, books, board>>

\* The actor has ended; the summary is printed.
PrintSummary ==
    /\ main = "await"
    /\ ~lbUp
    /\ M!PrintMetrics
    /\ main' = "dump_csv"
    /\ UNCHANGED <<MainFrame, cancel, board>>

\* Each dump reads the store anew.
DumpMetrics ==
    /\ \/ main = "dump_csv" /\ M!DumpCsv /\ main' = "dump_hgrm"
       \/ main = "dump_hgrm" /\ M!DumpHgrm /\ main' = "returned"
    /\ UNCHANGED <<MainFrame, cancel, board>>

-----------------------------------------------------------------------------

WorkerStep(w) ==
    \/ PollCancelled(w)
    \/ PollCancelPending(w)
    \/ HumanAdvance(w)
    \/ HumanReady(w)
    \/ HumanPending(w)
    \/ BotAdvance(w)
    \/ BotReady(w)
    \/ BotPending(w)
    \/ Wake(w)
    \/ DropHuman(w)
    \/ DropBot(w)
    \/ Leave(w)
    \/ Process(w)
    \/ Finish(w)

\* What the orchestrator does without waiting for the network.
MainStep ==
    \/ StartIngest
    \/ StopIngest
    \/ Reject
    \/ Shed
    \/ \E class \in Priorities : Accept(class)
    \/ PushLane
    \/ CancelWorkers
    \/ RequestSnapshot
    \/ DropSender
    \/ PrintSummary
    \/ DumpMetrics

Next ==
    \/ MainStep
    \/ ReceiveFrame
    \/ SwitchMode
    \/ ExternalCancel
    \/ \E w \in Workers : WorkerStep(w)
    \/ LbStep
    \/ LbExit

Spec == Init /\ [][Next]_asyncVars

(***************************************************************************)
(* The runtime polls every task that was woken.  Frames need not arrive,   *)
(* nobody has to cancel, and the mode need not change.                     *)
(***************************************************************************)
Fairness ==
    /\ WF_asyncVars(MainStep)
    /\ \A w \in Workers : WF_asyncVars(WorkerStep(w))
    /\ WF_asyncVars(LbStep \/ LbExit)

FairSpec == Spec /\ Fairness
-----------------------------------------------------------------------------
(* Properties *)

Busy == {w \in Workers : hand[w] # None}

\* Every variable of the pipeline has its type, the lanes included.
TypeOK ==
    /\ Hi!TypeOK /\ Lo!TypeOK
    /\ cancel \in BOOLEAN /\ degraded \in BOOLEAN
    /\ main \in Ingesting \union Stopping \union Reporting \union {"failed"}
    /\ incoming \in Priorities \union {None}
    /\ incoming # None <=> main = "push"
    /\ tally \in [received : Nat, malformed : Nat, parsed : Nat, shed : Nat]
    /\ at \in [Workers -> WorkerPositions]
    /\ hand \in [Workers -> Priorities \union {None}]
    /\ seen \in [Workers -> Nat]
    /\ M!BooksTypeOK
    /\ Lb!LbTypeOK
    /\ accepted \in Nat

\* What the lanes have dropped, and how many events one may hold.  The counters say what is
\* dropped, but for lanes of capacity 0: these count the pushes that find them empty, drop
\* nothing, and hold all that comes.
HiDropped == IF capacity = 0 THEN 0 ELSE hiOverflow
LoDropped == IF capacity = 0 THEN 0 ELSE loOverflow
Evicted == HiDropped + LoDropped
LaneRoom == IF capacity = 0 THEN MaxEvents ELSE capacity

\* The pipeline as the life of its events: none gets lost between the tasks, whatever
\* is interleaved, and nothing is done to any of them after the summary.
Life == INSTANCE EventLife WITH
    Hands <- Cardinality(Workers),
    stage <- CASE main \in Ingesting -> "open"
               [] main \in Stopping -> "closed"
               [] main \in Reporting -> "reported"
               [] OTHER -> "failed",
    room <- 2 * LaneRoom,
    arriving <- IF main \in {"frame", "push"} THEN 1 ELSE 0,
    received <- tally.received, rejected <- tally.malformed, shed <- tally.shed,
    evicted <- Evicted,
    waiting <- Len(hiQueue) + Len(loQueue),
    working <- Cardinality(Busy),
    done <- metrics.jitter + unrecorded.jitter

ImplementsLife == Life!LifeSpec

\* Until shutdown, a queued task never meets a pool in which every worker is parked
\* with no notification: whatever pops were abandoned on the way, somebody comes.
NoTaskStranded ==
    hiQueue # <<>> \/ loQueue # <<>> =>
        \E w \in Workers :
            at[w] # "parked" \/ hiPc[w] = "notified" \/ loPc[w] = "notified"

\* The types hold, and the summary waits for the workers although it never joins them:
\* from the moment it is printed all their samples are in the metrics, the files agree
\* with it, and what was parsed is shed, dropped, measured or left in a lane.
SummaryHasAllSamples ==
    /\ TypeOK
    /\ main \in Reporting =>
        LET served == [c \in Priorities |-> IF c = Human THEN Len(hiReceived) ELSE Len(loReceived)]
        IN  /\ \A w \in Workers : at[w] = "done"
            /\ M!Complete(served)
            /\ M!ReportsAgree
            /\ tally.parsed = tally.shed + HiDropped + LoDropped + M!Total(served)
                                + Len(hiQueue) + Len(loQueue)

\* The printed leaderboard exists, and covers exactly the updates that the channel
\* had accepted before the request.
SnapshotCoversEarlier == main \in Reporting => reply = accepted

\* Module documentation of the scheduler: the human lane is drained before the bot
\* lane.  A worker that pops a Bot passes over no Human that was queued when its
\* poll began, unless another worker is on the way to that Human.
BotsYield ==
    [][\A w \in Workers : BotReady(w) =>
          Cardinality({k \in 1..Len(hiQueue) : hiQueue[k] <= seen[w]})
            <= Cardinality({v \in Workers : hiPc[v] \in {"notified", "check"}})]_asyncVars

\* Cancelling the token brings the whole pipeline down: nobody waits for ever on a lane,
\* on the full channel or on the actor, and the summary is printed.  A run that failed
\* prints none, yet its workers and the actor end all the same.
ShutsDown ==
    cancel ~> /\ main \in {"returned", "failed"}
              /\ \A w \in Workers : at[w] = "done"
              /\ ~lbUp

\* A queued task is eventually popped or overwritten, or the pipeline is cancelled.  That
\* a Bot is served too rests on the bound on the frames: Humans stop coming.  The bias
\* delays it then, and no abandoned pop or stolen wake-up loses it.
LanesServed ==
    \A i \in 1..MaxEvents :
        /\ Contains(hiQueue, i) ~> (cancel \/ ~Contains(hiQueue, i))
        /\ Contains(loQueue, i) ~> (cancel \/ ~Contains(loQueue, i))
=============================================================================
