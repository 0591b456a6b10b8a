# Verification of the real-time Wikipedia pipeline

TLA+ specifications of the two pipelines in `crates/`, the TLC configurations that
check them on small instances, and TLAPS proofs about the parts that matter most.
All paths below are relative to `src/crates/`.

## 1. The system

The program reads Wikipedia's stream of recent changes (server-sent events), sorts each
edit into Human or Bot, schedules it on a pool of workers, counts edits per wiki and
prints latency metrics. It exists twice over one core: `rts-async` on Tokio, `rts-threaded`
on `std::thread`. `rts-replay` records and replays streams, `rts-cli` starts everything.

| Component | State it keeps | Operations | What makes it correct |
|---|---|---|---|
| `rts-core` `DropOldestRing` | a deque under a mutex, an overflow counter, a Tokio `Notify`, a `Condvar` | `push`, `pop_async`, `pop_blocking` | FIFO, oldest dropped first, bounded, every item accounted for, no consumer asleep over an item |
| `rts-core` `FailSafeController` | a ring of histograms, its index, the degraded flag, the dwell counter | `record_jitter`, `tick`, `is_degraded` | the window slides, the mode follows the hysteresis automaton, and Degraded Mode ends |
| `rts-core` `WatchdogState` | the time of the last event | `touch`, `is_stale`, the periodic checkers | no false alarm |
| `rts-core` `Metrics` | histograms and counters | `record_*`, `snapshot`, dumps | one sample per processed task, all of them in the summary, and files that agree with it |
| `rts-async` ingest, `rts-threaded` ingest | connection, back-off, limit, framing buffer | `run_sse` | whole events, the limit, one event at most after a cancel, reconnection |
| `rts-threaded` `PriorityQueue` | a heap under a mutex, an overflow counter, a `Condvar` | `push`, `pop_blocking`, `wake_all` | Humans first, FIFO per class, right eviction, bounded, workers stop |
| parsers | none | `dispatch` | every event lands somewhere; Bots are shed in Degraded Mode |
| workers | the task in hand; in the async case the suspended branches of a `select!` | loop: pop, measure, update | no task stranded, samples complete |
| leaderboard actors | counts per wiki, a channel | `Update`, `Snapshot` | the snapshot covers what was sent before it |
| pipelines (`run`) | token or flag, handles | start, shutdown | the shutdown ends, and the summary is last |
| `rts-replay` `record` | a channel, a buffered file | `record` | a returned count is what can be loaded from the file |
| `rts-replay` `play` | the fixture; per client: index, anchor | `load_fixture`, `serve` | order and pacing over the loop, shutdown |

Interaction. The ingest calls `dispatch` for each payload (same thread or task). `dispatch`
touches the watchdog, reads the degraded flag, and pushes into a lane (async: one ring per
class; threaded: one priority queue). Workers pop, record drift and jitter in `Metrics` and in
the controller, and send an update to the leaderboard. A ticker evaluates the controller every
second, a checker the watchdog every five. The orchestrator, when the ingest returns, cancels
the token, asks the leaderboard for a snapshot and prints. Ctrl-C and a duration timer cancel
the same token from outside.

Hard behaviour: wake-ups of `Notify` (one stored permit) and of the condition variable; the
`select!` that keeps a suspended pop of one lane while polling the other and drops it, perhaps
notified, when it ends; the controller's index read outside of the bucket's lock; the shutdown,
where updates, the snapshot request and the end of the channel race; the blocking reads of the
threaded ingest; a cancel between a check and the step it guards; an error or a panic that leaves the
threads it should have stopped; a recording cut by a crash. `PROJECT.json` lists each of
these hazards with its line and the properties aimed at it.

## 2. Modules

| Module | Models | Composition |
|---|---|---|
| `LossyFifo` | abstract: a FIFO channel that may lose its oldest items | |
| `DropOldestRing` | `rts-core/src/channel/ring.rs` with Tokio's `Notify` and the `Condvar` | implements `LossyFifo` |
| `PriorityQueue` | `rts-threaded/src/scheduler.rs` | |
| `Hysteresis` | abstract: the automaton of the module documentation of `failsafe.rs` | |
| `FailSafe` | `rts-core/src/failsafe.rs` | implements `Hysteresis` |
| `Watchdog` | `rts-core/src/watchdog.rs` | composed in `ThreadedIngest` |
| `EventSource` | abstract: what both `run_sse` promise to their callers | |
| `AsyncIngest` | `rts-async/src/ingest.rs` | implements `EventSource` |
| `ThreadedIngest` | `rts-threaded/src/ingest.rs`, the touch in its sink and the watchdog thread | one `Watchdog`; implements `EventSource` |
| `Leaderboard` | both `leaderboard.rs` | |
| `Metrics` | `rts-core/src/metrics.rs`, and what both `run` print and write of it | |
| `EventLife` | abstract: what both pipelines promise to do with an event | |
| `AsyncPipeline` | `rts-async` parser, scheduler, pipeline | two `DropOldestRing`, one `Leaderboard`, one `Metrics`; implements `EventLife` |
| `ThreadedPipeline` | `rts-threaded` parser, workers, pipeline | one `PriorityQueue`, one `Leaderboard`, one `Metrics`; implements `EventLife` |
| `Fixture` | `load_fixture` of `rts-replay/src/play.rs` | |
| `Recorder` | `rts-replay/src/record.rs` | one `EventSource`; reads its file back with `Fixture` |
| `ReplayServer` | the rest of `rts-replay/src/play.rs` | loads with `Fixture` |
| `MC...` | the small instances for TLC | extend the module they are named after |
| `...Proofs` | the TLAPS proofs | extend the module they are named after, `ReplayProofs` both modules of `rts-replay` |

How state and actions correspond to the code:

* **DropOldestRing.** `queue` and `overflow` are the fields; `permit` and `waiters` the state
  of `Notify`; `asleep` the wait queue of the `Condvar`. A consumer of `pop_async` is
  `check` (has created its `Notified` and is about to lock), `poll` (has seen the ring empty and
  not polled yet), `waiting`, `notified`. Creating a `Notified` reserves nothing; polling it takes
  the permit or joins the list; dropping a notified one passes the notification on. These are
  external (`tokio`, `parking_lot`) and modelled from their documented behaviour. `Push` is the
  critical section and the two notifications; `received` and `lost` are history. The capacity is a
  variable that never changes, so that one run looks at several, 0 included.
* **PriorityQueue.** `heap` is a set of tasks with class and instant; `Best` and `Worst` are the
  two comparisons of the code, with ties left open as the heap leaves them. A worker's
  `wait_for` ends by a notification or by its timeout. The capacity is a variable as in the ring;
  with 0 the first push finds nothing to evict and panics (`PushPanics`), which drops the guard of
  the mutex.
* **FailSafe.** A histogram is reduced to how many samples it has below, between and above the
  two thresholds, which is all that the 99th percentile is compared with. `ReadIndex` and
  `Record` are the two halves of `record`; a tick is `Advance`, one `MergeBucket` for each bucket,
  and `Evaluate`.
* **Watchdog.** `touch` and `is_stale` are two steps each: clock, then heartbeat. Subtraction
  saturates, on a clock of `Width` values. The thread that touches is the one of `ThreadedIngest`,
  where the touch is a part of the sink and may be missing (a payload that does not parse).
* **AsyncIngest, ThreadedIngest.** One action for each way an attempt, a read or a sleep can end;
  in the async one, before them, the client that is built or not.
  The back-off is counted in units of its first value, without jitter. The limit is a variable that
  never changes. In `ThreadedIngest` the flag is read in its own step wherever the code loads it, and a data line
  is its number in the connection, so that a payload shows which lines it was joined from.
* **AsyncPipeline.** `at[w]` is the branch of the `select!` a worker polls; polls of a lane are
  the steps of that lane's ring, so other tasks run in between. `hand` is the popped task's class.
  `main` is the orchestrator inside `run_sse`, then in its shutdown. The ingest is reduced to
  frames that come, or the token being seen; `SwitchMode` lets the controller change its mind
  until the token is cancelled, which covers everything `FailSafe` allows. An ingest error leaves
  `main` at `failed` and everybody else running. `tally` counts the frames received, malformed,
  parsed (`cow_stats`) and shed.
* **ThreadedPipeline.** The same for threads; the queue and the worker's loop are those of
  `PriorityQueue`, with what a worker does to a task added. A panic of the push is `failed`.
* **Metrics.** A histogram is the number of its samples. A time beyond its 60 s, and a missed
  deadline, are choices of the record actions; `unrecorded` counts, as history, what a histogram
  refused. `report` is what the end of `run` printed and wrote; writing may fail.
* **EventLife.** Numbers of events: arriving, rejected, shed, evicted, waiting, being worked on,
  done. The pipelines map their lanes, hands and counters to them.
* **Recorder.** Channel and file keep their order, so they are counts. A write can fail and the
  process can die; what the buffer held then is in the file up to some point, perhaps in the
  middle of a line (`torn`). `File` is the result as lines, which `Load` of `Fixture` reads.
* **ReplayServer.** `file`, `rate` and the loaded `events` never change once they are set, so
  that one run looks at several. Each client has an index and a clock read against `loop_start`;
  `passAge` and `last` are history. `serve` returns when no connection is open, as axum's graceful shutdown does.

## 3. What is checked

Each module has one type invariant; where a run lists no `TypeOK` it is a conjunct of the first
invariant listed. Every property has, in `PROJECT.json`, a mutant: a named faulty variant of one definition under
which TLC refutes it. The mutants stand beside the definitions they replace.

| Run | Instance | Question |
|---|---|---|
| `RingSafety` | 3 async, 2 blocking consumers, capacity 0, 1 or 2, 6 pushes | types, order, the overflow count, no stranded consumer, refinement of `LossyFifo` (which bounds a ring of positive capacity) |
| `Queue` | 2 workers, capacity 0 or 2, 3 pushes | order, eviction, accounting, bound, the panic, work conservation; no task is forgotten |
| `FailSafe` | 2 workers, window 3, dwell 2, 3 samples | types, window, refinement of `Hysteresis`; Degraded Mode ends |
| `AsyncIngest` | no limit, limit 0 or 4, cap 12, 6 failures | back-off, limit, refinement of `EventSource`; a cancel ends it |
| `ThreadedIngest` | limit 0 or 2, 3 data lines per connection, 4 instants | whole events, no false alarm of the watchdog, refinement of `EventSource`; flag and limit end it |
| `AsyncSafety` | 2 workers, lanes of 0 or 1, channel of 2, 2 frames, 1 outlier | refinement of `EventLife`, no stranded task, complete summary and files, the snapshot |
| `AsyncOneWorker` | 1 worker, lanes of 0 or 2, 3 frames, no outlier | Humans before Bots, every queued task served, shutdown, of what an ingest error leaves behind too |
| `Threaded` | 2 workers, queue of 0 or 1, 2 events, 1 outlier | refinement of `EventLife`, complete summary and files, shutdown although `wake_all` may be missed, and of what a panic leaves behind |
| `Recorder` | 5 events | a returned count is what can be loaded, a torn file is refused; the recording ends |
| `ReplayPacing` | 2 clients, 4 fixtures, rates 1x, 2x, max | only a good fixture is served, order and pace over the loop; `serve` returns once it is alone |

Bounds, and why they are enough. Each is a constant: `MaxPushes`, `MaxEvents`, `MaxSamples`,
`MaxFailures`, `MaxData`, `MaxTime`, `MaxAge`, `MaxOutliers`; `Capacities`, `Limits`, `Files` and `Rates`
are the values looked at. Overflow needs one push more than the capacity,
a lost wake-up two consumers and two pushes, a notification dropped by one consumer and due to
another three; a wrapped window needs one advance more than its buckets; the race of the summary
one worker with a task. Every run lets these happen, as the mutants and the runs of section 4
show. In `ThreadedIngest` the cancel may come at any line, the limit of two makes the second
payload the last, and with the limit 0 it returns before it connects. In `AsyncSafety` two frames
overflow a lane of one and are twice what fits a lane of nominally none. One outlier is enough to part the counts of two histograms. `LanesServed` rests on
the bound on the frames where Bots are concerned: Humans that never pause starve them, as the bias
wants. Capacities of one and two make the full and the empty queue a step apart. Processes
are symmetric, and symmetry is used in the two runs without liveness only. `CHECK_DEADLOCK FALSE` stands in the
runs whose system really stops, after a shutdown, a return, or the last push of the bound.

Fairness. Always weak, and only of what a scheduler owes: a runtime polls woken tasks, the
operating system runs runnable threads, a timer fires, a blocking read ends within its timeout
of 30 s. Never: that an event arrives, that a user cancels, that a connection answers, that a
client leaves. `Streams` assumes besides that a client which stays connected keeps reading: the
server's step is fair, and a client that never reads would hold it back.
`Recorder` adds that the duration, which the command line always gives, runs out.

## 4. Where code and documentation part

Two are runs that must find a violation; the quotes are in `PROJECT.json`.

| Run | Finding |
|---|---|
| `AsyncPriority` | The human lane can lose its precedence. A push leaves at most one permit in `Notify`, and an unpolled `Notified` reserves nothing, so a worker that saw the lane empty can stay suspended on it while it holds a Human; woken for the other lane, it takes a Bot. With one worker this cannot happen (`AsyncOneWorker`). Workers that loop never strand all items (`LoopersNotStranded`, proved), so it costs order, not items. |
| `ThreadedEndOfStream` | A connection that the upstream closes properly ends the threaded pipeline as if the limit were reached. |

Others are visible in the models and stand with the hazards in `PROJECT.json`: `--capacity 0`, which the
command line accepts (a ring compares its length with the capacity by `==`: each push that finds it
empty is counted as an overflow although nothing is dropped, every other push is taken as room, so
the ring grows without bound: `OverflowCountsLosses`, `RingIsBounded`; the priority queue panics
at the first push, although its `expect` says that the capacity is positive, and its pipeline ends
without a shutdown: `Accounting`, `ShutsDown`); the priority queue evicts the oldest task of the
worst class, as the comment in `push` and the module's documentation say, and not the task with the
largest tuple, of its class the newest, of the struct's documentation (`EvictsBotsThenOldest`);
`--limit 0` forwards one event in the async pipeline and none in the threaded one
(`AsyncLimitIsHonest`, `ThreadedKeepsPromise`); the async snapshot may miss updates of tasks in flight,
which the threaded pipeline avoids by joining its workers (`SnapshotCoversEarlier`,
`SummaryIsComplete`); the jitter row of the CSV file prints the number of drift samples, which is
wrong by the samples a histogram refused (`ReportsAgree`); `Metrics.overflow_count` stays 0 and the
summary takes the overflows from the lanes; a client that cannot be built ends the async `run`
without a cancel; a recording that was cut between two lines loads as a shorter one; the watchdog
logs and resets nothing; the replay server does not return while a client stays connected
(`ReturnsOnceAlone`).

## 5. What is proved

TLAPS checks the following for every value of the constants, under the named assumptions of
the modules and those stated in a theorem.

* `RingProofs`. `TypeCorrect`, with the wait list as a duplicate-free sequence of exactly the
  waiting consumers: everything else needs this. `RingIsFifo` is inductive with the types, for
  every capacity, 0 included: the queue is the last pushes in order, and what is gone is
  received or lost, never both. `RingIsBounded` and `OverflowIsTruthful` (the counter is the number of
  items lost) follow for a positive capacity; of capacity 0 they say that no item is lost, and
  no bound is claimed. `LoopersNeverStranded` and
  `BlockingNeverStranded` are the two wake-up invariants; each argues by the notification
  that a push hands to a waiter, or stores, and who passes it on. The refinement
  (`RingImplementsFifo`, every capacity) maps the queue to the outstanding items and every step of the
  wake-up machinery to a stutter; the room of a ring of capacity 0 is all that may be pushed.
* `FailSafeProofs`. `FailSafeTypeCorrect`; `DwellCountsTheRun`, which the refinement needs: only `Evaluate` moves the
  counter and the history; `FailSafeIsHysteresis`: the mode changes as the automaton says.
  `WindowSlides`: with the modulus replaced by the distance round the ring, an advance ages every
  bucket by one and empties the one that would become too old; a late sample makes none older.
* `PriorityQueueProofs`, for every capacity, 0 included, and any number of workers. `QueueTypeCorrect`
  makes the number of a task its identity, and `QueueAccounts` counts by it. `QueueIsFifoWithinClass`
  and `QueueServesHumansFirst` need that what was served is of the past: its stamp is not later than
  the clock, and its number not larger than the pushes seen (`Past`, `Ordered`).
  `QueueEvictsTheWorst` follows from the last eviction alone. `QueueConservesWork`: a push adds a
  task and, if anybody sleeps, a woken worker; a worker falls asleep only on an empty heap.
* `AsyncIngestProofs`, `ThreadedIngestProofs`. `AsyncKeepsPromise` and
  `ThreadedKeepsPromise`: the refinement of `EventSource`, for every limit; the async one takes a
  limit of 0 for 1 (`Asked`), the threaded one forwards nothing. The invariant ties the position to
  the promise: a payload in hand was received before the cancel was seen and below the limit.
  `AsyncLimitIsHonest`. `BackoffIsExponential`: the back-off is the cap or 2 to the number of
  failures slept off, for every cap. The prover knows nothing of powers of two; they enter as the
  sizes of powersets (`PowerDoubles`). `ThreadedTypeCorrect`. `ThreadedFramesWholeEvents`: the invariant says that `data_buf` is the
  slice of the connection from the start of the block to the last line processed.
  `ThreadedWatchdogIsTruthful` follows from the types: no time that was read is later than the clock.
* `ThreadedPipelineProofs`. First the promise itself. `LifeLosesNothing`: in `EventLife` the balance
  of the seven numbers is inductive together with their types, the bounds, and the fact that nothing
  arrives once the stage is closed or reported. `LifeEndsWithReport`: under the same invariant no step
  is left after the summary.
  Then the pipeline. `ThreadedImplementsLife`: the tasks are counted in the heap and in the
  workers' hands; the invariant `TInv` adds that the workers are gone from the last join on, so that
  none starts a task after the summary; hence `ThreadedLosesNothing` and `ThreadedEndsWithReport`.
  Each step is one of the queue or leaves it alone (a lemma), hence the theorems of
  `PriorityQueueProofs` hold in the pipeline (`ThreadedServesInOrder`).
  `ThreadedSummaryIsComplete`: of each class as many tasks were popped as are in hand or measured, an
  outlier counting for the sample that its histogram refused; the leaderboard has or will get an
  update for each, and the joins leave no hand full when the snapshot is asked for.
* `AsyncPipelineProofs`, for all capacities, 0 included. Each step is one of a lane or leaves it
  alone (a lemma), hence the theorems of `RingProofs` hold of both lanes (`AsyncLanesKeepOrder`).
  `AsyncImplementsLife`: the evicted events are those the overflow counters name, and with lanes of
  capacity 0 there are none (`Evicted`, `LaneRoom`). Here nobody joins the workers; the invariant `LifeInv` says that the actor
  outlives them and that the summary waits for the actor; hence `AsyncLosesNothing` and
  `AsyncEndsWithReport`. `AsyncSummaryIsComplete` adds the samples per class to it, as in the
  threaded pipeline, with the hands emptied by the end of the channel instead of the joins.
  `AsyncStrandsNothing` (at least one
  worker) uses two of the ring's theorems: a parked worker has a pending pop in either
  lane (`ParkInv`), so if none was notified both wait lists are full, both permits are unset, and a
  queued task would be stranded in its lane. `AsyncSnapshotComplete`: the request stands in the
  channel behind exactly the accepted updates that are not counted yet (`Requested`).
  `AsyncBotsYieldToHumans`, for a pool of one worker (`Alone`): a poll that
  begins over a queued Human is on its way to it and never reaches the bot lane (`YieldInv`), since a
  suspended pop of that worker alone has its notification or finds the permit. With two workers
  this fails, as `AsyncPriority` shows.
* `ReplayProofs`, both halves of `rts-replay`. `RecordingIsTrustworthy`: what was flushed never
  exceeds what was delivered, and a count is returned only by a writer that came to the end of the
  channel and flushed (`RecordInv`); that `load_fixture` reads just these lines back, whatever their
  number and wherever the file is torn, are lemmas about `Kept` and `Load` (`WholeFileLoads`,
  `TornFileFails`). `ReplayIsNeverEarly`: an open stream counts from the first event of the fixture,
  and whatever it has sent in this pass was due at the age of the pass (`StreamInv`, `Paced`); a clock
  that goes on keeps this, and a wrap starts over with nothing sent.

Induction. The library states induction over the naturals for an operator, which the installed
provers cannot instantiate. Where a loop over data had to be followed (`Kept`), `ReplayProofs` states it for a
set of naturals instead: a set that holds 0 and every successor of its members holds all
naturals (`UpTo`), by the well-foundedness of the naturals.

Model-checked only. Of the properties of section 3 every invariant and every action property is
the subject of a theorem (`BotsYield` for one worker, the only pool in which it holds). What is left
is liveness (`TasksLeave`, `Recovers`, `ShutsDown` of both pipelines, `LanesServed`, `CancelReturns`,
`Returns`, `Ends`, `Streams`, `ReturnsOnceAlone`): it rests on fairness, that is on ENABLED, which the prover
does not treat.

## 6. Not modelled

The JSON of an event, its borrowed and owned strings, the conversion of the clock and the error
types (`event.rs`, `time.rs`, `error.rs`): of these the models have the outcome of a parse, the
class, the stamp, and the count. The values of the percentiles, except the one the controller
compares. The command line beyond cancel and timer, logging, the stress command. The text of a rate:
one that does not parse never reaches `serve`. Benchmarks, scripts and reports. Memory growth of
the unbounded leaderboard channel: rates are not in the models. Whether a body stream ends after
a failed read is decided by the HTTP library: `AsyncIngest` allows both, and claims no
reconnection for a broken stream.

## 7. Plan

Done, in this order: the ring with its abstract channel and its proofs; the priority queue; the
fail-safe controller with its automaton and proofs; the two pipelines over them; the two ingests
with their promise and proofs, the threaded one with the watchdog; the recorder; the replay server;
the metrics with what is printed and written; the life of an event as the promise of both
pipelines, with its proofs; the fixture, which the recorder writes and the server reads; crashes of
the recorder, the panic of the queue, the error of the client; the proofs of the queue, of the
window, and that both pipelines implement `EventLife` for every pool and capacity; the
proofs of the summaries, of the back-off, of the recorder and the replay server, and of the
precedence of Humans with one worker.

Next:

1. The pipelines over the full ingests (`EventSource` in place of the frames), with limit and
   back-off in the shutdown's liveness.
2. Proofs: what is left is liveness, which needs a prover that treats ENABLED.
