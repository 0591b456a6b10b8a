---------------------------- MODULE PriorityQueue ----------------------------
(***************************************************************************)
(* crates/rts-threaded/src/scheduler.rs: the bounded, blocking priority    *)
(* queue of the threaded pipeline and the loop of its workers.             *)
(*                                                                         *)
(* The heap is only touched under its mutex.  pop_blocking holds the mutex *)
(* from its look at the cancel flag to the pop or the start of the timed   *)
(* wait, but the flag itself and wake_all do not take the mutex, so a      *)
(* shutdown can come between the two.  A task is its class, the Instant it *)
(* was stamped with before the push, and its number in push order; two     *)
(* tasks may carry the same Instant.                                       *)
(***************************************************************************)
EXTENDS Integers, Sequences, FiniteSets

CONSTANTS
    Capacities,   \* the arguments of PriorityQueue::new looked at; 0 is accepted
    Workers,      \* the worker threads
    MaxPushes     \* bound: number of tasks pushed in a behaviour

ASSUME QueueAssumption ==
    /\ Capacities \subseteq Nat
    /\ MaxPushes \in Nat
    /\ IsFiniteSet(Workers)

\* The ordinals of rts_core::priority::Priority.
Human == 0
Bot == 1
Priorities == {Human, Bot}
NoClass == -1

Tasks == [id : Nat, priority : Priorities, enqueued_at : Nat]
NoTask == [id |-> 0, priority |-> Human, enqueued_at |-> 0]

VARIABLES
    capacity,    \* as in the code, never changed
    heap,        \* the queued tasks
    overflow,    \* the AtomicU64 behind overflow_count
    panicked,    \* whether a push panicked, and with it the thread that reads the stream
    cancel,      \* the shutdown flag of the pipeline
    woken_all,   \* whether wake_all has been called
    pc,          \* where each worker is
    hand,        \* the class of the task a worker has popped, or NoClass
    clock,       \* the Instant of the last push
    pushed,      \* history: number of tasks pushed
    served,      \* history: the pops in order, with the pushes seen by then
    eviction     \* history: the last eviction, what went and what stayed

store == <<capacity, heap, overflow, panicked>>
flags == <<cancel, woken_all>>
log == <<clock, pushed, served, eviction>>

workers == <<pc, hand>>

queueVars == <<store, flags, workers, log>>

(***************************************************************************)
(* "loop": between two pops.  "locked": holds the mutex, has seen cancel   *)
(* unset.  "asleep": in wait_for.  "woken": left the wait, wants the mutex *)
(* back.  "busy": processes a task.  "done": pop_blocking returned None.   *)
(***************************************************************************)
Positions == {"loop", "locked", "asleep", "woken", "busy", "done"}

At(p) == {w \in Workers : pc[w] = p}

Init ==
    /\ capacity \in Capacities
    /\ heap = {}
    /\ overflow = 0
    /\ panicked = FALSE
    /\ cancel = FALSE
    /\ woken_all = FALSE
    /\ pc = [w \in Workers |-> "loop"]
    /\ hand = [w \in Workers |-> NoClass]
    /\ clock = 0
    /\ pushed = 0
    /\ served = <<>>
    /\ eviction = [out |-> NoTask, kept |-> {}]

-----------------------------------------------------------------------------
(* Ord for PrioritisedTask and the comparator of the eviction.  The Mutant  *)
(* operators are faults that the properties below must notice.              *)

\* Served first: the smaller class, then the smaller Instant.
Better(s, t) ==
    \/ s.priority < t.priority
    \/ s.priority = t.priority /\ s.enqueued_at < t.enqueued_at

\* Mutant: the tasks are stored without Reverse, the heap pops its worst task.
MutantBest == {t \in heap : \A s \in heap : ~Better(t, s)}

\* What BinaryHeap::pop may return: a task no other precedes.
Best == {t \in heap : \A s \in heap : ~Better(s, t)}

\* Evicted first: the larger class, then the smaller Instant.
Worse(s, t) ==
    \/ s.priority > t.priority
    \/ s.priority = t.priority /\ s.enqueued_at < t.enqueued_at

\* Mutant: the oldest task goes, whatever its class.
MutantWorst == {t \in heap : \A s \in heap : s.enqueued_at >= t.enqueued_at}

\* What max_by may return: a task no other is worse than.
Worst == {t \in heap : \A s \in heap : ~Worse(s, t)}

Full == Cardinality(heap) >= capacity

\* Mutant: the evicted task is not taken out of the rebuilt heap.
MutantRemaining(out) == heap

Remaining(out) == heap \ {out}

Unlocked == At("locked") = {}

\* Mutant: a worker is only woken for the first task of an empty heap.
MutantNotifyOne ==
    IF At("asleep") = {} \/ heap # {} THEN pc' = pc
    ELSE \E w \in At("asleep") : pc' = [pc EXCEPT ![w] = "woken"]

\* Condvar::notify_one.
NotifyOne ==
    IF At("asleep") = {} THEN pc' = pc
    ELSE \E w \in At("asleep") : pc' = [pc EXCEPT ![w] = "woken"]

-----------------------------------------------------------------------------
(* push, called by the ingest thread *)

\* tick tells whether the clock moved since the previous task was stamped.
Incoming(p, tick) ==
    [id |-> pushed + 1, priority |-> p, enqueued_at |-> clock + tick]

PushFree(p, tick) ==
    /\ ~Full
    /\ heap' = heap \union {Incoming(p, tick)}
    /\ UNCHANGED <<overflow, eviction>>

PushEvict(p, tick) ==
    /\ Full
    /\ \E out \in Worst :
          /\ heap' = Remaining(out) \union {Incoming(p, tick)}
          /\ eviction' = [out |-> out, kept |-> Remaining(out)]
    /\ overflow' = overflow + 1

CanPush ==
    /\ Unlocked
    /\ ~panicked
    /\ pushed < MaxPushes

Push(p, tick) ==
    /\ CanPush
    /\ PushFree(p, tick) \/ PushEvict(p, tick)
    /\ pushed' = pushed + 1
    /\ clock' = clock + tick
    /\ NotifyOne
    /\ UNCHANGED <<capacity, panicked, flags, hand, served>>

\* Full and empty at once: there is no worst task, expect panics and the guard is dropped.
PushPanics ==
    /\ CanPush
    /\ Full
    /\ heap = {}
    /\ panicked' = TRUE
    /\ UNCHANGED <<capacity, heap, overflow, flags, workers, log>>

-----------------------------------------------------------------------------
(* pop_blocking and the worker loop *)

\* The mutex is taken and the cancel flag read.
EnterCancelled(w) ==
    /\ pc[w] \in {"loop", "woken"}
    /\ Unlocked
    /\ cancel
    /\ pc' = [pc EXCEPT ![w] = "done"]
    /\ UNCHANGED <<store, flags, hand, log>>

Enter(w) ==
    /\ pc[w] \in {"loop", "woken"}
    /\ Unlocked
    /\ ~cancel
    /\ pc' = [pc EXCEPT ![w] = "locked"]
    /\ UNCHANGED <<store, flags, hand, log>>

Pop(w) ==
    /\ pc[w] = "locked"
    /\ \E t \in Best :
          /\ heap' = heap \ {t}
          /\ served' = Append(served, [task |-> t, seen |-> pushed])
          /\ hand' = [hand EXCEPT ![w] = t.priority]
    /\ pc' = [pc EXCEPT ![w] = "busy"]
    /\ UNCHANGED <<capacity, overflow, panicked, flags, clock, pushed, eviction>>

\* Mutant: an empty heap ends the worker.
MutantWait(w) ==
    /\ pc[w] = "locked"
    /\ heap = {}
    /\ pc' = [pc EXCEPT ![w] = "done"]
    /\ UNCHANGED <<store, flags, hand, log>>

\* wait_for releases the mutex and parks in one step.
Wait(w) ==
    /\ pc[w] = "locked"
    /\ heap = {}
    /\ pc' = [pc EXCEPT ![w] = "asleep"]
    /\ UNCHANGED <<store, flags, hand, log>>

\* The 100 ms of wait_for have passed.
Timeout(w) ==
    /\ pc[w] = "asleep"
    /\ pc' = [pc EXCEPT ![w] = "woken"]
    /\ UNCHANGED <<store, flags, hand, log>>

\* The body of worker: metrics and the leaderboard, then the next pop.
Finish(w) ==
    /\ pc[w] = "busy"
    /\ pc' = [pc EXCEPT ![w] = "loop"]
    /\ hand' = [hand EXCEPT ![w] = NoClass]
    /\ UNCHANGED <<store, flags, log>>

-----------------------------------------------------------------------------
(* Shutdown: the pipeline sets the flag, then calls wake_all, without lock. *)

Cancel ==
    /\ ~cancel
    /\ cancel' = TRUE
    /\ UNCHANGED <<store, woken_all, workers, log>>

WakeAll ==
    /\ cancel
    /\ ~woken_all
    /\ woken_all' = TRUE
    /\ pc' = [w \in Workers |-> IF pc[w] = "asleep" THEN "woken" ELSE pc[w]]
    /\ UNCHANGED <<store, cancel, hand, log>>

-----------------------------------------------------------------------------

WorkerStep(w) ==
    \/ EnterCancelled(w)
    \/ Enter(w)
    \/ Pop(w)
    \/ Wait(w)
    \/ Timeout(w)
    \/ Finish(w)

Next ==
    \/ \E p \in Priorities, tick \in {0, 1} : Push(p, tick)
    \/ PushPanics
    \/ \E w \in Workers : WorkerStep(w)
    \/ Cancel
    \/ WakeAll

Spec == Init /\ [][Next]_queueVars

(***************************************************************************)
(* The operating system runs every runnable thread and wait_for returns    *)
(* when its 100 ms are over.  Nothing obliges anyone to push or to cancel; *)
(* WakeAll directly follows Cancel in the pipeline's thread.               *)
(***************************************************************************)
Fairness ==
    /\ \A w \in Workers : WF_queueVars(WorkerStep(w))
    /\ WF_queueVars(WakeAll)

FairSpec == Spec /\ Fairness
-----------------------------------------------------------------------------
(* Properties *)

\* Every variable has its type; the task numbers identify the tasks; the mutex
\* has at most one holder.
TypeOK ==
    /\ capacity \in Capacities
    /\ panicked \in BOOLEAN
    /\ heap \in SUBSET Tasks
    /\ IsFiniteSet(heap)
    /\ \A t \in heap : t.id \in 1..pushed /\ t.enqueued_at <= clock
    /\ overflow \in Nat
    /\ cancel \in BOOLEAN
    /\ woken_all \in BOOLEAN
    /\ pc \in [Workers -> Positions]
    /\ hand \in [Workers -> Priorities \union {NoClass}]
    /\ \A w \in Workers : hand[w] # NoClass <=> pc[w] = "busy"
    /\ clock \in Nat
    /\ pushed \in Nat
    /\ served \in Seq([task : Tasks, seen : Nat])
    /\ eviction \in [out : Tasks, kept : SUBSET Tasks]
    /\ \A v, w \in At("locked") : v = w

\* The types hold, and every task pushed was popped, is counted as an overflow, or is
\* queued: no task is lost silently and none is popped twice, and the queue keeps its
\* bound.  Only the capacity 0 makes a push panic, and then it is the first push.
Accounting ==
    /\ TypeOK
    /\ Cardinality(heap) <= capacity
    /\ panicked => capacity = 0 /\ pushed = 0
    /\ pushed = Len(served) + overflow + Cardinality(heap)
    /\ \A i, j \in 1..Len(served) : i # j => served[i].task.id # served[j].task.id
    /\ \A i \in 1..Len(served), t \in heap : served[i].task.id # t.id

\* Module documentation: older tasks of a class are served before newer ones,
\* across all workers, and nothing still queued is older than what was served.
FifoWithinClass ==
    /\ \A i, j \in 1..Len(served) :
          i < j /\ served[i].task.priority = served[j].task.priority
            => served[i].task.enqueued_at <= served[j].task.enqueued_at
    /\ \A i \in 1..Len(served), t \in heap :
          served[i].task.priority = t.priority => served[i].task.enqueued_at <= t.enqueued_at

\* Module documentation, and the comment in push: a Human is given up only when no Bot is
\* queued, and of its class the oldest goes.  The documentation of the struct says that the
\* task with the largest (priority_ordinal, enqueued_at) goes, of its class the newest: the
\* code does not do that.
EvictsBotsThenOldest ==
    \A t \in eviction.kept :
        /\ t.priority <= eviction.out.priority
        /\ t.priority = eviction.out.priority
             => eviction.out.enqueued_at <= t.enqueued_at

\* Until shutdown no task waits for the 100 ms poll: while a worker sleeps there
\* are at least as many workers on their way to the heap as tasks in it.
WorkConserving ==
    At("asleep") # {} /\ ~cancel =>
        Cardinality(heap) <= Cardinality(At("woken") \union At("locked"))

\* Module documentation: Human edits preempt Bot edits.  Whenever a Bot was
\* popped, every Human pushed by then had been popped before it or evicted.
HumansFirst ==
    \A i \in 1..Len(served) : served[i].task.priority = Bot =>
        /\ \A t \in heap : t.priority = Human => t.id > served[i].seen
        /\ \A j \in (i + 1)..Len(served) :
              served[j].task.priority = Human => served[j].task.id > served[i].seen

\* A queued task is popped or evicted, or the pipeline shuts down.
TasksLeave ==
    \A i \in 1..MaxPushes :
        (\E t \in heap : t.id = i) ~> (cancel \/ \A t \in heap : t.id # i)
=============================================================================
