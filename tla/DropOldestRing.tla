--------------------------- MODULE DropOldestRing ---------------------------
(***************************************************************************)
(* crates/rts-core/src/channel/ring.rs: a bounded multi-producer,          *)
(* multi-consumer ring that drops its oldest element when full, with an    *)
(* asynchronous pop (tokio::sync::Notify) and a blocking pop (Condvar).    *)
(*                                                                         *)
(* The queue is only touched under its mutex, so a whole critical section  *)
(* is one action.  pop_async is three: creating the future, the check of   *)
(* the queue, and the first poll of the Notified future, which happens     *)
(* after the mutex was released; pushes by other threads of the runtime    *)
(* may come between them.  Items are numbered in the order of their push.  *)
(***************************************************************************)
EXTENDS Integers, Sequences, FiniteSets, Functions, SequencesExt

CONSTANTS
    Capacities,          \* the arguments of DropOldestRing::new to look at
    AsyncConsumers,      \* tasks that call pop_async
    BlockingConsumers,   \* threads that call pop_blocking
    MaxPushes            \* bound: number of items pushed in a behaviour

ASSUME RingAssumption ==
    /\ Capacities \subseteq Nat
    /\ MaxPushes \in Nat
    /\ AsyncConsumers \intersect BlockingConsumers = {}
    /\ IsFiniteSet(BlockingConsumers)

Consumers == AsyncConsumers \union BlockingConsumers

VARIABLES
    capacity,   \* as in the code, never changed
    queue,      \* the VecDeque
    overflow,   \* the AtomicU64 behind overflow_count
    permit,     \* Notify: one stored notification
    waiters,    \* Notify: the FIFO list of registered Notified futures
    asleep,     \* Condvar: the parked threads
    pc,         \* where each consumer is
    pushed,     \* history: number of items pushed
    received,   \* history: the items popped, in the order of the pops
    lost        \* history: the items dropped by push

ringVars == <<capacity, queue, overflow, permit, waiters, asleep, pc,
              pushed, received, lost>>

(***************************************************************************)
(* Positions of a consumer.  "idle": not in a pop.  "check": about to lock *)
(* the queue.  An async consumer: "poll": saw the queue empty, has not yet *)
(* polled its Notified; "waiting": registered with Notify; "notified":     *)
(* chosen by notify_one, not polled since.  A blocking one: "asleep" and   *)
(* "woken" are the same two inside Condvar::wait.                          *)
(***************************************************************************)
AsyncPositions == {"idle", "check", "poll", "waiting", "notified"}
BlockingPositions == {"idle", "check", "asleep", "woken"}

Init ==
    /\ capacity \in Capacities
    /\ queue = <<>>
    /\ overflow = 0
    /\ permit = FALSE
    /\ waiters = <<>>
    /\ asleep = {}
    /\ pc = [c \in Consumers |-> "idle"]
    /\ pushed = 0
    /\ received = <<>>
    /\ lost = {}

-----------------------------------------------------------------------------
(* VecDeque and the wake-up primitives.  The Mutant operators are faults    *)
(* that the properties below must notice; no specification uses them.       *)

\* Mutant: a slot is kept free.
MutantFull == Len(queue) + 1 >= capacity

\* As in the code, an empty ring of capacity 0 is full, and is not once it holds an item.
Full == Len(queue) = capacity

\* Mutants: the newest element is dropped; nothing is dropped.
MutantPopBack(q) == IF q = <<>> THEN q ELSE Front(q)
\* VecDeque::pop_front when its result is not used: no effect on an empty queue.
PopFront(q) == IF q = <<>> THEN q ELSE Tail(q)

\* Mutant: the thread is only woken for the first item of an empty queue.
MutantCondvarNotifyOne(t) ==
    IF asleep = {} \/ queue # <<>> THEN pc' = t /\ asleep' = asleep
    ELSE \E b \in asleep : pc' = [t EXCEPT ![b] = "woken"] /\ asleep' = asleep \ {b}

\* Condvar::notify_one: one parked thread wakes, if there is any.
CondvarNotifyOne(t) ==
    IF asleep = {} THEN pc' = t /\ asleep' = asleep
    ELSE \E b \in asleep : pc' = [t EXCEPT ![b] = "woken"] /\ asleep' = asleep \ {b}

\* Notify::notify_one, as the positions, list and permit it leaves: the oldest
\* waiter is notified, else a permit is stored, and a second permit is absorbed
\* by the first.
NotifyOnePc(t) ==
    IF waiters = <<>> THEN t ELSE [t EXCEPT ![Head(waiters)] = "notified"]

\* Mutant: the notified waiter stays in the list.
MutantKeepWaiter == waiters

NotifyOneWaiters == IF waiters = <<>> THEN waiters ELSE Tail(waiters)

\* Mutant: nothing is stored for a consumer that has not registered yet.
MutantNoPermit == permit

NotifyOnePermit == permit \/ waiters = <<>>

-----------------------------------------------------------------------------
(* push *)

Push ==
    /\ pushed < MaxPushes
    /\ pushed' = pushed + 1
    /\ IF Full
         THEN /\ queue' = Append(PopFront(queue), pushed + 1)
              /\ overflow' = overflow + 1
              /\ lost' = IF queue = <<>> THEN lost ELSE lost \union {Head(queue)}
         ELSE /\ queue' = Append(queue, pushed + 1)
              /\ UNCHANGED <<overflow, lost>>
    /\ permit' = NotifyOnePermit
    /\ waiters' = NotifyOneWaiters
    /\ CondvarNotifyOne(NotifyOnePc(pc))
    /\ UNCHANGED <<capacity, received>>

-----------------------------------------------------------------------------
(* pop_async and pop_blocking *)

\* A pop begins: notified() is created but registers nothing yet.
Call(c) ==
    /\ pc[c] = "idle"
    /\ pc' = [pc EXCEPT ![c] = "check"]
    /\ UNCHANGED <<capacity, queue, overflow, permit, waiters, asleep, pushed, received, lost>>

\* The queue is locked (again, by a woken thread) and an item taken.
Take(c) ==
    /\ pc[c] \in {"check", "woken"}
    /\ queue # <<>>
    /\ queue' = Tail(queue)
    /\ received' = Append(received, Head(queue))
    /\ pc' = [pc EXCEPT ![c] = "idle"]
    /\ UNCHANGED <<capacity, overflow, permit, waiters, asleep, pushed, lost>>

\* pop_async finds the queue empty and releases the lock.
SeeEmpty(c) ==
    /\ pc[c] = "check"
    /\ queue = <<>>
    /\ pc' = [pc EXCEPT ![c] = "poll"]
    /\ UNCHANGED <<capacity, queue, overflow, permit, waiters, asleep, pushed, received, lost>>

\* First poll of the Notified future: it consumes the stored permit ...
PollPermit(c) ==
    /\ pc[c] = "poll"
    /\ permit
    /\ permit' = FALSE
    /\ pc' = [pc EXCEPT ![c] = "check"]
    /\ UNCHANGED <<capacity, queue, overflow, waiters, asleep, pushed, received, lost>>

\* ... or registers as a waiter and suspends the task.
PollWait(c) ==
    /\ pc[c] = "poll"
    /\ ~permit
    /\ waiters' = Append(waiters, c)
    /\ pc' = [pc EXCEPT ![c] = "waiting"]
    /\ UNCHANGED <<capacity, queue, overflow, permit, asleep, pushed, received, lost>>

\* The notified task is polled again and goes round the loop.
Resume(c) ==
    /\ pc[c] = "notified"
    /\ pc' = [pc EXCEPT ![c] = "check"]
    /\ UNCHANGED <<capacity, queue, overflow, permit, waiters, asleep, pushed, received, lost>>

(***************************************************************************)
(* The suspended future is dropped, because another branch of the select   *)
(* it stands in completed.  A registered Notified leaves the list; one     *)
(* that was notified but not polled hands its notification on.             *)
(***************************************************************************)
DropWaiting(c) ==
    /\ pc[c] = "waiting"
    /\ \E i \in 1..Len(waiters) :
          waiters[i] = c /\ waiters' = RemoveAt(waiters, i)
    /\ pc' = [pc EXCEPT ![c] = "idle"]
    /\ UNCHANGED <<capacity, queue, overflow, permit, asleep, pushed, received, lost>>

DropNotified(c) ==
    /\ pc[c] = "notified"
    /\ permit' = NotifyOnePermit
    /\ waiters' = NotifyOneWaiters
    /\ pc' = NotifyOnePc([pc EXCEPT ![c] = "idle"])
    /\ UNCHANGED <<capacity, queue, overflow, asleep, pushed, received, lost>>

\* pop_blocking finds the queue empty: Condvar::wait unlocks and parks at once.
Sleep(c) ==
    /\ pc[c] \in {"check", "woken"}
    /\ queue = <<>>
    /\ asleep' = asleep \union {c}
    /\ pc' = [pc EXCEPT ![c] = "asleep"]
    /\ UNCHANGED <<capacity, queue, overflow, permit, waiters, pushed, received, lost>>

-----------------------------------------------------------------------------
(* One scheduling step of a consumer; Drop is a decision of its caller. *)

AsyncStep(c) ==
    \/ Take(c)
    \/ SeeEmpty(c)
    \/ PollPermit(c)
    \/ PollWait(c)
    \/ Resume(c)

Drop(c) == DropWaiting(c) \/ DropNotified(c)

BlockingStep(c) == Take(c) \/ Sleep(c)

Next ==
    \/ Push
    \/ \E c \in Consumers : Call(c)
    \/ \E c \in AsyncConsumers : AsyncStep(c) \/ Drop(c)
    \/ \E c \in BlockingConsumers : BlockingStep(c)

Spec == Init /\ [][Next]_ringVars

-----------------------------------------------------------------------------
(* Properties *)

\* Notify is consistent: its list holds exactly the waiting consumers, once each,
\* and a permit is only stored while the list is empty.
WaitListOK ==
    /\ waiters \in Seq(AsyncConsumers)
    /\ IsInjective(waiters)
    /\ Range(waiters) = {c \in AsyncConsumers : pc[c] = "waiting"}
    /\ permit \in BOOLEAN
    /\ permit => waiters = <<>>

\* Every variable has its type, the wait lists included.
TypeOK ==
    /\ capacity \in Capacities
    /\ queue \in Seq(Nat)
    /\ overflow \in Nat
    /\ WaitListOK
    /\ asleep = {c \in BlockingConsumers : pc[c] = "asleep"}
    /\ pc \in [Consumers -> AsyncPositions \union BlockingPositions]
    /\ \A c \in AsyncConsumers : pc[c] \in AsyncPositions
    /\ \A c \in BlockingConsumers : pc[c] \in BlockingPositions
    /\ pushed \in Nat
    /\ received \in Seq(Nat)
    /\ lost \in SUBSET Nat

\* The documented bound: the ring never holds more than its capacity (struct
\* documentation of DropOldestRing).  A ring of capacity 0 grows without bound.
BoundedCapacity == capacity # 0 => Len(queue) <= capacity

\* The queue is always the newest items in push order, and whatever is gone is
\* older: pop takes and push drops the oldest item, whichever of them comes
\* first, and no item is popped twice or both popped and dropped.
OldestFirst ==
    LET gone == pushed - Len(queue) IN
    /\ gone \in Nat
    /\ \A i \in 1..Len(queue) : queue[i] = gone + i
    /\ Range(received) \union lost = 1..gone
    /\ Range(received) \intersect lost = {}
    /\ \A i, j \in 1..Len(received) : i < j => received[i] < received[j]

\* Documentation of overflow_count: the number of items that have been dropped.  A ring of
\* capacity 0 never drops one, although it counts each push that finds it empty.
OverflowCountsLosses ==
    IF capacity = 0 THEN lost = {} ELSE overflow = Cardinality(lost)

\* An item never sits in the queue with every async consumer suspended or about
\* to be: a permit is stored, or some consumer will look at the queue before it
\* can suspend, provided that idle consumers call pop_async again.
LoopersNotStranded ==
    queue # <<>> /\ AsyncConsumers # {} =>
        permit \/ \E c \in AsyncConsumers : pc[c] \in {"idle", "check", "notified"}

\* There are never more items than woken threads while a thread sleeps in
\* pop_blocking: the Condvar wakes one thread for each item.
BlockingNotStranded ==
    asleep # {} =>
        Len(queue) <= Cardinality({c \in BlockingConsumers : pc[c] = "woken"})

\* The ring implements the mechanism-free lossy channel.  One of capacity 0 has room for
\* whatever is pushed.
Fifo == INSTANCE LossyFifo WITH
            room <- IF capacity = 0 THEN MaxPushes ELSE capacity,
            Receivers <- Consumers,
            sent <- pushed,
            demand <- {c \in Consumers : pc[c] # "idle"}

\* Every push, pop and drop of the ring is a step of the lossy channel, every
\* step of the wake-up machinery is invisible to it.
ImplementsFifo == Fifo!Spec
=============================================================================
