-------------------------- MODULE PriorityQueueProofs --------------------------
(***************************************************************************)
(* Proofs about PriorityQueue, for every pool of workers, every capacity   *)
(* and every number of pushes.                                             *)
(***************************************************************************)
EXTENDS PriorityQueue, FiniteSetTheorems, TLAPS

-----------------------------------------------------------------------------
(* Types *)

\* A notification moves at most one worker, from its sleep to its way to the mutex.
LEMMA NotifyOneWakes ==
  ASSUME TypeOK, NotifyOne
  PROVE  /\ pc' \in [Workers -> Positions]
         /\ \A w \in Workers : pc'[w] = pc[w] \/ (pc[w] = "asleep" /\ pc'[w] = "woken")
  BY DEF TypeOK, NotifyOne, At, Positions

\* The incoming task is a task with a new number, stamped no earlier than any before.
LEMMA IncomingIsNew ==
  ASSUME TypeOK, NEW p \in Priorities, NEW tick \in {0, 1}
  PROVE  /\ Incoming(p, tick) \in Tasks
         /\ Incoming(p, tick).id = pushed + 1
         /\ Incoming(p, tick).priority = p
         /\ Incoming(p, tick).enqueued_at = clock + tick
         /\ Incoming(p, tick) \notin heap
  BY DEF TypeOK, Incoming, Tasks

\* What a push leaves in the heap: all of it, or all but the task it evicts.
LEMMA PushedHeap ==
  ASSUME TypeOK, NEW p \in Priorities, NEW tick \in {0, 1},
         PushFree(p, tick) \/ PushEvict(p, tick)
  PROVE  /\ heap' \subseteq heap \union {Incoming(p, tick)}
         /\ IsFiniteSet(heap')
         /\ overflow' \in Nat
         /\ \/ ~Full /\ overflow' = overflow /\ Cardinality(heap') = Cardinality(heap) + 1
            \/ Full /\ overflow' = overflow + 1 /\ Cardinality(heap') = Cardinality(heap)
                    /\ heap # {}
<1> DEFINE t == Incoming(p, tick)
<1>1. IsFiniteSet(heap) /\ Cardinality(heap) \in Nat /\ overflow \in Nat
  BY FS_CardinalityType DEF TypeOK
<1>2. t \notin heap
  BY IncomingIsNew
<1> HIDE DEF t
<1>3. CASE PushFree(p, tick)
  <2>1. heap' = heap \union {t} /\ overflow' = overflow /\ ~Full
    BY <1>3 DEF PushFree, t
  <2> QED BY <1>1, <1>2, <2>1, FS_AddElement DEF t
<1>4. CASE PushEvict(p, tick)
  <2>1. PICK out \in Worst : heap' = (heap \ {out}) \union {t}
    BY <1>4 DEF PushEvict, Remaining, t
  <2>2. out \in heap /\ overflow' = overflow + 1 /\ Full
    BY <1>4 DEF PushEvict, Worst
  <2>3. IsFiniteSet(heap \ {out}) /\ Cardinality(heap \ {out}) = Cardinality(heap) - 1
    BY <1>1, <2>2, FS_RemoveElement
  <2>4. t \notin heap \ {out}
    BY <1>2
  <2>5. IsFiniteSet(heap') /\ Cardinality(heap') = Cardinality(heap) - 1 + 1
    BY <2>1, <2>3, <2>4, FS_AddElement
  <2> QED BY <1>1, <2>1, <2>2, <2>5 DEF t
<1> QED BY <1>3, <1>4

\* Initially every variable has its type.
LEMMA InitTypeOK == Init => TypeOK
<1> SUFFICES ASSUME Init PROVE TypeOK
  OBVIOUS
<1>1. capacity \in Capacities /\ heap \in SUBSET Tasks /\ IsFiniteSet(heap)
  BY FS_EmptySet DEF Init
<1>2. eviction \in [out : Tasks, kept : SUBSET Tasks]
  BY DEF Init, Tasks, NoTask, Priorities, Human
<1>3. served \in Seq([task : Tasks, seen : Nat])
  BY DEF Init
<1>4. \A v, w \in At("locked") : v = w
  BY DEF Init, At
<1> QED
  BY <1>1, <1>2, <1>3, <1>4 DEF Init, TypeOK, Positions, NoClass

\* Every step keeps the types.
LEMMA StepTypeOK == TypeOK /\ [Next]_queueVars => TypeOK'
<1> SUFFICES ASSUME TypeOK, [Next]_queueVars PROVE TypeOK'
  OBVIOUS
<1>1. ASSUME NEW p \in Priorities, NEW tick \in {0, 1}, Push(p, tick)
      PROVE  TypeOK'
  <2>1. /\ heap' \subseteq heap \union {Incoming(p, tick)}
        /\ IsFiniteSet(heap')
        /\ overflow' \in Nat
    BY <1>1, PushedHeap DEF Push
  <2>2. /\ Incoming(p, tick) \in Tasks
        /\ Incoming(p, tick).id = pushed + 1
        /\ Incoming(p, tick).enqueued_at = clock + tick
    BY IncomingIsNew
  <2>3. /\ pc' \in [Workers -> Positions]
        /\ \A w \in Workers : pc'[w] = pc[w] \/ (pc[w] = "asleep" /\ pc'[w] = "woken")
    BY <1>1, NotifyOneWakes DEF Push
  <2>4. /\ pushed' = pushed + 1 /\ clock' = clock + tick
        /\ UNCHANGED <<capacity, panicked, cancel, woken_all, hand, served>>
    BY <1>1 DEF Push, flags
  <2>5. heap' \in SUBSET Tasks
    BY <2>1, <2>2 DEF TypeOK
  <2>6. \A t \in heap' : t.id \in 1..pushed' /\ t.enqueued_at <= clock'
    BY <2>1, <2>2, <2>4 DEF TypeOK, Tasks
  <2>7. eviction' \in [out : Tasks, kept : SUBSET Tasks]
    BY <1>1 DEF Push, PushFree, PushEvict, Worst, Remaining, TypeOK
  <2>8. \A w \in Workers : hand'[w] # NoClass <=> pc'[w] = "busy"
    BY <2>3, <2>4 DEF TypeOK
  <2>9. \A v, w \in At("locked")' : v = w
    BY <2>3 DEF TypeOK, At
  <2> QED
    BY <2>1, <2>3, <2>4, <2>5, <2>6, <2>7, <2>8, <2>9 DEF TypeOK
<1>2. CASE PushPanics
  BY <1>2 DEF PushPanics, TypeOK, workers, flags, log, At
<1>3. ASSUME NEW w \in Workers, EnterCancelled(w) PROVE TypeOK'
  BY <1>3 DEF EnterCancelled, TypeOK, store, flags, log, At, Positions
<1>4. ASSUME NEW w \in Workers, Enter(w) PROVE TypeOK'
  BY <1>4 DEF Enter, Unlocked, TypeOK, store, flags, log, At, Positions
<1>5. ASSUME NEW w \in Workers, Pop(w) PROVE TypeOK'
  <2>1. PICK t \in Best :
          /\ heap' = heap \ {t}
          /\ served' = Append(served, [task |-> t, seen |-> pushed])
          /\ hand' = [hand EXCEPT ![w] = t.priority]
    BY <1>5 DEF Pop
  <2>2. t \in heap /\ t \in Tasks /\ t.priority \in Priorities
    BY DEF Best, TypeOK, Tasks
  <2>3. IsFiniteSet(heap')
    BY <2>1, FS_RemoveElement DEF TypeOK
  <2>4. served' \in Seq([task : Tasks, seen : Nat])
    BY <2>1, <2>2 DEF TypeOK
  <2>5. /\ pc[w] = "locked" /\ pc' = [pc EXCEPT ![w] = "busy"]
        /\ UNCHANGED <<capacity, overflow, panicked, cancel, woken_all, clock, pushed, eviction>>
    BY <1>5 DEF Pop, flags
  <2>6. \A v \in Workers : hand'[v] # NoClass <=> pc'[v] = "busy"
    BY <2>1, <2>2, <2>5 DEF TypeOK, Priorities, Human, Bot, NoClass
  <2>7. \A v, x \in At("locked")' : v = x
    BY <2>5 DEF TypeOK, At
  <2> QED
    BY <2>1, <2>2, <2>3, <2>4, <2>5, <2>6, <2>7 DEF TypeOK, Positions
<1>6. ASSUME NEW w \in Workers, Wait(w) PROVE TypeOK'
  BY <1>6 DEF Wait, TypeOK, store, flags, log, At, Positions
<1>7. ASSUME NEW w \in Workers, Timeout(w) PROVE TypeOK'
  BY <1>7 DEF Timeout, TypeOK, store, flags, log, At, Positions
<1>8. ASSUME NEW w \in Workers, Finish(w) PROVE TypeOK'
  BY <1>8 DEF Finish, TypeOK, store, flags, log, At, Positions
<1>9. CASE Cancel
  BY <1>9 DEF Cancel, TypeOK, store, workers, log, At
<1>10. CASE WakeAll
  BY <1>10 DEF WakeAll, TypeOK, store, log, At, Positions
<1>11. CASE UNCHANGED queueVars
  BY <1>11 DEF queueVars, TypeOK, store, flags, workers, log, At
<1> QED
  BY <1>1, <1>2, <1>3, <1>4, <1>5, <1>6, <1>7, <1>8, <1>9, <1>10, <1>11
     DEF Next, WorkerStep

\* Whatever the threads do, every variable keeps its type.
THEOREM QueueTypeCorrect == Spec => []TypeOK
  BY InitTypeOK, StepTypeOK, PTL DEF Spec

-----------------------------------------------------------------------------
(* What the steps do to the tasks *)

\* Only a push and a pop move tasks.
LEMMA StepKinds ==
  ASSUME [Next]_queueVars
  PROVE  \/ \E p \in Priorities, tick \in {0, 1} : Push(p, tick)
         \/ \E w \in Workers : Pop(w)
         \/ /\ PushPanics \/ UNCHANGED panicked
            /\ UNCHANGED <<capacity, heap, overflow, log>>
  BY DEF Next, WorkerStep, PushPanics, EnterCancelled, Enter, Wait, Timeout, Finish, Cancel,
         WakeAll, queueVars, store, flags, workers

\* A pop takes one of the best tasks out of the heap and appends it to the history.
LEMMA PoppedTask ==
  ASSUME TypeOK, NEW w \in Workers, Pop(w)
  PROVE  \E t \in heap :
            /\ t \in Best
            /\ heap' = heap \ {t}
            /\ Cardinality(heap') = Cardinality(heap) - 1
            /\ Len(served') = Len(served) + 1
            /\ \A i \in 1..Len(served) : served'[i] = served[i]
            /\ served'[Len(served) + 1] = [task |-> t, seen |-> pushed]
            /\ UNCHANGED <<capacity, overflow, panicked, clock, pushed, eviction>>
<1>1. PICK t \in Best :
        heap' = heap \ {t} /\ served' = Append(served, [task |-> t, seen |-> pushed])
  BY DEF Pop
<1>2. t \in heap /\ [task |-> t, seen |-> pushed] \in [task : Tasks, seen : Nat]
  BY DEF Best, TypeOK
<1>3. Cardinality(heap') = Cardinality(heap) - 1
  BY <1>1, <1>2, FS_RemoveElement DEF TypeOK
<1>4. UNCHANGED <<capacity, overflow, panicked, clock, pushed, eviction>>
  BY DEF Pop
<1> QED
  BY <1>1, <1>2, <1>3, <1>4 DEF TypeOK

\* The records of the history have their types.
LEMMA ServedTypes ==
  ASSUME TypeOK
  PROVE  /\ Len(served) \in Nat
         /\ \A i \in 1..Len(served) : served[i].task \in Tasks /\ served[i].seen \in Nat
<1> DEFINE Pops == [task : Tasks, seen : Nat]
<1>1. served \in Seq(Pops)
  BY DEF TypeOK
<1> HIDE DEF Pops
<1>2. Len(served) \in Nat /\ \A i \in 1..Len(served) : served[i] \in Pops
  BY <1>1
<1>3. \A r \in Pops : r.task \in Tasks /\ r.seen \in Nat
  BY DEF Pops
<1> QED BY <1>2, <1>3

-----------------------------------------------------------------------------
(* Accounting *)

\* Accounting is not inductive: the numbers of the tasks must identify them, and a queue
\* of capacity 0 must never have taken a task.
Numbered ==
    /\ \A i \in 1..Len(served) : served[i].task.id \in 1..pushed
    /\ \A s, t \in heap : s.id = t.id => s = t
    /\ capacity = 0 => pushed = 0

\* A push gives the next number, and takes a task out for each one too many.
LEMMA PushAccounts ==
  ASSUME Accounting, Numbered, NEW p \in Priorities, NEW tick \in {0, 1}, Push(p, tick)
  PROVE  Accounting' /\ Numbered'
<1> DEFINE new == Incoming(p, tick)
<1>1. TypeOK /\ TypeOK'
  BY StepTypeOK DEF Accounting, Next
<1>2. PushFree(p, tick) \/ PushEvict(p, tick)
  BY DEF Push
<1>3. /\ heap' \subseteq heap \union {new}
      /\ \/ ~Full /\ overflow' = overflow /\ Cardinality(heap') = Cardinality(heap) + 1
         \/ Full /\ overflow' = overflow + 1 /\ Cardinality(heap') = Cardinality(heap)
                 /\ heap # {}
  BY <1>1, <1>2, PushedHeap
<1>4. new \in Tasks /\ new.id = pushed + 1
  BY <1>1, IncomingIsNew
<1>5. pushed' = pushed + 1 /\ UNCHANGED <<capacity, panicked, served>> /\ ~panicked
  BY DEF Push, CanPush
<1>6. /\ Cardinality(heap) \in Nat /\ (Cardinality(heap) = 0 <=> heap = {})
      /\ capacity \in Nat /\ pushed \in Nat /\ overflow \in Nat /\ Len(served) \in Nat
  BY <1>1, FS_CardinalityType, FS_EmptySet, ServedTypes, QueueAssumption DEF TypeOK
<1> HIDE DEF new
<1>7. capacity # 0
  BY <1>3, <1>6 DEF Full, Accounting
<1>8. Cardinality(heap') <= capacity
  BY <1>3, <1>6 DEF Full, Accounting
<1>9. \A t \in heap : t.id \in 1..pushed
  BY <1>1 DEF TypeOK
<1>10. \A s, t \in heap' : s.id = t.id => s = t
  BY <1>3, <1>4, <1>6, <1>9 DEF Numbered
<1>11. \A i \in 1..Len(served), t \in heap' : served[i].task.id # t.id
  BY <1>3, <1>4, <1>6, <1>9 DEF Accounting, Numbered
<1>12. pushed' = Len(served) + overflow' + Cardinality(heap')
  BY <1>3, <1>5, <1>6 DEF Accounting
<1>13. \A i \in 1..Len(served) : served[i].task.id \in 1..pushed'
  BY <1>5, <1>6 DEF Numbered
<1>14. Numbered'
  BY <1>5, <1>7, <1>10, <1>13 DEF Numbered
<1>15. \A i, j \in 1..Len(served) : i # j => served[i].task.id # served[j].task.id
  BY DEF Accounting
<1> QED
  BY <1>1, <1>5, <1>8, <1>11, <1>12, <1>14, <1>15 DEF Accounting

\* A pop moves one task from the heap to the history.
LEMMA PopAccounts ==
  ASSUME Accounting, Numbered, NEW w \in Workers, Pop(w)
  PROVE  Accounting' /\ Numbered'
<1>1. TypeOK /\ TypeOK'
  BY StepTypeOK DEF Accounting, Next, WorkerStep
<1>2. PICK t \in heap :
        /\ heap' = heap \ {t}
        /\ Cardinality(heap') = Cardinality(heap) - 1
        /\ Len(served') = Len(served) + 1
        /\ \A i \in 1..Len(served) : served'[i] = served[i]
        /\ served'[Len(served) + 1] = [task |-> t, seen |-> pushed]
        /\ UNCHANGED <<capacity, overflow, panicked, pushed>>
  BY <1>1, PoppedTask
<1>3. /\ Cardinality(heap) \in Nat /\ capacity \in Nat /\ overflow \in Nat
      /\ Len(served) \in Nat /\ pushed \in Nat /\ t.id \in 1..pushed
  BY <1>1, FS_CardinalityType, ServedTypes, QueueAssumption DEF TypeOK
<1>4. Cardinality(heap') <= capacity'
  BY <1>2, <1>3 DEF Accounting
<1>5. pushed' = Len(served') + overflow' + Cardinality(heap')
  BY <1>2, <1>3 DEF Accounting
<1>6. \A i \in 1..Len(served') : i \in 1..Len(served) \/ i = Len(served) + 1
  BY <1>2, <1>3
<1>7. \A i, j \in 1..Len(served') : i # j => served'[i].task.id # served'[j].task.id
  BY <1>2, <1>6 DEF Accounting
<1>8. \A i \in 1..Len(served'), s \in heap' : served'[i].task.id # s.id
  BY <1>2, <1>6 DEF Accounting, Numbered
<1>9. \A i \in 1..Len(served') : served'[i].task.id \in 1..pushed'
  BY <1>2, <1>3, <1>6 DEF Numbered
<1>10. panicked' => capacity' = 0 /\ pushed' = 0
  BY <1>2 DEF Accounting
<1>11. (\A r, s \in heap' : r.id = s.id => r = s) /\ (capacity' = 0 => pushed' = 0)
  BY <1>2 DEF Numbered
<1> QED
  BY <1>1, <1>4, <1>5, <1>7, <1>8, <1>9, <1>10, <1>11 DEF Accounting, Numbered

\* Every step keeps the account.
LEMMA StepAccounts == Accounting /\ Numbered /\ [Next]_queueVars => Accounting' /\ Numbered'
<1> SUFFICES ASSUME Accounting, Numbered, [Next]_queueVars PROVE Accounting' /\ Numbered'
  OBVIOUS
<1>1. TypeOK /\ TypeOK'
  BY StepTypeOK DEF Accounting
<1>2. CASE \E p \in Priorities, tick \in {0, 1} : Push(p, tick)
  BY <1>2, PushAccounts
<1>3. CASE \E w \in Workers : Pop(w)
  BY <1>3, PopAccounts
<1>4. CASE /\ PushPanics \/ UNCHANGED panicked
           /\ UNCHANGED <<capacity, heap, overflow, log>>
  <2>1. UNCHANGED <<capacity, heap, overflow, pushed, served>>
    BY <1>4 DEF log
  <2>2. panicked' => capacity' = 0 /\ pushed' = 0
    <3>1. CASE PushPanics
      <4>1. Cardinality(heap) = 0 /\ Full
        BY <3>1, FS_EmptySet DEF PushPanics
      <4>2. capacity \in Nat
        BY <1>1, QueueAssumption DEF TypeOK
      <4> QED BY <2>1, <4>1, <4>2 DEF Full, Numbered
    <3>2. CASE UNCHANGED panicked
      BY <2>1, <3>2 DEF Accounting
    <3> QED BY <1>4, <3>1, <3>2
  <2> QED BY <1>1, <2>1, <2>2 DEF Accounting, Numbered
<1> QED
  BY <1>2, <1>3, <1>4, StepKinds

\* No task is lost silently or popped twice, and the bound holds, whatever the number of
\* workers and the capacity; only the capacity 0 makes a push panic.
THEOREM QueueAccounts == Spec => []Accounting
<1>1. Init => Accounting /\ Numbered
  <2> SUFFICES ASSUME Init PROVE Accounting /\ Numbered
    OBVIOUS
  <2>1. TypeOK /\ capacity \in Nat
    BY InitTypeOK, QueueAssumption DEF Init
  <2>2. Cardinality(heap) = 0 /\ Len(served) = 0
    BY FS_EmptySet DEF Init
  <2> QED BY <2>1, <2>2 DEF Init, Accounting, Numbered
<1> QED
  BY <1>1, StepAccounts, PTL DEF Spec

-----------------------------------------------------------------------------
(* Order *)

\* What was served was stamped, and saw pushes, no later than now.
Past ==
    \A i \in 1..Len(served) : served[i].task.enqueued_at <= clock /\ served[i].seen <= pushed

Ordered == TypeOK /\ Past /\ FifoWithinClass /\ HumansFirst

\* The task of a push comes behind all tasks of its class: it is stamped no earlier than
\* what was served, and no Bot that was served can have seen it.
LEMMA PushKeepsOrder ==
  ASSUME Ordered, NEW p \in Priorities, NEW tick \in {0, 1}, Push(p, tick)
  PROVE  Past' /\ FifoWithinClass' /\ HumansFirst'
<1> DEFINE new == Incoming(p, tick)
<1>1. TypeOK
  BY DEF Ordered
<1>2. heap' \subseteq heap \union {new}
  BY <1>1, PushedHeap DEF Push
<1>3. new.id = pushed + 1 /\ new.enqueued_at = clock + tick
  BY <1>1, IncomingIsNew
<1>4. pushed' = pushed + 1 /\ clock' = clock + tick /\ served' = served
  BY DEF Push
<1>5. /\ pushed \in Nat /\ clock \in Nat /\ Len(served) \in Nat
      /\ \A i \in 1..Len(served) : served[i].task \in Tasks /\ served[i].seen \in Nat
  BY <1>1, ServedTypes DEF TypeOK
<1> HIDE DEF new
<1>6. \A i \in 1..Len(served) : served[i].task.enqueued_at \in Nat
  BY <1>5 DEF Tasks
<1>7. Past'
  BY <1>4, <1>5, <1>6 DEF Ordered, Past
<1>8. \A i \in 1..Len(served), t \in heap' :
         served[i].task.priority = t.priority => served[i].task.enqueued_at <= t.enqueued_at
  BY <1>2, <1>3, <1>5, <1>6 DEF Ordered, Past, FifoWithinClass
<1>9. FifoWithinClass'
  BY <1>4, <1>8 DEF Ordered, FifoWithinClass
<1>10. ASSUME NEW i \in 1..Len(served), served[i].task.priority = Bot,
              NEW t \in heap', t.priority = Human
       PROVE  t.id > served[i].seen
  BY <1>2, <1>3, <1>5, <1>10 DEF Ordered, Past, HumansFirst
<1>11. HumansFirst'
  BY <1>4, <1>10 DEF Ordered, HumansFirst
<1> QED BY <1>7, <1>9, <1>11

\* The popped task is the oldest of its class, and a Bot only when no Human is queued.
LEMMA PopKeepsOrder ==
  ASSUME Ordered, NEW w \in Workers, Pop(w)
  PROVE  Past' /\ FifoWithinClass' /\ HumansFirst'
<1> DEFINE n == Len(served)
<1>1. TypeOK
  BY DEF Ordered
<1>2. PICK t \in heap :
        /\ t \in Best
        /\ heap' = heap \ {t}
        /\ Len(served') = n + 1
        /\ \A i \in 1..n : served'[i] = served[i]
        /\ served'[n + 1] = [task |-> t, seen |-> pushed]
        /\ UNCHANGED <<clock, pushed>>
  BY <1>1, PoppedTask
<1>3. n \in Nat /\ pushed \in Nat /\ t.enqueued_at <= clock
  BY <1>1, ServedTypes DEF TypeOK
<1>4. \A s \in heap : /\ s \in Tasks /\ s.enqueued_at \in Nat /\ s.priority \in {0, 1}
                      /\ s.id \in 1..pushed
  BY <1>1 DEF TypeOK, Tasks, Priorities, Human, Bot
<1>5. /\ \A s \in heap : s.priority = t.priority => t.enqueued_at <= s.enqueued_at
      /\ t.priority = Bot => \A s \in heap : s.priority # Human
  BY <1>2, <1>4 DEF Best, Better, Human, Bot
<1>6. \A i \in 1..n : served[i].task.priority = t.priority
                        => served[i].task.enqueued_at <= t.enqueued_at
  BY DEF Ordered, FifoWithinClass
<1>7. /\ served'[n + 1].task = t /\ served'[n + 1].seen = pushed
      /\ \A i \in 1..n : /\ served'[i].task = served[i].task
                         /\ served'[i].seen = served[i].seen
  BY <1>2
<1> HIDE DEF n
<1>8. \A i \in 1..Len(served') : i \in 1..n \/ i = n + 1
  BY <1>2, <1>3
<1>9. Past'
  BY <1>2, <1>3, <1>7, <1>8 DEF Ordered, Past, n
<1>10. FifoWithinClass'
  <2>1. ASSUME NEW i \in 1..Len(served'), NEW j \in 1..Len(served'), i < j,
               served'[i].task.priority = served'[j].task.priority
        PROVE  served'[i].task.enqueued_at <= served'[j].task.enqueued_at
    <3>1. i \in 1..n
      BY <1>2, <1>3, <2>1
    <3>2. CASE j \in 1..n
      BY <1>7, <2>1, <3>1, <3>2 DEF Ordered, FifoWithinClass, n
    <3>3. CASE j = n + 1
      BY <1>6, <1>7, <2>1, <3>1, <3>3
    <3> QED BY <1>8, <3>2, <3>3
  <2>2. ASSUME NEW i \in 1..Len(served'), NEW s \in heap',
               served'[i].task.priority = s.priority
        PROVE  served'[i].task.enqueued_at <= s.enqueued_at
    <3>1. CASE i \in 1..n
      BY <1>2, <1>7, <2>2, <3>1 DEF Ordered, FifoWithinClass, n
    <3>2. CASE i = n + 1
      BY <1>2, <1>5, <1>7, <2>2, <3>2
    <3> QED BY <1>8, <3>1, <3>2
  <2> QED BY <2>1, <2>2 DEF FifoWithinClass
<1>11. HumansFirst'
  <2>1. ASSUME NEW i \in 1..Len(served'), served'[i].task.priority = Bot,
               NEW s \in heap', s.priority = Human
        PROVE  s.id > served'[i].seen
    <3>1. i # n + 1
      BY <1>2, <1>5, <1>7, <2>1
    <3>2. i \in 1..n
      BY <1>8, <3>1
    <3> QED BY <1>2, <1>7, <2>1, <3>2 DEF Ordered, HumansFirst, n
  <2>2. ASSUME NEW i \in 1..Len(served'), served'[i].task.priority = Bot,
               NEW j \in (i + 1)..Len(served'), served'[j].task.priority = Human
        PROVE  served'[j].task.id > served'[i].seen
    <3>1. i \in 1..n /\ j \in 1..Len(served')
      BY <1>2, <1>3, <2>2
    <3>2. CASE j \in 1..n
      <4>1. j \in (i + 1)..n
        BY <1>3, <2>2, <3>1, <3>2
      <4> QED BY <1>7, <2>2, <3>1, <4>1 DEF Ordered, HumansFirst, n
    <3>3. CASE j = n + 1
      BY <1>7, <2>2, <3>1, <3>3 DEF Ordered, HumansFirst, n
    <3> QED BY <1>8, <3>1, <3>2, <3>3
  <2> QED BY <2>1, <2>2 DEF HumansFirst
<1> QED BY <1>9, <1>10, <1>11

\* Every step keeps the order.
LEMMA StepKeepsOrder == Ordered /\ [Next]_queueVars => Ordered'
<1> SUFFICES ASSUME Ordered, [Next]_queueVars PROVE Past' /\ FifoWithinClass' /\ HumansFirst'
  BY StepTypeOK DEF Ordered
<1>1. CASE \E p \in Priorities, tick \in {0, 1} : Push(p, tick)
  BY <1>1, PushKeepsOrder
<1>2. CASE \E w \in Workers : Pop(w)
  BY <1>2, PopKeepsOrder
<1>3. CASE UNCHANGED <<heap, log>>
  BY <1>3 DEF log, Ordered, Past, FifoWithinClass, HumansFirst
<1> QED
  BY <1>1, <1>2, <1>3, StepKinds

\* Initially nothing has been served.
LEMMA InitOrdered == Init => Ordered
<1> SUFFICES ASSUME Init PROVE Ordered
  OBVIOUS
<1>1. TypeOK /\ Len(served) = 0
  BY InitTypeOK DEF Init
<1> QED BY <1>1 DEF Ordered, Past, FifoWithinClass, HumansFirst

\* Across all workers, older tasks of a class are served before newer ones.
THEOREM QueueIsFifoWithinClass == Spec => []FifoWithinClass
<1>1. Ordered => FifoWithinClass
  BY DEF Ordered
<1> QED BY <1>1, InitOrdered, StepKeepsOrder, PTL DEF Spec

\* No Bot is popped while a Human is queued, whatever the number of workers.
THEOREM QueueServesHumansFirst == Spec => []HumansFirst
<1>1. Ordered => HumansFirst
  BY DEF Ordered
<1> QED BY <1>1, InitOrdered, StepKeepsOrder, PTL DEF Spec

-----------------------------------------------------------------------------
(* Eviction *)

\* The evicted task is one of the worst, so nothing that stays is worse.
LEMMA PushEvicts ==
  ASSUME TypeOK, NEW p \in Priorities, NEW tick \in {0, 1}, PushEvict(p, tick)
  PROVE  EvictsBotsThenOldest'
<1>1. PICK out \in Worst : eviction' = [out |-> out, kept |-> Remaining(out)]
  BY DEF PushEvict
<1>2. \A t \in heap : t.priority \in Nat /\ t.enqueued_at \in Nat
  BY DEF TypeOK, Tasks, Priorities, Human, Bot
<1>3. ASSUME NEW t \in Remaining(out)
      PROVE  /\ t.priority <= out.priority
             /\ t.priority = out.priority => out.enqueued_at <= t.enqueued_at
  <2>1. t \in heap /\ out \in heap /\ ~Worse(t, out)
    BY <1>1 DEF Remaining, Worst
  <2> QED BY <1>2, <2>1 DEF Worse
<1>4. eviction'.out = out /\ eviction'.kept = Remaining(out)
  BY <1>1
<1> QED BY <1>3, <1>4 DEF EvictsBotsThenOldest

\* No other step evicts.
LEMMA StepEvicts ==
  TypeOK /\ EvictsBotsThenOldest /\ [Next]_queueVars => EvictsBotsThenOldest'
<1> SUFFICES ASSUME TypeOK, EvictsBotsThenOldest, [Next]_queueVars
             PROVE  EvictsBotsThenOldest'
  OBVIOUS
<1>1. CASE UNCHANGED eviction
  BY <1>1 DEF EvictsBotsThenOldest
<1>2. CASE \E p \in Priorities, tick \in {0, 1} : Push(p, tick)
  BY <1>1, <1>2, PushEvicts DEF Push, PushFree
<1>3. CASE \E w \in Workers : Pop(w)
  BY <1>1, <1>3 DEF Pop
<1> QED
  BY <1>1, <1>2, <1>3, StepKinds DEF log

\* A Human is evicted only when no Bot is queued, and of its class the oldest goes.
THEOREM QueueEvictsTheWorst == Spec => []EvictsBotsThenOldest
<1>1. Init => TypeOK /\ EvictsBotsThenOldest
  BY InitTypeOK DEF Init, EvictsBotsThenOldest
<1>2. TypeOK /\ EvictsBotsThenOldest /\ [Next]_queueVars => TypeOK' /\ EvictsBotsThenOldest'
  BY StepTypeOK, StepEvicts
<1> QED
  BY <1>1, <1>2, PTL DEF Spec

-----------------------------------------------------------------------------
(* Work conservation *)

\* The workers on their way to the heap.
OnTheWay == At("woken") \union At("locked")

\* There are finitely many of them, and one that joins or leaves counts once.
LEMMA OnTheWayCounts ==
  /\ IsFiniteSet(OnTheWay) /\ Cardinality(OnTheWay) \in Nat
  /\ \A w \in Workers : /\ w \notin OnTheWay =>
                             Cardinality(OnTheWay \union {w}) = Cardinality(OnTheWay) + 1
                        /\ w \in OnTheWay =>
                             Cardinality(OnTheWay \ {w}) = Cardinality(OnTheWay) - 1
<1>1. OnTheWay \in SUBSET Workers
  BY DEF OnTheWay, At
<1>2. IsFiniteSet(OnTheWay)
  BY <1>1, FS_Subset, QueueAssumption
<1> QED BY <1>2, FS_CardinalityType, FS_AddElement, FS_RemoveElement

\* A push into a heap with room wakes a sleeper, if there is one; an eviction leaves as
\* many tasks as before.
LEMMA PushConserves ==
  ASSUME TypeOK, WorkConserving, NEW p \in Priorities, NEW tick \in {0, 1}, Push(p, tick)
  PROVE  WorkConserving'
<1> SUFFICES ASSUME At("asleep")' # {}, ~cancel'
             PROVE  Cardinality(heap') <= Cardinality(OnTheWay')
  BY DEF WorkConserving, OnTheWay
<1>1. /\ IsFiniteSet(heap) /\ Cardinality(heap) \in Nat
      /\ Cardinality(heap') \in {Cardinality(heap), Cardinality(heap) + 1}
  BY PushedHeap, FS_CardinalityType DEF Push, TypeOK
<1>2. At("asleep") # {}
  BY NotifyOneWakes DEF Push, At
<1>3. PICK w \in At("asleep") : pc' = [pc EXCEPT ![w] = "woken"]
  BY <1>2 DEF Push, NotifyOne
<1>4. w \in Workers /\ w \notin OnTheWay /\ OnTheWay' = OnTheWay \union {w}
  BY <1>3 DEF At, OnTheWay, TypeOK
<1>5. Cardinality(OnTheWay') = Cardinality(OnTheWay) + 1
  BY <1>4, OnTheWayCounts
<1>6. Cardinality(heap) <= Cardinality(OnTheWay)
  BY <1>2 DEF WorkConserving, OnTheWay, Push, flags
<1> QED BY <1>1, <1>5, <1>6, OnTheWayCounts

\* A pop takes one task and one worker off the way.
LEMMA PopConserves ==
  ASSUME TypeOK, WorkConserving, NEW w \in Workers, Pop(w)
  PROVE  WorkConserving'
<1> SUFFICES ASSUME At("asleep")' # {}, ~cancel'
             PROVE  Cardinality(heap') <= Cardinality(OnTheWay')
  BY DEF WorkConserving, OnTheWay
<1>1. Cardinality(heap') = Cardinality(heap) - 1 /\ Cardinality(heap) \in Nat
  BY PoppedTask, FS_CardinalityType DEF TypeOK
<1>2. pc[w] = "locked" /\ pc' = [pc EXCEPT ![w] = "busy"] /\ cancel' = cancel
  BY DEF Pop, flags
<1>3. w \in OnTheWay /\ OnTheWay' = OnTheWay \ {w} /\ At("asleep")' = At("asleep")
  BY <1>2 DEF At, OnTheWay, TypeOK
<1>4. Cardinality(OnTheWay') = Cardinality(OnTheWay) - 1
  BY <1>3, OnTheWayCounts
<1>5. Cardinality(heap) <= Cardinality(OnTheWay)
  BY <1>2, <1>3 DEF WorkConserving, OnTheWay
<1> QED BY <1>1, <1>4, <1>5, OnTheWayCounts

\* A worker falls asleep only over an empty heap; one whose wait ends is on the way.
LEMMA WaitConserves ==
  ASSUME TypeOK, WorkConserving, NEW w \in Workers, Wait(w) \/ Timeout(w)
  PROVE  WorkConserving'
<1> SUFFICES ASSUME At("asleep")' # {}, ~cancel'
             PROVE  Cardinality(heap') <= Cardinality(OnTheWay')
  BY DEF WorkConserving, OnTheWay
<1>1. IsFiniteSet(OnTheWay)' /\ Cardinality(OnTheWay') \in Nat
  <2>1. OnTheWay' \in SUBSET Workers
    BY DEF OnTheWay, At
  <2> QED BY <2>1, FS_Subset, FS_CardinalityType, QueueAssumption
<1>2. CASE Wait(w)
  <2>1. heap' = {}
    BY <1>2 DEF Wait, store
  <2> QED BY <1>1, <2>1, FS_EmptySet
<1>3. CASE Timeout(w)
  <2>1. /\ pc[w] = "asleep" /\ pc' = [pc EXCEPT ![w] = "woken"]
        /\ heap' = heap /\ cancel' = cancel
    BY <1>3 DEF Timeout, store, flags
  <2>2. w \in At("asleep") /\ w \notin OnTheWay /\ OnTheWay' = OnTheWay \union {w}
    BY <2>1 DEF At, OnTheWay, TypeOK
  <2>3. Cardinality(heap) <= Cardinality(OnTheWay)
    BY <2>1, <2>2 DEF WorkConserving, OnTheWay
  <2>4. Cardinality(OnTheWay') = Cardinality(OnTheWay) + 1 /\ Cardinality(heap) \in Nat
    BY <2>2, OnTheWayCounts, FS_CardinalityType DEF TypeOK
  <2> QED BY <2>1, <2>3, <2>4, OnTheWayCounts
<1> QED BY <1>2, <1>3

\* To take the mutex is to stay on the way, or to join it.
LEMMA EnterConserves ==
  ASSUME TypeOK, WorkConserving, NEW w \in Workers, Enter(w)
  PROVE  WorkConserving'
<1> SUFFICES ASSUME At("asleep")' # {}, ~cancel'
             PROVE  Cardinality(heap') <= Cardinality(OnTheWay')
  BY DEF WorkConserving, OnTheWay
<1>1. /\ pc[w] \in {"loop", "woken"} /\ pc' = [pc EXCEPT ![w] = "locked"]
      /\ heap' = heap /\ cancel' = cancel
  BY DEF Enter, store, flags
<1>2. At("asleep")' = At("asleep") /\ OnTheWay' = OnTheWay \union {w}
  BY <1>1 DEF At, OnTheWay, TypeOK
<1>3. Cardinality(heap) <= Cardinality(OnTheWay) /\ Cardinality(heap) \in Nat
  BY <1>1, <1>2, FS_CardinalityType DEF WorkConserving, OnTheWay, TypeOK
<1>4. CASE w \in OnTheWay
  <2>1. OnTheWay' = OnTheWay
    BY <1>2, <1>4
  <2> QED BY <1>1, <1>3, <2>1
<1>5. CASE w \notin OnTheWay
  <2>1. Cardinality(OnTheWay') = Cardinality(OnTheWay) + 1
    BY <1>2, <1>5, OnTheWayCounts
  <2> QED BY <1>1, <1>3, <2>1, OnTheWayCounts
<1> QED BY <1>4, <1>5

\* Every step conserves the work; those of the shutdown are not asked to.
LEMMA StepConserves == TypeOK /\ WorkConserving /\ [Next]_queueVars => WorkConserving'
<1> SUFFICES ASSUME TypeOK, WorkConserving, [Next]_queueVars PROVE WorkConserving'
  OBVIOUS
<1>1. CASE \E p \in Priorities, tick \in {0, 1} : Push(p, tick)
  BY <1>1, PushConserves
<1>2. CASE \E w \in Workers : Pop(w)
  BY <1>2, PopConserves
<1>3. CASE \E w \in Workers : Wait(w) \/ Timeout(w)
  BY <1>3, WaitConserves
<1>4. CASE \E w \in Workers : Enter(w)
  BY <1>4, EnterConserves
<1>5. ASSUME NEW w \in Workers, Finish(w) PROVE WorkConserving'
  <2>1. /\ pc[w] = "busy" /\ pc' = [pc EXCEPT ![w] = "loop"]
        /\ heap' = heap /\ cancel' = cancel
    BY <1>5 DEF Finish, store, flags
  <2>2. /\ At("asleep")' = At("asleep") /\ At("woken")' = At("woken")
        /\ At("locked")' = At("locked")
    BY <2>1 DEF At, TypeOK
  <2> QED BY <2>1, <2>2 DEF WorkConserving
<1>6. CASE \E w \in Workers : EnterCancelled(w)
  BY <1>6 DEF EnterCancelled, WorkConserving, flags
<1>7. CASE Cancel \/ WakeAll
  BY <1>7 DEF Cancel, WakeAll, WorkConserving
<1>8. CASE PushPanics \/ UNCHANGED queueVars
  BY <1>8 DEF PushPanics, queueVars, store, workers, flags, WorkConserving, At
<1> QED
  BY <1>1, <1>2, <1>3, <1>4, <1>5, <1>6, <1>7, <1>8 DEF Next, WorkerStep

\* Until shutdown, whatever the number of workers, no task waits for the 100 ms poll.
THEOREM QueueConservesWork == Spec => []WorkConserving
<1>1. Init => TypeOK /\ WorkConserving
  BY InitTypeOK DEF Init, WorkConserving, At
<1>2. TypeOK /\ WorkConserving /\ [Next]_queueVars => TypeOK' /\ WorkConserving'
  BY StepTypeOK, StepConserves
<1> QED
  BY <1>1, <1>2, PTL DEF Spec
=============================================================================
