----------------------------- MODULE RingProofs -----------------------------
(***************************************************************************)
(* Proofs about DropOldestRing, for every capacity, every set of consumers *)
(* and every number of pushes.                                             *)
(***************************************************************************)
EXTENDS DropOldestRing, SequenceTheorems, FiniteSetTheorems, TLAPS

(* Duplicate-free sequences, as Notify's wait list is one. *)

\* Removing the head of a duplicate-free sequence removes one element of its range.
LEMMA UniqueTail ==
  ASSUME NEW S, NEW s \in Seq(S), s # <<>>, IsInjective(s)
  PROVE  /\ Tail(s) \in Seq(S)
         /\ IsInjective(Tail(s))
         /\ Head(s) \in Range(s)
         /\ Range(Tail(s)) = Range(s) \ {Head(s)}
<1>1. /\ Tail(s) \in Seq(S)
      /\ Len(Tail(s)) = Len(s) - 1
      /\ \A i \in 1..Len(Tail(s)) : Tail(s)[i] = s[i + 1]
      /\ Len(s) \in Nat \ {0}
      /\ Head(s) = s[1]
  BY HeadTailProperties, EmptySeq
<1>2. DOMAIN s = 1..Len(s) /\ DOMAIN Tail(s) = 1..(Len(s) - 1)
  BY <1>1, LenProperties
<1>3. IsInjective(Tail(s))
  BY <1>1, <1>2 DEF IsInjective
<1>4. Range(Tail(s)) \subseteq Range(s) \ {Head(s)}
  BY <1>1, <1>2 DEF IsInjective, Range
<1>5. ASSUME NEW x \in Range(s) \ {Head(s)}
      PROVE  x \in Range(Tail(s))
  <2>1. PICK i \in 1..Len(s) : s[i] = x
    BY <1>2 DEF Range
  <2>2. i - 1 \in 1..(Len(s) - 1) /\ Tail(s)[i - 1] = x
    BY <1>1, <2>1
  <2> QED BY <1>2, <2>2 DEF Range
<1>6. Head(s) \in Range(s)
  BY <1>1, <1>2 DEF Range
<1>7. Range(Tail(s)) = Range(s) \ {Head(s)}
  BY <1>4, <1>5
<1> QED BY <1>1, <1>3, <1>6, <1>7

\* Removing any position of a duplicate-free sequence does the same.
LEMMA UniqueRemoveAt ==
  ASSUME NEW S, NEW s \in Seq(S), NEW i \in 1..Len(s), IsInjective(s)
  PROVE  /\ RemoveAt(s, i) \in Seq(S)
         /\ IsInjective(RemoveAt(s, i))
         /\ Range(RemoveAt(s, i)) = Range(s) \ {s[i]}
<1> DEFINE a == SubSeq(s, 1, i - 1)
           b == SubSeq(s, i + 1, Len(s))
           r == RemoveAt(s, i)
           n == Len(s)
<1>1. n \in Nat /\ DOMAIN s = 1..n /\ \A j \in 1..n : s[j] \in S
  BY LenProperties, ElementOfSeq
<1>2. /\ a \in Seq(S) /\ Len(a) = i - 1
      /\ \A j \in 1..(i - 1) : a[j] = s[j]
  <2>1. 1 \in Int /\ i - 1 \in Int /\ \A j \in 1..(i - 1) : s[j] \in S
    BY <1>1
  <2>2. /\ a \in Seq(S)
        /\ Len(a) = IF 1 <= i - 1 THEN i - 1 - 1 + 1 ELSE 0
        /\ \A j \in 1..(i - 1 - 1 + 1) : a[j] = s[1 + j - 1]
    BY <2>1, SubSeqProperties
  <2> HIDE DEF a
  <2> QED BY <2>2
<1>3. /\ b \in Seq(S) /\ Len(b) = n - i
      /\ \A j \in 1..(n - i) : b[j] = s[i + j]
  <2>1. i + 1 \in Int /\ n \in Int /\ \A j \in (i + 1)..n : s[j] \in S
    BY <1>1
  <2>2. /\ b \in Seq(S)
        /\ Len(b) = IF i + 1 <= n THEN n - (i + 1) + 1 ELSE 0
        /\ \A j \in 1..(n - (i + 1) + 1) : b[j] = s[i + 1 + j - 1]
    BY <2>1, SubSeqProperties
  <2> HIDE DEF b
  <2>3. Len(b) = n - i
    <3>1. CASE i + 1 <= n
      BY <1>1, <2>2, <3>1
    <3>2. CASE i = n
      BY <1>1, <2>2, <3>2
    <3>3. i \in Int /\ n \in Int /\ i <= n
      BY <1>1
    <3> HIDE DEF n
    <3> QED BY <3>1, <3>2, <3>3
  <2>4. ASSUME NEW j \in 1..(n - i)
        PROVE  b[j] = s[i + j]
    <3>1. j \in 1..(n - (i + 1) + 1) /\ i + 1 + j - 1 = i + j
      BY <1>1
    <3> QED BY <2>2, <3>1
  <2> QED BY <2>2, <2>3, <2>4
<1>4. /\ r \in Seq(S) /\ Len(r) = n - 1
      /\ \A j \in 1..(n - 1) : r[j] = IF j < i THEN s[j] ELSE s[j + 1]
  <2>1. r = a \o b
    BY DEF RemoveAt
  <2> HIDE DEF a, b, r
  <2>2. /\ r \in Seq(S) /\ Len(r) = Len(a) + Len(b)
        /\ \A j \in 1..(Len(a) + Len(b)) :
             r[j] = IF j <= Len(a) THEN a[j] ELSE b[j - Len(a)]
    BY <2>1, <1>2, <1>3, ConcatProperties
  <2>3. Len(a) + Len(b) = n - 1
    BY <1>1, <1>2, <1>3
  <2>4. ASSUME NEW j \in 1..(n - 1)
        PROVE  r[j] = IF j < i THEN s[j] ELSE s[j + 1]
    <3>1. CASE j < i
      BY <1>1, <1>2, <2>2, <2>3, <3>1
    <3>2. CASE j >= i
      <4>1. j - Len(a) \in 1..(n - i) /\ i + (j - Len(a)) = j + 1 /\ ~(j <= Len(a))
        BY <1>1, <1>2, <3>2
      <4>2. r[j] = b[j - Len(a)]
        BY <2>2, <2>3, <4>1
      <4>3. b[j - Len(a)] = s[i + (j - Len(a))]
        BY <1>3, <4>1
      <4>4. r[j] = s[j + 1]
        BY <4>1, <4>2, <4>3
      <4>5. ~(j < i)
        <5>1. i \in Int /\ j \in Int
          BY <1>1
        <5> QED BY <3>2, <5>1
      <4> QED BY <4>4, <4>5
    <3> QED BY <1>1, <3>1, <3>2
  <2> QED BY <2>2, <2>3, <2>4
<1>5. DOMAIN r = 1..(n - 1)
  BY <1>4, LenProperties
<1> HIDE DEF a, b, r
<1>6. IsInjective(r)
  BY <1>1, <1>4, <1>5 DEF IsInjective
<1>7. Range(r) \subseteq Range(s) \ {s[i]}
  BY <1>1, <1>4, <1>5 DEF IsInjective, Range
<1>8. ASSUME NEW x \in Range(s) \ {s[i]}
      PROVE  x \in Range(r)
  <2>1. PICK k \in 1..n : s[k] = x /\ k # i
    BY <1>1 DEF Range
  <2>2. CASE k < i
    BY <1>1, <1>4, <1>5, <2>1, <2>2 DEF Range
  <2>3. CASE k > i
    <3>1. k - 1 \in 1..(n - 1) /\ r[k - 1] = x
      BY <1>1, <1>4, <2>1, <2>3
    <3> QED BY <3>1, <1>5 DEF Range
  <2> QED BY <2>1, <2>2, <2>3, <1>1
<1>9. Range(r) = Range(s) \ {s[i]}
  BY <1>7, <1>8
<1> QED BY <1>4, <1>6, <1>9 DEF r

\* Appending a new element to a duplicate-free sequence.
LEMMA UniqueAppend ==
  ASSUME NEW S, NEW s \in Seq(S), NEW x \in S, x \notin Range(s), IsInjective(s)
  PROVE  /\ Append(s, x) \in Seq(S)
         /\ IsInjective(Append(s, x))
         /\ Range(Append(s, x)) = Range(s) \union {x}
<1> DEFINE t == Append(s, x)
           n == Len(s)
<1>1. /\ t \in Seq(S) /\ Len(t) = n + 1 /\ n \in Nat
      /\ \A j \in 1..n : t[j] = s[j]
      /\ t[n + 1] = x
  BY AppendProperties, LenProperties
<1>2. DOMAIN s = 1..n /\ DOMAIN t = 1..(n + 1)
  BY <1>1, LenProperties
<1> HIDE DEF t
<1>3. IsInjective(t)
  BY <1>1, <1>2 DEF IsInjective, Range
<1>4. \A y \in Range(t) : y \in Range(s) \union {x}
  BY <1>1, <1>2 DEF Range
<1>5. \A y \in Range(s) : y \in Range(t)
  BY <1>1, <1>2 DEF Range
<1>6. x \in Range(t)
  BY <1>1, <1>2 DEF Range
<1>7. Range(t) = Range(s) \union {x}
  BY <1>4, <1>5, <1>6
<1> QED
  BY <1>1, <1>3, <1>7 DEF t

-----------------------------------------------------------------------------
(* The type invariant, one step per action. *)

LEMMA TypeInit == Init => TypeOK
<1> SUFFICES ASSUME Init PROVE TypeOK
  OBVIOUS
<1>1. <<>> \in Seq(Nat) /\ <<>> \in Seq(AsyncConsumers)
  BY EmptySeq
<1>2. IsInjective(<<>>) /\ Range(<<>>) = {}
  BY DEF IsInjective, Range
<1> QED
  BY <1>1, <1>2, RingAssumption
     DEF Init, TypeOK, WaitListOK, Consumers, AsyncPositions, BlockingPositions

\* notify_one keeps the wait list consistent, whichever consumer's position t
\* the caller has changed away from "notified" or left alone.
LEMMA NotifyOneOK ==
  ASSUME TypeOK,
         NEW t \in [Consumers -> AsyncPositions \union BlockingPositions],
         \A c \in AsyncConsumers : t[c] \in AsyncPositions,
         \A c \in BlockingConsumers : t[c] = pc[c],
         \A c \in AsyncConsumers : t[c] = "waiting" <=> pc[c] = "waiting"
  PROVE  /\ NotifyOneWaiters \in Seq(AsyncConsumers)
         /\ IsInjective(NotifyOneWaiters)
         /\ Range(NotifyOneWaiters) =
              {c \in AsyncConsumers : NotifyOnePc(t)[c] = "waiting"}
         /\ NotifyOnePermit \in BOOLEAN
         /\ NotifyOnePermit => NotifyOneWaiters = <<>>
         /\ NotifyOnePc(t) \in [Consumers -> AsyncPositions \union BlockingPositions]
         /\ \A c \in AsyncConsumers : NotifyOnePc(t)[c] \in AsyncPositions
         /\ \A c \in BlockingConsumers : NotifyOnePc(t)[c] = pc[c]
<1> USE DEF TypeOK, WaitListOK, Consumers
<1>1. CASE waiters = <<>>
  BY <1>1 DEF NotifyOneWaiters, NotifyOnePc, NotifyOnePermit
<1>2. CASE waiters # <<>>
  <2>1. /\ Tail(waiters) \in Seq(AsyncConsumers)
        /\ IsInjective(Tail(waiters))
        /\ Head(waiters) \in Range(waiters)
        /\ Range(Tail(waiters)) = Range(waiters) \ {Head(waiters)}
    BY <1>2, UniqueTail
  <2>2. Head(waiters) \in AsyncConsumers /\ Head(waiters) \notin BlockingConsumers
    BY <2>1, RingAssumption
  <2> QED
    BY <1>2, <2>1, <2>2
       DEF NotifyOneWaiters, NotifyOnePc, NotifyOnePermit, AsyncPositions
<1> QED BY <1>1, <1>2

\* What the two notify_one calls of push do to the positions.
LEMMA PushPositions ==
  ASSUME TypeOK, Push
  PROVE  /\ \A c \in AsyncConsumers : pc'[c] = NotifyOnePc(pc)[c]
         /\ \/ /\ asleep = {} /\ asleep' = {}
               /\ \A c \in BlockingConsumers : pc'[c] = pc[c]
            \/ \E b \in asleep :
                 /\ asleep' = asleep \ {b}
                 /\ pc'[b] = "woken"
                 /\ \A c \in BlockingConsumers \ {b} : pc'[c] = pc[c]
<1>1. /\ NotifyOnePc(pc) \in [Consumers -> AsyncPositions \union BlockingPositions]
      /\ \A c \in BlockingConsumers : NotifyOnePc(pc)[c] = pc[c]
  BY NotifyOneOK DEF TypeOK
<1>2. /\ AsyncConsumers \intersect BlockingConsumers = {}
      /\ asleep \subseteq BlockingConsumers
  BY RingAssumption DEF TypeOK
<1>3. CASE asleep = {}
  BY <1>1, <1>3 DEF Push, CondvarNotifyOne
<1>4. CASE asleep # {}
  <2>1. PICK b \in asleep : /\ pc' = [NotifyOnePc(pc) EXCEPT ![b] = "woken"]
                            /\ asleep' = asleep \ {b}
    BY <1>4 DEF Push, CondvarNotifyOne
  <2>2. \A c \in Consumers : pc'[c] = IF c = b THEN "woken" ELSE NotifyOnePc(pc)[c]
    BY <1>1, <2>1
  <2> QED BY <1>1, <1>2, <2>1, <2>2 DEF Consumers
<1> QED BY <1>3, <1>4

LEMMA TypeStep == TypeOK /\ [Next]_ringVars => TypeOK'
<1> SUFFICES ASSUME TypeOK, [Next]_ringVars PROVE TypeOK'
  OBVIOUS
<1> USE RingAssumption DEF TypeOK, WaitListOK
<1>1. CASE Push
  <2>1. /\ waiters' \in Seq(AsyncConsumers)
        /\ IsInjective(waiters')
        /\ permit' \in BOOLEAN
        /\ permit' => waiters' = <<>>
        /\ Range(waiters') = {c \in AsyncConsumers : NotifyOnePc(pc)[c] = "waiting"}
        /\ NotifyOnePc(pc) \in [Consumers -> AsyncPositions \union BlockingPositions]
        /\ \A c \in AsyncConsumers : NotifyOnePc(pc)[c] \in AsyncPositions
        /\ \A c \in BlockingConsumers : NotifyOnePc(pc)[c] = pc[c]
    BY <1>1, NotifyOneOK DEF Push
  <2>2. /\ pc' \in [Consumers -> AsyncPositions \union BlockingPositions]
        /\ \A c \in AsyncConsumers : pc'[c] = NotifyOnePc(pc)[c]
        /\ \A c \in BlockingConsumers : pc'[c] \in BlockingPositions
        /\ asleep' = {c \in BlockingConsumers : pc'[c] = "asleep"}
    <3>1. CASE asleep = {}
      BY <1>1, <2>1, <3>1 DEF Push, CondvarNotifyOne
    <3>2. CASE asleep # {}
      <4>1. PICK b \in asleep : /\ pc' = [NotifyOnePc(pc) EXCEPT ![b] = "woken"]
                                /\ asleep' = asleep \ {b}
        BY <1>1, <3>2 DEF Push, CondvarNotifyOne
      <4> QED BY <2>1, <4>1 DEF Consumers, BlockingPositions
    <3> QED BY <3>1, <3>2
  <2>3. queue' \in Seq(Nat)
    <3>1. PopFront(queue) \in Seq(Nat)
      BY HeadTailProperties DEF PopFront
    <3>2. \A q \in Seq(Nat) : Append(q, pushed + 1) \in Seq(Nat)
      BY AppendProperties
    <3>3. queue' = Append(PopFront(queue), pushed + 1) \/ queue' = Append(queue, pushed + 1)
      BY <1>1 DEF Push
    <3> QED BY <3>1, <3>2, <3>3
  <2>4. /\ capacity' \in Capacities
        /\ overflow' \in Nat /\ pushed' \in Nat /\ received' \in Seq(Nat)
    BY <1>1 DEF Push
  <2>5. lost' \in SUBSET Nat
    <3>1. queue # <<>> => Head(queue) \in Nat
      BY HeadTailProperties
    <3> QED BY <1>1, <3>1 DEF Push
  <2> QED BY <2>1, <2>2, <2>3, <2>4, <2>5
<1>2. ASSUME NEW c \in Consumers, Call(c)
      PROVE  TypeOK'
  BY <1>2 DEF Call, Consumers, AsyncPositions, BlockingPositions
<1>3. ASSUME NEW c \in Consumers, Take(c)
      PROVE  TypeOK'
  <2>1. queue' \in Seq(Nat) /\ received' \in Seq(Nat)
    BY <1>3, HeadTailProperties, AppendProperties DEF Take
  <2> QED BY <1>3, <2>1 DEF Take, Consumers, AsyncPositions, BlockingPositions
<1>4. ASSUME NEW c \in AsyncConsumers, SeeEmpty(c)
      PROVE  TypeOK'
  BY <1>4 DEF SeeEmpty, Consumers, AsyncPositions, BlockingPositions
<1>5. ASSUME NEW c \in AsyncConsumers, PollPermit(c)
      PROVE  TypeOK'
  BY <1>5 DEF PollPermit, Consumers, AsyncPositions, BlockingPositions
<1>6. ASSUME NEW c \in AsyncConsumers, PollWait(c)
      PROVE  TypeOK'
  <2>1. c \notin Range(waiters)
    BY <1>6 DEF PollWait
  <2>2. /\ waiters' \in Seq(AsyncConsumers)
        /\ IsInjective(waiters')
        /\ Range(waiters') = Range(waiters) \union {c}
    BY <1>6, <2>1, UniqueAppend DEF PollWait
  <2> QED BY <1>6, <2>2 DEF PollWait, Consumers, AsyncPositions, BlockingPositions
<1>7. ASSUME NEW c \in AsyncConsumers, Resume(c)
      PROVE  TypeOK'
  BY <1>7 DEF Resume, Consumers, AsyncPositions, BlockingPositions
<1>8. ASSUME NEW c \in AsyncConsumers, DropWaiting(c)
      PROVE  TypeOK'
  <2>1. PICK i \in 1..Len(waiters) : waiters[i] = c /\ waiters' = RemoveAt(waiters, i)
    BY <1>8 DEF DropWaiting
  <2>2. /\ waiters' \in Seq(AsyncConsumers)
        /\ IsInjective(waiters')
        /\ Range(waiters') = Range(waiters) \ {c}
    BY <2>1, UniqueRemoveAt
  <2>3. ~permit
    BY <1>8, EmptySeq DEF DropWaiting, Range
  <2> QED BY <1>8, <2>2, <2>3 DEF DropWaiting, Consumers, AsyncPositions, BlockingPositions
<1>9. ASSUME NEW c \in AsyncConsumers, DropNotified(c)
      PROVE  TypeOK'
  <2> DEFINE t == [pc EXCEPT ![c] = "idle"]
  <2>1. /\ t \in [Consumers -> AsyncPositions \union BlockingPositions]
        /\ \A d \in AsyncConsumers : t[d] \in AsyncPositions
        /\ \A d \in BlockingConsumers : t[d] = pc[d]
        /\ \A d \in AsyncConsumers : t[d] = "waiting" <=> pc[d] = "waiting"
    BY <1>9 DEF DropNotified, Consumers, AsyncPositions
  <2>2. pc' = NotifyOnePc(t) /\ waiters' = NotifyOneWaiters /\ permit' = NotifyOnePermit
    BY <1>9 DEF DropNotified
  <2> HIDE DEF t
  <2>3. /\ waiters' \in Seq(AsyncConsumers)
        /\ IsInjective(waiters')
        /\ permit' \in BOOLEAN
        /\ permit' => waiters' = <<>>
        /\ Range(waiters') = {d \in AsyncConsumers : pc'[d] = "waiting"}
        /\ pc' \in [Consumers -> AsyncPositions \union BlockingPositions]
        /\ \A d \in AsyncConsumers : pc'[d] \in AsyncPositions
        /\ \A d \in BlockingConsumers : pc'[d] = pc[d]
    BY <2>1, <2>2, NotifyOneOK
  <2> QED BY <1>9, <2>3 DEF DropNotified
<1>10. ASSUME NEW c \in BlockingConsumers, Sleep(c)
       PROVE  TypeOK'
  BY <1>10 DEF Sleep, Consumers, AsyncPositions, BlockingPositions
<1>11. CASE UNCHANGED ringVars
  BY <1>11 DEF ringVars
<1> QED
  BY <1>1, <1>2, <1>3, <1>4, <1>5, <1>6, <1>7, <1>8, <1>9, <1>10, <1>11
     DEF Next, AsyncStep, Drop, BlockingStep, Consumers

\* In every reachable state of the ring the data has its type and Notify's list
\* holds exactly the suspended consumers, once each, with no permit beside them.
THEOREM TypeCorrect == Spec => []TypeOK
<1>1. Init => TypeOK
  BY TypeInit
<1>2. TypeOK /\ [Next]_ringVars => TypeOK'
  BY TypeStep
<1> QED BY <1>1, <1>2, PTL DEF Spec
-----------------------------------------------------------------------------
(* Order of the items. *)

LEMMA RangeAppend ==
  ASSUME NEW s \in Seq(Nat), NEW x \in Nat
  PROVE  Range(Append(s, x)) = Range(s) \union {x}
<1>1. /\ Append(s, x) \in Seq(Nat) /\ Len(Append(s, x)) = Len(s) + 1
      /\ \A j \in 1..Len(s) : Append(s, x)[j] = s[j]
      /\ Append(s, x)[Len(s) + 1] = x
      /\ Len(s) \in Nat
      /\ DOMAIN s = 1..Len(s) /\ DOMAIN Append(s, x) = 1..(Len(s) + 1)
  BY AppendProperties, LenProperties
<1>2. \A y \in Range(Append(s, x)) : y \in Range(s) \union {x}
  BY <1>1 DEF Range
<1>3. \A y \in Range(s) : y \in Range(Append(s, x))
  BY <1>1 DEF Range
<1>4. x \in Range(Append(s, x))
  BY <1>1 DEF Range
<1> QED BY <1>2, <1>3, <1>4

\* What push and pop do to the queue, as positions and values.
LEMMA QueueHead ==
  ASSUME TypeOK, OldestFirst, queue # <<>>
  PROVE  LET gone == pushed - Len(queue) IN
         /\ Len(queue) \in Nat \ {0}
         /\ Head(queue) = gone + 1
         /\ Tail(queue) \in Seq(Nat)
         /\ Len(Tail(queue)) = Len(queue) - 1
         /\ \A i \in 1..Len(Tail(queue)) : Tail(queue)[i] = gone + 1 + i
<1>1. /\ queue \in Seq(Nat) /\ Len(queue) \in Nat \ {0} /\ pushed \in Nat
      /\ Head(queue) = queue[1]
      /\ Tail(queue) \in Seq(Nat)
      /\ Len(Tail(queue)) = Len(queue) - 1
      /\ \A i \in 1..Len(Tail(queue)) : Tail(queue)[i] = queue[i + 1]
  BY HeadTailProperties, EmptySeq DEF TypeOK
<1>2. \A i \in 1..Len(queue) : queue[i] = pushed - Len(queue) + i
  BY DEF OldestFirst
<1>3. Head(queue) = pushed - Len(queue) + 1
  BY <1>1, <1>2
<1>4. ASSUME NEW i \in 1..Len(Tail(queue))
      PROVE  Tail(queue)[i] = pushed - Len(queue) + 1 + i
  <2>1. i + 1 \in 1..Len(queue) /\ i \in Nat
    BY <1>1
  <2>2. queue[i + 1] = pushed - Len(queue) + (i + 1)
    BY <1>2, <2>1
  <2> QED BY <1>1, <2>1, <2>2
<1> QED BY <1>1, <1>3, <1>4

LEMMA OrderStep == TypeOK /\ OldestFirst /\ [Next]_ringVars => OldestFirst'
<1> SUFFICES ASSUME TypeOK, OldestFirst, [Next]_ringVars PROVE OldestFirst'
  OBVIOUS
<1> DEFINE gone == pushed - Len(queue)
           n == Len(queue)
<1>1. /\ pushed \in Nat /\ n \in Nat /\ gone \in Nat
      /\ queue \in Seq(Nat) /\ received \in Seq(Nat) /\ Len(received) \in Nat
      /\ \A i \in 1..n : queue[i] = gone + i
      /\ Range(received) \union lost = 1..gone
      /\ Range(received) \intersect lost = {}
      /\ \A i, j \in 1..Len(received) : i < j => received[i] < received[j]
  BY LenProperties DEF TypeOK, OldestFirst
<1>2. CASE Push
  <2> DEFINE kept == IF Full THEN PopFront(queue) ELSE queue
             g == pushed - Len(kept)
             r == Range(received)
  <2>1. /\ kept \in Seq(Nat) /\ Len(kept) \in Nat /\ g \in Nat
        /\ \A i \in 1..Len(kept) : kept[i] = g + i
        /\ r \union lost' = 1..g
        /\ r \intersect lost' = {}
    <3>1. CASE ~Full \/ queue = <<>>
      <4>1. kept = queue /\ lost' = lost
        BY <1>2, <3>1 DEF Push, PopFront
      <4> HIDE DEF kept
      <4> QED BY <1>1, <4>1
    <3>2. CASE Full /\ queue # <<>>
      <4>1. kept = Tail(queue) /\ lost' = lost \union {Head(queue)}
        BY <1>2, <3>2 DEF Push, PopFront
      <4>2. /\ n \in Nat \ {0}
            /\ Head(queue) = gone + 1
            /\ Tail(queue) \in Seq(Nat)
            /\ Len(Tail(queue)) = n - 1
            /\ \A i \in 1..Len(Tail(queue)) : Tail(queue)[i] = gone + 1 + i
        BY <3>2, QueueHead
      <4>3. g = gone + 1 /\ Len(kept) = n - 1
        <5> HIDE DEF kept
        <5>1. Len(kept) = n - 1
          BY <4>1, <4>2
        <5>2. pushed \in Nat /\ g = pushed - Len(kept) /\ gone = pushed - n
          BY <1>1
        <5> HIDE DEF g, gone, n
        <5> QED BY <4>2, <5>1, <5>2
      <4>4. /\ lost' = lost \union {gone + 1}
            /\ r \union lost = 1..gone /\ r \intersect lost = {} /\ gone \in Nat
        BY <1>1, <4>1, <4>2
      <4> HIDE DEF gone, r, g, kept
      <4>5. r \union lost' = 1..(gone + 1)
        BY <4>4
      <4>6. r \intersect lost' = {}
        BY <4>4
      <4>7. ASSUME NEW i \in 1..Len(kept)
            PROVE  kept[i] = g + i
        <5>1. kept[i] = gone + 1 + i
          BY <4>1, <4>2
        <5> QED BY <4>3, <5>1
      <4> QED BY <4>1, <4>2, <4>3, <4>4, <4>5, <4>6, <4>7
    <3> QED BY <3>1, <3>2
  <2>2. queue' = Append(kept, pushed + 1) /\ pushed' = pushed + 1 /\ received' = received
    BY <1>2 DEF Push
  <2>3. g = pushed - Len(kept)
    OBVIOUS
  <2> HIDE DEF kept, g
  <2>4. /\ Len(queue') = Len(kept) + 1
        /\ \A i \in 1..Len(kept) : queue'[i] = kept[i]
        /\ queue'[Len(kept) + 1] = pushed + 1
    BY <1>1, <2>1, <2>2, AppendProperties
  <2>5. pushed' - Len(queue') = g
    BY <1>1, <2>1, <2>2, <2>3, <2>4
  <2>6. ASSUME NEW i \in 1..Len(queue')
        PROVE  queue'[i] = g + i
    <3>1. CASE i \in 1..Len(kept)
      BY <2>1, <2>4, <3>1
    <3>2. CASE i = Len(kept) + 1
      BY <1>1, <2>1, <2>3, <2>4, <3>2
    <3> QED BY <2>1, <2>4, <3>1, <3>2
  <2> QED BY <1>1, <2>1, <2>2, <2>5, <2>6 DEF OldestFirst
<1>3. ASSUME NEW c \in Consumers, Take(c)
      PROVE  OldestFirst'
  <2>1. /\ queue # <<>> /\ queue' = Tail(queue) /\ pushed' = pushed /\ lost' = lost
        /\ received' = Append(received, Head(queue))
    BY <1>3 DEF Take
  <2>2. /\ n \in Nat \ {0}
        /\ Head(queue) = gone + 1
        /\ Len(Tail(queue)) = n - 1
        /\ \A i \in 1..Len(Tail(queue)) : Tail(queue)[i] = gone + 1 + i
    BY <2>1, QueueHead
  <2>3. pushed' - Len(queue') = gone + 1
    BY <1>1, <2>1, <2>2
  <2>4. Range(received') = Range(received) \union {gone + 1}
    BY <1>1, <2>1, <2>2, RangeAppend
  <2>5. /\ Len(received') = Len(received) + 1
        /\ \A j \in 1..Len(received) : received'[j] = received[j]
        /\ received'[Len(received) + 1] = gone + 1
    BY <1>1, <2>1, <2>2, AppendProperties
  <2>6. \A j \in 1..Len(received) : received[j] < gone + 1
    <3>1. \A j \in 1..Len(received) : received[j] \in Range(received)
      BY <1>1, LenProperties DEF Range
    <3> QED BY <1>1, <3>1
  <2>7. \A i, j \in 1..Len(received') : i < j => received'[i] < received'[j]
    <3> SUFFICES ASSUME NEW i \in 1..Len(received'), NEW j \in 1..Len(received'), i < j
                 PROVE  received'[i] < received'[j]
      OBVIOUS
    <3>1. i \in 1..Len(received)
      BY <1>1, <2>5
    <3>2. CASE j \in 1..Len(received)
      BY <1>1, <2>5, <3>1, <3>2
    <3>3. CASE j = Len(received) + 1
      BY <2>5, <2>6, <3>1, <3>3
    <3>4. j \in 1..Len(received) \/ j = Len(received) + 1
      BY <1>1, <2>5
    <3> QED BY <3>2, <3>3, <3>4
  <2>8. Range(received') \union lost' = 1..(gone + 1)
    BY <1>1, <2>1, <2>4
  <2>9. Range(received') \intersect lost' = {}
    BY <1>1, <2>1, <2>4
  <2> QED BY <1>1, <2>1, <2>2, <2>3, <2>7, <2>8, <2>9 DEF OldestFirst
<1>4. CASE UNCHANGED <<queue, pushed, received, lost>>
  BY <1>4 DEF OldestFirst
<1> QED
  BY <1>2, <1>3, <1>4
     DEF Next, ringVars, Consumers, Call, AsyncStep, SeeEmpty, PollPermit, PollWait,
         Resume, Drop, DropWaiting, DropNotified, BlockingStep, Sleep

\* The ring is first-in first-out for every capacity, with drops only at the old
\* end: no item is popped out of order, twice, or both popped and dropped.
THEOREM RingIsFifo == Spec => []OldestFirst
<1>1. Init => OldestFirst
  <2> SUFFICES ASSUME Init PROVE OldestFirst
    OBVIOUS
  <2>1. Len(<<>>) = 0 /\ Range(<<>>) = {}
    BY EmptySeq DEF Range
  <2> QED BY <2>1 DEF Init, OldestFirst
<1>2. TypeOK /\ OldestFirst /\ [Next]_ringVars => OldestFirst'
  BY OrderStep
<1> QED BY <1>1, <1>2, TypeCorrect, PTL DEF Spec
-----------------------------------------------------------------------------
(* The capacity. *)

\* The capacity is that of the construction.
LEMMA CapacityStays == [Next]_ringVars => capacity' = capacity
  BY DEF Next, ringVars, Push, Call, AsyncStep, Take, SeeEmpty, PollPermit, PollWait, Resume,
         Drop, DropWaiting, DropNotified, BlockingStep, Sleep

LEMMA BoundStep ==
  ASSUME TypeOK, BoundedCapacity, [Next]_ringVars
  PROVE  BoundedCapacity'
<1> SUFFICES ASSUME capacity # 0 PROVE Len(queue') <= capacity
  BY CapacityStays DEF BoundedCapacity
<1>1. queue \in Seq(Nat) /\ Len(queue) \in Nat /\ Len(queue) <= capacity
      /\ capacity \in Nat \ {0} /\ pushed + 1 \in Nat
  BY LenProperties, RingAssumption DEF TypeOK, BoundedCapacity
<1>2. CASE Push
  <2>1. \A q \in Seq(Nat) : Len(Append(q, pushed + 1)) = Len(q) + 1
    BY <1>1, AppendProperties
  <2>2. CASE Full
    <3>1. queue # <<>>
      BY <1>1, <2>2, EmptySeq DEF Full
    <3>2. Tail(queue) \in Seq(Nat) /\ Len(Tail(queue)) = Len(queue) - 1
      BY <1>1, <3>1, HeadTailProperties
    <3>3. queue' = Append(Tail(queue), pushed + 1)
      BY <1>2, <2>2, <3>1 DEF Push, PopFront
    <3>4. Len(queue') = Len(queue)
      BY <1>1, <2>1, <3>2, <3>3
    <3> QED BY <1>1, <3>4
  <2>3. CASE ~Full
    <3>1. Len(queue') = Len(queue) + 1
      BY <1>1, <1>2, <2>1, <2>3 DEF Push
    <3> QED BY <1>1, <2>3, <3>1 DEF Full
  <2> QED BY <2>2, <2>3
<1>3. ASSUME NEW c \in Consumers, Take(c)
      PROVE  Len(queue') <= capacity
  <2>1. queue # <<>> /\ queue' = Tail(queue)
    BY <1>3 DEF Take
  <2>2. Len(queue') = Len(queue) - 1
    BY <1>1, <2>1, HeadTailProperties
  <2> QED BY <1>1, <2>2
<1>4. CASE UNCHANGED queue
  BY <1>1, <1>4
<1> QED
  BY <1>2, <1>3, <1>4
     DEF Next, ringVars, Consumers, Call, AsyncStep, SeeEmpty, PollPermit, PollWait,
         Resume, Drop, DropWaiting, DropNotified, BlockingStep, Sleep

\* A ring of positive capacity never holds more items than its capacity.
THEOREM RingIsBounded == Spec => []BoundedCapacity
<1>1. Init => BoundedCapacity
  BY EmptySeq, RingAssumption DEF Init, BoundedCapacity
<1>2. TypeOK /\ BoundedCapacity /\ [Next]_ringVars => BoundedCapacity'
  BY BoundStep
<1> QED BY <1>1, <1>2, TypeCorrect, PTL DEF Spec

\* What a push drops was not lost before.
LEMMA LossesStep ==
  ASSUME TypeOK, OldestFirst, OverflowCountsLosses, [Next]_ringVars
  PROVE  OverflowCountsLosses'
<1>1. /\ queue \in Seq(Nat) /\ Len(queue) \in Nat /\ capacity \in Nat /\ overflow \in Nat
      /\ queue = <<>> <=> Len(queue) = 0
  BY LenProperties, EmptySeq, RingAssumption DEF TypeOK
<1>2. CASE Push /\ Full /\ queue # <<>>
  <2> DEFINE gone == pushed - Len(queue)
  <2>1. gone \in Nat /\ lost \subseteq 1..gone /\ Head(queue) = gone + 1
    BY <1>2, QueueHead DEF OldestFirst
  <2> HIDE DEF gone
  <2>2. IsFiniteSet(lost) /\ Head(queue) \notin lost
    <3>1. IsFiniteSet(1..gone)
      BY <2>1, FS_Interval
    <3>2. IsFiniteSet(lost)
      BY <2>1, <3>1, FS_Subset
    <3>3. gone + 1 \notin 1..gone
      BY <2>1
    <3> QED BY <2>1, <3>2, <3>3
  <2>3. capacity # 0 /\ overflow = Cardinality(lost)
    BY <1>1, <1>2 DEF Full, OverflowCountsLosses
  <2>4. Cardinality(lost \union {Head(queue)}) = Cardinality(lost) + 1
    BY <2>2, FS_AddElement
  <2>5. /\ overflow' = overflow + 1 /\ lost' = lost \union {Head(queue)}
        /\ capacity' = capacity
    BY <1>2 DEF Push
  <2> QED BY <2>3, <2>4, <2>5 DEF OverflowCountsLosses
<1>3. CASE Push /\ Full /\ queue = <<>>
  <2>1. capacity = 0 /\ capacity' = capacity /\ lost' = lost
    BY <1>1, <1>3 DEF Push, Full
  <2> QED BY <2>1 DEF OverflowCountsLosses
<1>4. CASE UNCHANGED <<capacity, overflow, lost>>
  BY <1>4 DEF OverflowCountsLosses
<1>5. Push /\ ~Full => UNCHANGED <<capacity, overflow, lost>>
  BY DEF Push
<1> QED
  BY <1>2, <1>3, <1>4, <1>5
     DEF Next, ringVars, Call, AsyncStep, Take, SeeEmpty, PollPermit, PollWait, Resume,
         Drop, DropWaiting, DropNotified, BlockingStep, Sleep

\* overflow_count is the number of items dropped if the capacity is positive; at capacity 0
\* no item is dropped, whatever the counter says.
THEOREM OverflowIsTruthful == Spec => []OverflowCountsLosses
<1>1. Init => OverflowCountsLosses
  BY FS_EmptySet DEF Init, OverflowCountsLosses
<1>2. TypeOK /\ OldestFirst /\ OverflowCountsLosses /\ [Next]_ringVars
        => OverflowCountsLosses'
  BY LossesStep
<1> QED BY <1>1, <1>2, TypeCorrect, RingIsFifo, PTL DEF Spec

-----------------------------------------------------------------------------
(* Wake-ups of pop_async. *)

LEMMA LoopersStep ==
  ASSUME TypeOK, LoopersNotStranded, [Next]_ringVars
  PROVE  LoopersNotStranded'
<1> DEFINE Awake == {"idle", "check", "notified"}
<1> SUFFICES ASSUME queue' # <<>>, AsyncConsumers # {}
             PROVE  permit' \/ \E c \in AsyncConsumers : pc'[c] \in Awake
  BY DEF LoopersNotStranded
<1>1. /\ pc \in [Consumers -> AsyncPositions \union BlockingPositions]
      /\ AsyncConsumers \subseteq Consumers
      /\ AsyncConsumers \intersect BlockingConsumers = {}
      /\ asleep \subseteq BlockingConsumers
  BY RingAssumption DEF TypeOK, Consumers
<1>2. queue # <<>> => permit \/ \E c \in AsyncConsumers : pc[c] \in Awake
  BY DEF LoopersNotStranded
<1>3. waiters # <<>> => Head(waiters) \in AsyncConsumers /\ pc[Head(waiters)] = "waiting"
  <2>1. waiters # <<>> => Head(waiters) \in Range(waiters)
    BY UniqueTail DEF TypeOK, WaitListOK
  <2> QED BY <2>1 DEF TypeOK, WaitListOK
<1>4. CASE Push
  <2>1. CASE waiters = <<>>
    BY <1>4, <2>1 DEF Push, NotifyOnePermit
  <2>2. CASE waiters # <<>>
    <3>1. NotifyOnePc(pc)[Head(waiters)] = "notified"
      BY <1>1, <1>3, <2>2 DEF NotifyOnePc
    <3>2. pc'[Head(waiters)] = NotifyOnePc(pc)[Head(waiters)]
      BY <1>1, <1>3, <1>4, <2>2, PushPositions
    <3> QED BY <1>3, <2>2, <3>1, <3>2
  <2> QED BY <2>1, <2>2
<1>5. ASSUME NEW c \in Consumers, Call(c)
      PROVE  permit' \/ \E d \in AsyncConsumers : pc'[d] \in Awake
  BY <1>1, <1>2, <1>5 DEF Call
<1>6. ASSUME NEW c \in Consumers, Take(c)
      PROVE  permit' \/ \E d \in AsyncConsumers : pc'[d] \in Awake
  BY <1>1, <1>2, <1>6 DEF Take
<1>7. ASSUME NEW c \in AsyncConsumers, PollPermit(c) \/ Resume(c)
      PROVE  pc'[c] \in Awake
  BY <1>1, <1>7 DEF PollPermit, Resume
<1>8. ASSUME NEW c \in AsyncConsumers, PollWait(c)
      PROVE  \E d \in AsyncConsumers : pc'[d] \in Awake
  BY <1>1, <1>2, <1>8 DEF PollWait
<1>9. ASSUME NEW c \in AsyncConsumers, DropWaiting(c)
      PROVE  pc'[c] \in Awake
  BY <1>1, <1>9 DEF DropWaiting
<1>10. ASSUME NEW c \in AsyncConsumers, DropNotified(c)
       PROVE  pc'[c] \in Awake
  BY <1>1, <1>10 DEF DropNotified, NotifyOnePc
<1>11. ASSUME NEW c \in Consumers, SeeEmpty(c) \/ Sleep(c)
       PROVE  FALSE
  BY <1>11 DEF SeeEmpty, Sleep
<1>12. CASE UNCHANGED ringVars
  BY <1>2, <1>12 DEF ringVars
<1> QED
  BY <1>4, <1>5, <1>6, <1>7, <1>8, <1>9, <1>10, <1>11, <1>12
     DEF Next, Consumers, AsyncStep, Drop, BlockingStep

\* For any number of pushes, consumers, capacity and dropped futures, an item is
\* never left in the queue with every async consumer suspended: a permit is
\* stored or some consumer is idle, about to check the queue, or notified.
THEOREM LoopersNeverStranded == Spec => []LoopersNotStranded
<1>1. Init => LoopersNotStranded
  BY DEF Init, LoopersNotStranded
<1>2. TypeOK /\ LoopersNotStranded /\ [Next]_ringVars => LoopersNotStranded'
  BY LoopersStep
<1> QED BY <1>1, <1>2, TypeCorrect, PTL DEF Spec
-----------------------------------------------------------------------------
(* Wake-ups of pop_blocking. *)

LEMMA BlockingStepOK ==
  ASSUME TypeOK, BlockingNotStranded, [Next]_ringVars
  PROVE  BlockingNotStranded'
<1> DEFINE W == {c \in BlockingConsumers : pc[c] = "woken"}
<1> SUFFICES ASSUME asleep' # {} PROVE Len(queue') <= Cardinality(W')
  BY DEF BlockingNotStranded
<1>1. /\ queue \in Seq(Nat) /\ Len(queue) \in Nat
      /\ pushed + 1 \in Nat
      /\ pc \in [Consumers -> AsyncPositions \union BlockingPositions]
      /\ AsyncConsumers \intersect BlockingConsumers = {}
      /\ asleep = {c \in BlockingConsumers : pc[c] = "asleep"}
  BY LenProperties, RingAssumption DEF TypeOK
<1>2. asleep # {} => Len(queue) <= Cardinality(W)
  BY DEF BlockingNotStranded
<1>3. \A S \in SUBSET BlockingConsumers : IsFiniteSet(S) /\ Cardinality(S) \in Nat
  BY FS_Subset, FS_CardinalityType, RingAssumption
<1>4. W \in SUBSET BlockingConsumers /\ W' \in SUBSET BlockingConsumers
  OBVIOUS
<1>5. CASE Push
  <2>1. PICK b \in asleep : /\ asleep' = asleep \ {b}
                            /\ pc'[b] = "woken"
                            /\ \A c \in BlockingConsumers \ {b} : pc'[c] = pc[c]
    BY <1>5, PushPositions
  <2>2. W' = W \union {b} /\ b \notin W
    BY <1>1, <2>1
  <2>3. Cardinality(W') = Cardinality(W) + 1
    BY <1>3, <1>4, <2>2, FS_AddElement
  <2>4. Len(queue') <= Len(queue) + 1 /\ Len(queue') \in Nat
    <3>1. \A q \in Seq(Nat) : Len(Append(q, pushed + 1)) = Len(q) + 1
      BY <1>1, AppendProperties
    <3>2. PopFront(queue) \in Seq(Nat) /\ Len(PopFront(queue)) <= Len(queue)
          /\ Len(PopFront(queue)) \in Nat
      BY <1>1, HeadTailProperties, LenProperties, EmptySeq DEF PopFront
    <3>3. queue' = Append(PopFront(queue), pushed + 1) \/ queue' = Append(queue, pushed + 1)
      BY <1>5 DEF Push
    <3> QED BY <1>1, <3>1, <3>2, <3>3
  <2>5. Len(queue) <= Cardinality(W) /\ Cardinality(W) \in Nat
    BY <1>2, <1>3, <1>4, <2>1
  <2> HIDE DEF W
  <2> QED BY <1>1, <2>3, <2>4, <2>5
<1>6. ASSUME NEW c \in Consumers, Take(c)
      PROVE  Len(queue') <= Cardinality(W')
  <2>1. /\ asleep' = asleep /\ queue # <<>> /\ queue' = Tail(queue)
        /\ pc' = [pc EXCEPT ![c] = "idle"]
    BY <1>6 DEF Take
  <2>2. Len(queue') = Len(queue) - 1
    BY <1>1, <2>1, HeadTailProperties
  <2>3. W' = W \ {c}
    <3>1. /\ pc'[c] = "idle"
          /\ \A d \in BlockingConsumers \ {c} : pc'[d] = pc[d]
      BY <1>1, <2>1 DEF Consumers
    <3>2. c \notin W'
      BY <3>1
    <3>3. \A d \in BlockingConsumers \ {c} : d \in W' <=> d \in W
      BY <3>1
    <3> QED BY <3>2, <3>3
  <2>4. Cardinality(W) - 1 <= Cardinality(W') /\ Cardinality(W) \in Nat
    <3>1. IsFiniteSet(W) /\ Cardinality(W) \in Nat
      BY <1>3, <1>4
    <3> HIDE DEF W
    <3>2. Cardinality(W \ {c}) =
            IF c \in W THEN Cardinality(W) - 1 ELSE Cardinality(W)
      BY <3>1, FS_RemoveElement
    <3> QED BY <2>3, <3>1, <3>2
  <2>5. Len(queue) <= Cardinality(W) /\ Cardinality(W') \in Nat
    <3>1. asleep # {}
      BY <2>1
    <3> HIDE DEF W
    <3> QED BY <1>2, <1>3, <1>4, <3>1
  <2> HIDE DEF W
  <2> QED BY <1>1, <2>2, <2>4, <2>5
<1>7. ASSUME NEW c \in Consumers, Sleep(c)
      PROVE  Len(queue') <= Cardinality(W')
  <2>1. Len(queue') = 0
    BY <1>7, EmptySeq DEF Sleep
  <2> QED BY <1>3, <1>4, <2>1
<1>8. ASSUME UNCHANGED <<queue, asleep>>,
             \A c \in BlockingConsumers : pc'[c] = "woken" <=> pc[c] = "woken"
      PROVE  Len(queue') <= Cardinality(W')
  <2>1. W' = W
    BY <1>8
  <2> QED BY <1>2, <1>8, <2>1
<1>9. ASSUME NEW c \in Consumers, Call(c)
      PROVE  Len(queue') <= Cardinality(W')
  BY <1>1, <1>8, <1>9 DEF Call, Consumers
<1>10. ASSUME NEW c \in AsyncConsumers, AsyncStep(c), ~Take(c)
       PROVE  Len(queue') <= Cardinality(W')
  BY <1>1, <1>8, <1>10
     DEF AsyncStep, SeeEmpty, PollPermit, PollWait, Resume, Consumers
<1>11. ASSUME NEW c \in AsyncConsumers, DropWaiting(c)
       PROVE  Len(queue') <= Cardinality(W')
  BY <1>1, <1>8, <1>11 DEF DropWaiting, Consumers
<1>12. ASSUME NEW c \in AsyncConsumers, DropNotified(c)
       PROVE  Len(queue') <= Cardinality(W')
  <2>1. waiters # <<>> => Head(waiters) \in AsyncConsumers
    BY HeadTailProperties DEF TypeOK, WaitListOK
  <2>2. \A b \in BlockingConsumers : pc'[b] = pc[b]
    BY <1>1, <1>12, <2>1 DEF DropNotified, NotifyOnePc, Consumers
  <2> QED BY <1>8, <1>12, <2>2 DEF DropNotified
<1>13. CASE UNCHANGED ringVars
  BY <1>8, <1>13 DEF ringVars
<1> QED
  BY <1>5, <1>6, <1>7, <1>9, <1>10, <1>11, <1>12, <1>13
     DEF Next, Consumers, Drop, BlockingStep

\* While a thread sleeps in pop_blocking, every queued item has a woken thread of
\* its own on the way to it.
THEOREM BlockingNeverStranded == Spec => []BlockingNotStranded
<1>1. Init => BlockingNotStranded
  BY DEF Init, BlockingNotStranded
<1>2. TypeOK /\ BlockingNotStranded /\ [Next]_ringVars => BlockingNotStranded'
  BY BlockingStepOK
<1> QED BY <1>1, <1>2, TypeCorrect, PTL DEF Spec
-----------------------------------------------------------------------------
(* The ring implements the lossy channel. *)

\* The library operators reached through the instance are those used here.
LEMMA SameOperators ==
  /\ \A S : Fifo!Cardinality(S) = Cardinality(S)
  /\ \A f : Fifo!Range(f) = Range(f)
<1>1. \A S : Fifo!Cardinality(S) = Cardinality(S)
  BY DEF Cardinality, Fifo!Cardinality
<1>2. \A f : Fifo!Range(f) = Range(f)
  BY DEF Range, Fifo!Range
<1> QED BY <1>1, <1>2

\* The queue is what the channel calls outstanding, and its head is the oldest.
LEMMA OutstandingIsQueue ==
  ASSUME TypeOK, OldestFirst
  PROVE  /\ Fifo!Outstanding = {} <=> queue = <<>>
         /\ Cardinality(Fifo!Outstanding) = Len(queue)
         /\ queue # <<>> => Fifo!Min(Fifo!Outstanding) = Head(queue)
<1> DEFINE gone == pushed - Len(queue)
<1>1. /\ pushed \in Nat /\ Len(queue) \in Nat /\ gone \in Nat
      /\ gone = pushed - Len(queue)
      /\ Range(received) \union lost = 1..gone
      /\ queue = <<>> <=> Len(queue) = 0
  BY LenProperties, EmptySeq DEF TypeOK, OldestFirst
<1>2. queue # <<>> => Head(queue) = gone + 1
  BY QueueHead
<1> HIDE DEF gone
<1>3. Fifo!Outstanding = (gone + 1)..pushed
  <2>1. Fifo!Outstanding = (1..pushed) \ (1..gone)
    BY <1>1, SameOperators DEF Fifo!Outstanding
  <2> QED BY <1>1, <2>1
<1>4. Cardinality((gone + 1)..pushed) = Len(queue)
  <2>1. gone + 1 \in Int /\ pushed \in Int
    BY <1>1
  <2>2. Cardinality((gone + 1)..pushed) =
          IF gone + 1 > pushed THEN 0 ELSE pushed - (gone + 1) + 1
    BY <2>1, FS_Interval
  <2> QED BY <1>1, <2>2
<1>5. ASSUME queue # <<>>
      PROVE  Fifo!Min((gone + 1)..pushed) = gone + 1
  <2>1. gone + 1 \in (gone + 1)..pushed /\ \A y \in (gone + 1)..pushed : gone + 1 =< y
    BY <1>1, <1>5
  <2>2. \A x \in (gone + 1)..pushed :
           (\A y \in (gone + 1)..pushed : x =< y) => x = gone + 1
    <3> SUFFICES ASSUME NEW x \in (gone + 1)..pushed,
                        \A y \in (gone + 1)..pushed : x =< y
                 PROVE  x = gone + 1
      OBVIOUS
    <3>1. x =< gone + 1
      BY <2>1
    <3> QED BY <1>1, <3>1
  <2> QED BY <2>1, <2>2 DEF Fifo!Min
<1> QED BY <1>1, <1>2, <1>3, <1>4, <1>5

LEMMA FifoStep ==
  ASSUME TypeOK, OldestFirst, BoundedCapacity, [Next]_ringVars
  PROVE  [Fifo!Next]_(Fifo!fifoVars)
<1> DEFINE demand == {c \in Consumers : pc[c] # "idle"}
           room == IF capacity = 0 THEN MaxPushes ELSE capacity
<1>0. room' = room
  BY CapacityStays
<1>1. /\ pc \in [Consumers -> AsyncPositions \union BlockingPositions]
      /\ AsyncConsumers \intersect BlockingConsumers = {}
      /\ asleep = {c \in BlockingConsumers : pc[c] = "asleep"}
      /\ queue \in Seq(Nat) /\ Len(queue) \in Nat /\ capacity \in Nat
      /\ capacity # 0 => Len(queue) <= capacity
      /\ queue = <<>> <=> Len(queue) = 0
      /\ pushed \in Nat /\ MaxPushes \in Nat /\ Len(queue) <= pushed
  BY LenProperties, EmptySeq, RingAssumption DEF TypeOK, BoundedCapacity, OldestFirst
<1>2. waiters # <<>> => Head(waiters) \in AsyncConsumers /\ pc[Head(waiters)] = "waiting"
  <2>1. waiters # <<>> => Head(waiters) \in Range(waiters)
    BY UniqueTail DEF TypeOK, WaitListOK
  <2> QED BY <2>1 DEF TypeOK, WaitListOK
<1>3. CASE Push
  <2>1. \A c \in AsyncConsumers : pc'[c] = "idle" <=> pc[c] = "idle"
    BY <1>1, <1>2, <1>3, PushPositions DEF NotifyOnePc, Consumers
  <2>2. \A c \in BlockingConsumers : pc'[c] = "idle" <=> pc[c] = "idle"
    BY <1>1, <1>3, PushPositions
  <2>3. demand' = demand
    BY <2>1, <2>2 DEF Consumers
  <2>4. CASE Full /\ queue # <<>>
    <3>1. capacity # 0 /\ room = capacity
      BY <1>1, <2>4 DEF Full
    <3>2. /\ Fifo!Outstanding # {}
          /\ Cardinality(Fifo!Outstanding) = room
          /\ Fifo!Min(Fifo!Outstanding) = Head(queue)
      BY <2>4, <3>1, OutstandingIsQueue DEF Full
    <3>3. /\ pushed' = pushed + 1 /\ received' = received
          /\ lost' = lost \union {Head(queue)}
      BY <1>3, <2>4 DEF Push
    <3> HIDE DEF room
    <3> QED BY <1>0, <2>3, <3>2, <3>3, SameOperators DEF Fifo!Next, Fifo!SendLossy, room
  <2>5. CASE ~Full \/ queue = <<>>
    <3>1. Cardinality(Fifo!Outstanding) < room
      <4>1. pushed < MaxPushes
        BY <1>3 DEF Push
      <4> QED BY <1>1, <2>5, <4>1, OutstandingIsQueue DEF Full
    <3>2. pushed' = pushed + 1 /\ received' = received /\ lost' = lost
      BY <1>3, <2>5 DEF Push
    <3> QED BY <1>0, <2>3, <3>1, <3>2, SameOperators DEF Fifo!Next, Fifo!Send
  <2> QED BY <2>4, <2>5
<1>4. ASSUME NEW c \in Consumers, Call(c)
      PROVE  Fifo!Next
  <2>1. c \notin demand /\ demand' = demand \union {c}
    BY <1>1, <1>4 DEF Call
  <2> QED BY <1>0, <1>4, <2>1 DEF Call, Fifo!Next, Fifo!Ask
<1>5. ASSUME NEW c \in Consumers, Take(c)
      PROVE  Fifo!Next
  <2>1. c \in demand /\ demand' = demand \ {c}
    BY <1>1, <1>5 DEF Take
  <2>2. /\ Fifo!Outstanding # {}
        /\ received' = Append(received, Fifo!Min(Fifo!Outstanding))
    BY <1>5, OutstandingIsQueue DEF Take
  <2> QED BY <1>0, <1>5, <2>1, <2>2 DEF Take, Fifo!Next, Fifo!Deliver
<1>6. ASSUME NEW c \in AsyncConsumers, DropWaiting(c)
      PROVE  Fifo!Next
  <2>1. c \in demand /\ demand' = demand \ {c}
    BY <1>1, <1>6 DEF DropWaiting, Consumers
  <2> QED BY <1>0, <1>6, <2>1 DEF DropWaiting, Fifo!Next, Fifo!Withdraw, Consumers
<1>7. ASSUME NEW c \in AsyncConsumers, DropNotified(c)
      PROVE  Fifo!Next
  <2>1. c \in demand /\ demand' = demand \ {c}
    BY <1>1, <1>2, <1>7 DEF DropNotified, NotifyOnePc, Consumers
  <2> QED BY <1>0, <1>7, <2>1 DEF DropNotified, Fifo!Next, Fifo!Withdraw, Consumers
<1>8. ASSUME NEW c \in Consumers,
             SeeEmpty(c) \/ PollPermit(c) \/ PollWait(c) \/ Resume(c) \/ Sleep(c)
      PROVE  UNCHANGED Fifo!fifoVars
  <2>1. demand' = demand
    BY <1>1, <1>8 DEF SeeEmpty, PollPermit, PollWait, Resume, Sleep
  <2> QED
    BY <1>0, <1>8, <2>1
       DEF SeeEmpty, PollPermit, PollWait, Resume, Sleep, Fifo!fifoVars
<1>9. CASE UNCHANGED ringVars
  BY <1>9 DEF ringVars, Fifo!fifoVars
<1> QED
  BY <1>3, <1>4, <1>5, <1>6, <1>7, <1>8, <1>9
     DEF Next, Consumers, AsyncStep, Drop, BlockingStep

\* Every behaviour of a ring is a behaviour of the lossy channel: pushes send, pops deliver
\* the oldest item, a full ring loses it.  A ring of capacity 0 is never full of anything.
THEOREM RingImplementsFifo == Spec => ImplementsFifo
<1>1. Init => Fifo!Init
  BY RingAssumption DEF Init, Fifo!Init, Consumers
<1>2. TypeOK /\ OldestFirst /\ BoundedCapacity /\ [Next]_ringVars
        => [Fifo!Next]_(Fifo!fifoVars)
  BY FifoStep
<1> QED
  BY <1>1, <1>2, TypeCorrect, RingIsFifo, RingIsBounded, PTL
     DEF Spec, Fifo!Spec, ImplementsFifo
=============================================================================
