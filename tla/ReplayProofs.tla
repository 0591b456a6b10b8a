----------------------------- MODULE ReplayProofs -----------------------------
(***************************************************************************)
(* Proofs about rts-replay: what load_fixture keeps of a file, whatever is *)
(* in it; that a recording of any length can be trusted; and that a replay *)
(* of any fixture, at any rate and for any number of clients, is never     *)
(* ahead of its times.                                                     *)
(***************************************************************************)
EXTENDS Recorder, ReplayServer, WellFoundedInduction, TLAPS

(* Loops.  An induction is over a set of numbers, because the provers cannot apply a     *)
(* theorem to a predicate.                                                               *)

\* Every set of numbers has a least one.
LEMMA Least ==
  ASSUME NEW Ns \in SUBSET Nat, Ns # {}
  PROVE  \E n \in Ns : \A m \in Ns : n <= m
<1>1. PICK R : R = OpToRel(<, Nat)
  OBVIOUS
<1>2. IsWellFoundedOn(R, Nat)
  BY <1>1, NatLessThanWellFounded
<1>3. \E n \in Ns : \A m \in Ns : ~ (<<m, n>> \in R)
  BY <1>2, WFMin
<1>4. \A m, n \in Nat : <<m, n>> \in R <=> m < n
  <2>1. \A m, n \in Nat : <<m, n>> \in OpToRel(<, Nat) <=> m < n
    BY DEF OpToRel
  <2> QED BY <1>1, <2>1, Zenon
<1>5. PICK n \in Ns : \A m \in Ns : ~ (<<m, n>> \in R)
  BY <1>3
<1>6. ASSUME NEW m \in Ns PROVE n <= m
  <2>1. ~ (m < n)
    BY <1>4, <1>5, Zenon
  <2> QED BY <2>1
<1> QED BY <1>6

\* Induction up to a bound, over a set instead of a predicate.
LEMMA UpTo ==
  ASSUME NEW m \in Nat, NEW Ns, 0 \in Ns, \A n \in 0..(m - 1) : n \in Ns => n + 1 \in Ns
  PROVE  \A n \in 0..m : n \in Ns
<1> SUFFICES ASSUME NEW k \in 0..m, k \notin Ns PROVE FALSE
  OBVIOUS
<1> DEFINE Left == {n \in 0..m : n \notin Ns}
<1>1. PICK n \in Left : \A i \in Left : n <= i
  <2>1. Left \in SUBSET Nat /\ Left # {}
    OBVIOUS
  <2> HIDE DEF Left
  <2> QED BY <2>1, Least
<1>2. n # 0 /\ n - 1 \in 0..(m - 1) /\ n - 1 \notin Left
  BY <1>1
<1> QED BY <1>1, <1>2

\* A loop over the steps 1..m, and the histories of the values it goes through.
LoopSteps(m, Y) == [1..m -> [Y -> Y]]

Histories(m, Y, start, step) ==
    {g \in [0..m -> Y] : g[0] = start /\ \A i \in 1..m : g[i] = step[i][g[i - 1]]}

LEMMA LoopRuns ==
  ASSUME NEW m \in Nat, NEW Y, NEW start \in Y, NEW step \in LoopSteps(m, Y)
  PROVE  Histories(m, Y, start, step) # {}
<1> USE DEF LoopSteps
<1> DEFINE Runs(n) == {g \in [0..n -> Y] :
                          g[0] = start /\ \A i \in 1..n : g[i] = step[i][g[i - 1]]}
           Done == {n \in 0..m : Runs(n) # {}}
<1>1. 0 \in Done
  <2>1. [i \in 0..0 |-> start] \in Runs(0)
    OBVIOUS
  <2> HIDE DEF Runs
  <2> QED BY <2>1
<1>2. ASSUME NEW n \in 0..(m - 1), n \in Done PROVE n + 1 \in Done
  <2>1. PICK g : g \in Runs(n)
    BY <1>2
  <2> DEFINE y == step[n + 1][g[n]]
             h == [i \in 0..(n + 1) |-> IF i = n + 1 THEN y ELSE g[i]]
  <2>2. y \in Y
    <3>1. n + 1 \in 1..m /\ g[n] \in Y
      BY <2>1
    <3> QED BY <3>1
  <2>3. h \in [0..(n + 1) -> Y]
    <3> HIDE DEF y
    <3> QED BY <2>1, <2>2
  <2>4. h[0] = start
    BY <2>1
  <2>5. ASSUME NEW i \in 1..(n + 1) PROVE h[i] = step[i][h[i - 1]]
    <3>1. h[i - 1] = g[i - 1] /\ h[i] = IF i = n + 1 THEN y ELSE g[i]
      OBVIOUS
    <3> HIDE DEF h
    <3>2. CASE i = n + 1
      <4>1. i - 1 = n
        BY <3>2
      <4> QED BY <3>1, <3>2, <4>1
    <3>3. CASE i # n + 1
      <4>1. i \in 1..n
        BY <3>3
      <4> QED BY <2>1, <3>1, <3>3, <4>1
    <3> QED BY <3>2, <3>3
  <2>6. h \in Runs(n + 1)
    <3> HIDE DEF h, y
    <3> QED BY <2>3, <2>4, <2>5
  <2> HIDE DEF Runs
  <2> QED BY <2>6
<1>3. \A n \in 0..m : n \in Done
  <2> HIDE DEF Done
  <2> QED BY <1>1, <1>2, UpTo
<1>4. PICK g : g \in Runs(m)
  BY <1>3
<1> QED BY <1>4 DEF Histories

\* What load_fixture keeps of the lines of a file: no blank one, and all others.
LEMMA KeptLines ==
  ASSUME NEW X, NEW lines \in Seq(X)
  PROVE  /\ Kept(lines) \in Seq(X \ {Blank})
         /\ Len(Kept(lines)) <= Len(lines)
         /\ \A i \in 1..Len(lines) : lines[i] # Blank => Contains(Kept(lines), lines[i])
         /\ (\A i \in 1..Len(lines) : lines[i] # Blank) => Kept(lines) = lines
<1>0. PICK m \in Nat : m = Len(lines)
  OBVIOUS
<1> DEFINE Y == Seq(X \ {Blank})
            step == [i \in 1..m |->
                       [s \in Y |-> IF lines[i] = Blank THEN s ELSE Append(s, lines[i])]]
           Loop(g) == g = [n \in 0..m |->
                             IF n = 0 THEN <<>>
                             ELSE IF lines[n] = Blank THEN g[n - 1]
                             ELSE Append(g[n - 1], lines[n])]
<1>1. step \in [1..m -> [Y -> Y]]
  <2>1. ASSUME NEW i \in 1..m, NEW s \in Y
        PROVE  (IF lines[i] = Blank THEN s ELSE Append(s, lines[i])) \in Y
    <3>1. lines[i] \in X
      BY <1>0
    <3> QED BY <3>1
  <2> HIDE DEF Y
  <2> QED BY <2>1
<1>2. <<>> \in Y
  OBVIOUS
<1>3. PICK g \in [0..m -> Y] : g[0] = <<>> /\ \A i \in 1..m : g[i] = step[i][g[i - 1]]
  <2> HIDE DEF Y, step
  <2>1. \E g \in [0..m -> Y] : g[0] = <<>> /\ \A i \in 1..m : g[i] = step[i][g[i - 1]]
    <3>1. PICK e \in Y : e = <<>>
      BY <1>2
    <3>2. step \in LoopSteps(m, Y)
      BY <1>1 DEF LoopSteps
    <3>3. Histories(m, Y, e, step) # {}
      BY <3>2, LoopRuns
    <3> QED BY <3>1, <3>3 DEF Histories
  <2> QED BY <2>1
<1>4. Loop(g)
  <2> HIDE DEF Y
  <2>1. ASSUME NEW n \in 0..m
        PROVE  g[n] = IF n = 0 THEN <<>>
                      ELSE IF lines[n] = Blank THEN g[n - 1]
                      ELSE Append(g[n - 1], lines[n])
    <3>1. CASE n = 0
      BY <1>3, <3>1
    <3>2. CASE n # 0
      <4>1. n \in 1..m /\ g[n - 1] \in Y
        BY <3>2
      <4>2. g[n] = step[n][g[n - 1]]
        BY <1>3, <4>1
      <4> QED BY <3>2, <4>1, <4>2
    <3> QED BY <3>1, <3>2
  <2> QED BY <1>3, <2>1
<1>5. PICK k : Loop(k) /\ Kept(lines) = k[m]
  <2>1. Loop(CHOOSE k : Loop(k))
    <3> HIDE DEF Loop
    <3> QED BY <1>4
  <2>2. Kept(lines) = (CHOOSE k : Loop(k))[m]
    BY <1>0 DEF Kept
  <2> HIDE DEF Loop
  <2> QED BY <2>1, <2>2
<1>6. /\ k[0] = <<>>
      /\ \A n \in 0..(m - 1) :
            k[n + 1] = IF lines[n + 1] = Blank THEN k[n] ELSE Append(k[n], lines[n + 1])
  <2>1. \A i \in 0..m : k[i] = IF i = 0 THEN <<>>
                              ELSE IF lines[i] = Blank THEN k[i - 1]
                              ELSE Append(k[i - 1], lines[i])
    BY <1>5
  <2>2. ASSUME NEW n \in 0..(m - 1)
        PROVE  k[n + 1] = IF lines[n + 1] = Blank THEN k[n] ELSE Append(k[n], lines[n + 1])
    <3>1. n + 1 \in 0..m /\ n + 1 # 0 /\ (n + 1) - 1 = n
      OBVIOUS
    <3> HIDE DEF Loop
    <3> QED BY <2>1, <3>1
  <2> HIDE DEF Loop
  <2> QED BY <2>1, <2>2
<1> HIDE DEF Loop
<1> DEFINE Holds(n, s) == \A i \in 1..n : lines[i] # Blank => Contains(s, lines[i])
           Good == {n \in 0..m : k[n] \in Y /\ Len(k[n]) <= n /\ Holds(n, k[n])}
<1>7. 0 \in Good
  <2>1. k[0] \in Y /\ Len(k[0]) = 0 /\ Holds(0, k[0])
    BY <1>6
  <2> HIDE DEF Y, Holds
  <2> QED BY <2>1
<1>8. ASSUME NEW n \in 0..(m - 1), n \in Good PROVE n + 1 \in Good
  <2>1. PICK s \in Y : s = k[n]
    BY <1>8
  <2>2. PICK x \in X : x = lines[n + 1]
    BY <1>0
  <2>3. Len(s) \in Nat /\ Len(s) <= n /\ Holds(n, s)
    BY <1>8, <2>1
  <2>4. CASE x = Blank
    <3>1. k[n + 1] = s
      BY <1>6, <2>1, <2>2, <2>4
    <3>2. Holds(n + 1, s)
      <4>1. ASSUME NEW i \in 1..(n + 1), lines[i] # Blank PROVE i \in 1..n
        <5>1. i # n + 1
          BY <2>2, <2>4, <4>1
        <5> QED BY <5>1
      <4> QED BY <2>3, <4>1
    <3> HIDE DEF Y, Holds
    <3> QED BY <2>3, <3>1, <3>2
  <2>5. CASE x # Blank
    <3> DEFINE t == Append(s, x)
    <3>1. k[n + 1] = t
      BY <1>6, <2>1, <2>2, <2>5
    <3>2. /\ t \in Y /\ Len(t) = Len(s) + 1 /\ t[Len(s) + 1] = x
          /\ \A i \in 1..Len(s) : t[i] = s[i]
      BY <2>5
    <3> HIDE DEF t
    <3>3. \A y : Contains(s, y) => Contains(t, y)
      BY <2>3, <3>2 DEF Contains
    <3>4. Contains(t, x)
      <4>1. Len(s) + 1 \in 1..Len(t)
        BY <2>3, <3>2
      <4> QED BY <3>2, <4>1 DEF Contains
    <3>5. Holds(n + 1, t)
      <4>1. ASSUME NEW i \in 1..(n + 1), lines[i] # Blank PROVE Contains(t, lines[i])
        <5>1. CASE i = n + 1
          BY <2>2, <3>4, <5>1
        <5>2. CASE i # n + 1
          <6>1. i \in 1..n
            BY <5>2
          <6> QED BY <2>3, <3>3, <4>1, <6>1
        <5> QED BY <5>1, <5>2
      <4> QED BY <4>1
    <3> HIDE DEF Y, Holds
    <3> QED BY <2>3, <3>1, <3>2, <3>5
  <2> QED BY <2>4, <2>5
<1>9. m \in Good
  <2> HIDE DEF Good
  <2>1. \A n \in 0..m : n \in Good
    BY <1>7, <1>8, UpTo
  <2> QED BY <2>1
<1>10. ASSUME \A i \in 1..m : lines[i] # Blank PROVE k[m] = lines
  <2> DEFINE Prefix(n, s) == s \in Seq(X) /\ Len(s) = n /\ \A i \in 1..n : s[i] = lines[i]
             Same == {n \in 0..m : Prefix(n, k[n])}
  <2>1. 0 \in Same
    <3>1. Prefix(0, k[0])
      BY <1>6
    <3> HIDE DEF Prefix
    <3> QED BY <3>1
  <2>2. ASSUME NEW n \in 0..(m - 1), n \in Same PROVE n + 1 \in Same
    <3>1. PICK s : s = k[n] /\ Prefix(n, s)
      BY <2>2
    <3>2. PICK x \in X : x = lines[n + 1] /\ x # Blank
      BY <1>0, <1>10
    <3>3. k[n + 1] = Append(s, x)
      BY <1>6, <3>1, <3>2
    <3>4. PICK t : t = Append(s, x)
      OBVIOUS
    <3>5. Prefix(n + 1, t)
      <4>1. /\ t \in Seq(X) /\ Len(t) = n + 1 /\ t[n + 1] = x
            /\ \A i \in 1..n : t[i] = s[i]
        BY <3>1, <3>4
      <4>2. ASSUME NEW i \in 1..(n + 1) PROVE t[i] = lines[i]
        <5>1. CASE i = n + 1
          BY <3>2, <4>1, <5>1
        <5>2. CASE i # n + 1
          <6>1. i \in 1..n
            BY <5>2
          <6> QED BY <3>1, <4>1, <6>1
        <5> QED BY <5>1, <5>2
      <4> QED BY <4>1, <4>2
    <3>6. k[n + 1] = t
      BY <3>3, <3>4
    <3> HIDE DEF Prefix
    <3> QED BY <3>5, <3>6
  <2>3. \A n \in 0..m : n \in Same
    <3> HIDE DEF Same
    <3> QED BY <2>1, <2>2, UpTo
  <2>4. Prefix(m, k[m])
    BY <2>3
  <2>5. PICK u \in Seq(X) : u = k[m]
    BY <2>4
  <2>6. Len(u) = m /\ \A i \in 1..m : u[i] = lines[i]
    BY <2>4, <2>5
  <2>7. u = lines
    BY <1>0, <2>6
  <2> QED BY <2>5, <2>7
<1> QED
  <2> HIDE DEF Y
  <2>1. k[m] \in Y /\ Len(k[m]) <= m /\ Holds(m, k[m])
    BY <1>9
  <2> QED BY <1>0, <1>5, <1>10, <2>1 DEF Y

-----------------------------------------------------------------------------
(* load_fixture *)

\* What is loaded without an error is a sequence of times, and not an empty one.
LEMMA LoadedAreTimes ==
  ASSUME NEW lines \in Seq(Nat \union {Blank, Bad}), Load(lines).error = "none"
  PROVE  Load(lines).events \in Seq(Nat) /\ Load(lines).events # <<>>
<1>1. PICK s : s = Kept(lines)
  OBVIOUS
<1>2. s \in Seq((Nat \union {Blank, Bad}) \ {Blank})
  BY <1>1, KeptLines
<1>3. Load(lines) = IF Contains(s, Bad) THEN [error |-> "corrupt", events |-> <<>>]
                    ELSE [error |-> IF s = <<>> THEN "Empty" ELSE "none", events |-> s]
  BY <1>1 DEF Load
<1>4. ~Contains(s, Bad) /\ s # <<>> /\ Load(lines).events = s
  BY <1>3
<1>5. ASSUME NEW i \in 1..Len(s) PROVE s[i] \in Nat
  <2>1. s[i] # Bad
    BY <1>4 DEF Contains
  <2>2. s[i] \in (Nat \union {Blank, Bad}) \ {Blank}
    BY <1>2
  <2> QED BY <2>1, <2>2
<1>6. s \in Seq(Nat)
  BY <1>2, <1>5
<1> QED BY <1>4, <1>6

\* A whole recording is loaded as it is.
LEMMA WholeFileLoads ==
  ASSUME NEW n \in Nat, NEW lines, lines = [i \in 1..n |-> i] \o <<>>
  PROVE  /\ Len(Load(lines).events) = n
         /\ Load(lines).error = IF n = 0 THEN "Empty" ELSE "none"
<1>1. lines \in Seq(Nat) /\ Len(lines) = n /\ \A i \in 1..n : lines[i] = i
  OBVIOUS
<1>2. Kept(lines) = lines
  <2>1. \A i \in 1..Len(lines) : lines[i] # Blank
    BY <1>1 DEF Blank
  <2> QED BY <1>1, <2>1, KeptLines
<1>3. ~Contains(lines, Bad)
  BY <1>1 DEF Contains, Bad
<1>4. lines = <<>> <=> n = 0
  BY <1>1
<1>5. Load(lines) = [error |-> IF lines = <<>> THEN "Empty" ELSE "none", events |-> lines]
  BY <1>2, <1>3 DEF Load
<1> QED BY <1>1, <1>4, <1>5

\* A recording that ends in the middle of a line is refused.
LEMMA TornFileFails ==
  ASSUME NEW n \in Nat, NEW lines, lines = [i \in 1..n |-> i] \o <<Bad>>
  PROVE  Load(lines) = [error |-> "corrupt", events |-> <<>>]
<1>1. lines \in Seq(Int) /\ Len(lines) = n + 1 /\ lines[n + 1] = Bad
  BY DEF Bad
<1>2. Contains(Kept(lines), Bad)
  <2>1. n + 1 \in 1..Len(lines) /\ lines[n + 1] # Blank
    BY <1>1 DEF Bad, Blank
  <2> QED BY <1>1, <2>1, KeptLines
<1> QED BY <1>2 DEF Load

-----------------------------------------------------------------------------
(* The recorder *)

\* The file keeps up with the writer as long as the writer lives, and the writer can only
\* come to its end when the sink is gone and the channel empty.
RecordInv ==
    /\ RecordTypeOK
    /\ writer \notin {"none", "failed"} => refused = 0
    /\ main = "create" => writer = "none"
    /\ writer = "none" => delivered = 0
    /\ writer \in {"flush", "done"} => queued = 0 /\ main \in {"join", "returned"}
    /\ writer # "failed" => flushed <= written /\ torn = FALSE
    /\ flushed <= delivered
    /\ writer = "done" => flushed = written
    /\ result >= 0 => main = "returned" /\ writer = "done" /\ result = written

\* Nothing is recorded yet.
LEMMA InitRecords == RecordInit => RecordInv
<1> SUFFICES ASSUME RecordInit PROVE RecordInv
  OBVIOUS
<1>1. /\ delivered = 0 /\ queued = 0 /\ refused = 0 /\ written = 0 /\ flushed = 0
      /\ result = -1 /\ main = "create" /\ writer = "none"
  BY DEF RecordInit, S!Init, None
<1>2. RecordTypeOK
  <2>1. torn \in BOOLEAN
    BY DEF RecordInit
  <2>2. /\ result \in {None, Failure} \union Nat
    BY <1>1 DEF None, Failure
  <2>3. delivered = refused + queued + written
    BY <1>1
  <2> QED BY <1>1, <2>1, <2>2, <2>3 DEF RecordTypeOK, MainPositions, WriterPositions
<1>3. flushed <= written /\ torn = FALSE /\ flushed <= delivered
  BY <1>1 DEF RecordInit
<1> QED BY <1>1, <1>2, <1>3 DEF RecordInv

\* What a cut leaves in the file was delivered.
LEMMA CutIsDelivered ==
  ASSUME RecordInv, Cut, writer \in {"recv", "flush"}
  PROVE  flushed' \in 0..(written + 1) /\ flushed' <= delivered /\ torn' \in BOOLEAN
<1>1. /\ written \in Nat /\ queued \in Nat /\ refused \in Nat /\ flushed \in Nat
      /\ delivered = refused + queued + written
  BY DEF RecordInv, RecordTypeOK
<1>2. InHand \in Nat /\ InHand <= written + 1 /\ InHand <= delivered
  BY <1>1 DEF InHand
<1>3. flushed' \in flushed..InHand
  BY DEF Cut
<1>4. torn' \in BOOLEAN
  <2>1. (flushed' < InHand) \in BOOLEAN
    OBVIOUS
  <2>2. torn' = FALSE \/ torn' = (flushed' < InHand)
    BY Zenon DEF Cut
  <2>3. FALSE \in BOOLEAN
    OBVIOUS
  <2> QED BY <2>1, <2>2, <2>3, Zenon
<1> QED BY <1>1, <1>2, <1>3, <1>4

LEMMA StepRecords == RecordInv /\ [RecordNext]_recorderVars => RecordInv'
<1> SUFFICES ASSUME RecordInv, [RecordNext]_recorderVars PROVE RecordInv'
  OBVIOUS
<1> USE DEF RecordInv, RecordTypeOK, MainPositions, WriterPositions, sourceVars, channelVars,
            fileVars, None, Failure
<1>1. CASE Sink
  BY <1>1 DEF Sink, S!Deliver, ReceiverUp
<1>2. CASE Create
  <2>1. /\ main = "create" /\ UNCHANGED <<delivered, queued, refused, written, flushed, torn>>
        /\ writer = "none" /\ refused = 0 /\ queued = 0 /\ written = 0
    BY <1>2 DEF Create
  <2>2. CASE main' = "ingest" /\ writer' = "recv" /\ UNCHANGED result
    <3>1. refused = 0 /\ flushed <= written /\ torn = FALSE
      BY <2>1
    <3> QED BY <2>1, <2>2, <3>1
  <2>3. CASE main' = "returned" /\ result' = Failure /\ UNCHANGED writer
    BY <2>1, <2>3
  <2> QED BY <1>2, <2>2, <2>3 DEF Create
<1>3. CASE IngestReturns
  BY <1>3 DEF IngestReturns, S!Return, S!ReturnError
<1>4. CASE DropSender
  BY <1>4 DEF DropSender
<1>5. CASE Join
  BY <1>5 DEF Join, Reported
<1>6. CASE Write
  BY <1>6 DEF Write, Spilled
<1>7. CASE WriteFails
  <2>1. flushed' \in 0..(written + 1) /\ flushed' <= delivered /\ torn' \in BOOLEAN
    BY <1>7, CutIsDelivered DEF WriteFails
  <2> QED BY <1>7, <2>1 DEF WriteFails
<1>8. CASE EndOfChannel
  BY <1>8 DEF EndOfChannel, SenderDropped
<1>9. CASE Flush
  <2>1. CASE writer' = "done" /\ flushed' = written /\ UNCHANGED torn
    BY <1>9, <2>1 DEF Flush
  <2>2. CASE writer' = "failed" /\ Cut
    <3>1. flushed' \in 0..(written + 1) /\ flushed' <= delivered /\ torn' \in BOOLEAN
      BY <1>9, <2>2, CutIsDelivered DEF Flush
    <3> QED BY <1>9, <2>2, <3>1 DEF Flush
  <2> QED BY <1>9, <2>1, <2>2 DEF Flush
<1>10. CASE TimeIsUp
  BY <1>10 DEF TimeIsUp, S!Cancel
<1>11. CASE Crash
  <2>1. flushed' \in 0..(written + 1) /\ flushed' <= delivered /\ torn' \in BOOLEAN
    <3>1. CASE writer \in {"recv", "flush"}
      BY <1>11, <3>1, CutIsDelivered DEF Crash
    <3>2. CASE writer \notin {"recv", "flush"}
      BY <1>11, <3>2 DEF Crash
    <3> QED BY <3>1, <3>2
  <2> QED BY <1>11, <2>1 DEF Crash
<1>12. CASE UNCHANGED recorderVars
  BY <1>12 DEF recorderVars
<1> QED
  BY <1>1, <1>2, <1>3, <1>4, <1>5, <1>6, <1>7, <1>8, <1>9, <1>10, <1>11, <1>12
  DEF RecordNext, MainStep, WriterStep

\* However many events come, wherever a write fails and whenever the process dies: the
\* count that record returns is that of the events delivered, and load_fixture finds all
\* of them; after a failure it finds nothing that was not delivered, and refuses a file
\* that ends in the middle of an event.
THEOREM RecordingIsTrustworthy == RecordSpec => []RecordingLoads
<1>1. RecordInit => RecordInv
  BY InitRecords
<1>2. RecordInv /\ [RecordNext]_recorderVars => RecordInv'
  BY StepRecords
<1>3. RecordInv => RecordingLoads
  <2> SUFFICES ASSUME RecordInv PROVE RecordingLoads
    OBVIOUS
  <2>0. flushed \in Nat /\ delivered \in Nat /\ flushed <= delivered /\ torn \in BOOLEAN
    BY DEF RecordInv, RecordTypeOK
  <2>1. PICK lines : lines = File
    OBVIOUS
  <2>2. PICK n \in Nat : n = flushed
    BY <2>0
  <2>3. result >= 0 => ~torn /\ result = delivered /\ n = delivered
    BY <2>2 DEF RecordInv, RecordTypeOK
  <2>4. CASE torn
    <3>1. lines = [i \in 1..n |-> i] \o <<Bad>>
      BY <2>1, <2>2, <2>4 DEF File
    <3>2. Load(lines) = [error |-> "corrupt", events |-> <<>>]
      BY <3>1, TornFileFails
    <3> QED BY <2>0, <2>1, <2>3, <2>4, <3>2 DEF RecordingLoads, RecordInv
  <2>5. CASE ~torn
    <3>1. lines = [i \in 1..n |-> i] \o <<>>
      BY <2>1, <2>2, <2>5 DEF File
    <3>2. /\ Len(Load(lines).events) = n
          /\ Load(lines).error = IF n = 0 THEN "Empty" ELSE "none"
      BY <3>1, WholeFileLoads
    <3> QED BY <2>0, <2>1, <2>2, <2>3, <2>5, <3>2 DEF RecordingLoads, RecordInv
  <2> QED BY <2>4, <2>5
<1> QED
  BY <1>1, <1>2, <1>3, PTL DEF RecordSpec

-----------------------------------------------------------------------------
(* The replay server *)

\* A quotient of a negative number by a positive one is negative.
LEMMA NegativeQuotient ==
  ASSUME NEW n \in Int, NEW d \in Nat, n <= 0, d # 0
  PROVE  n \div d <= 0
  OBVIOUS

\* The time awaited is not before the recorded one, also when the times go back.
LEMMA DueIsLate ==
  ASSUME rate \in Nat, rate # RateMax, NEW i, NEW from \in Nat, events[i] \in Nat,
         NEW now \in Nat, now >= Due(i, from)
  PROVE  now >= ((events[i] - from) * 10) \div rate
<1>1. PICK e, r \in Nat : e = events[i] /\ r = rate /\ r # 0
  BY DEF RateMax
<1>2. Due(i, from) = (Max({e - from, 0}) * 10) \div r
  BY <1>1 DEF Due, RateMax
<1>3. CASE e - from >= 0
  <2>1. Max({e - from, 0}) = e - from
    BY <1>3 DEF Max
  <2> QED BY <1>1, <1>2, <2>1
<1>4. CASE e - from < 0
  <2>1. PICK n \in Int : n = (e - from) * 10 /\ n <= 0
    BY <1>4
  <2>2. n \div r <= 0 /\ n \div r \in Int
    BY <1>1, <2>1, NegativeQuotient
  <2> QED BY <1>1, <2>1, <2>2
<1> QED BY <1>3, <1>4

\* When an event was recorded, counted from the first one and divided by the rate.
LEMMA RecordedTimeIsInteger ==
  ASSUME events \in Seq(Nat), events # <<>>, NEW i \in 1..Len(events),
         rate \in Nat, rate # RateMax
  PROVE  ((events[i] - Head(events)) * 10) \div rate \in Int
<1>1. PICK e, h \in Nat : e = events[i] /\ h = Head(events)
  <2>1. events[i] \in Nat /\ Head(events) \in Nat
    OBVIOUS
  <2> QED BY <2>1
<1>2. ((e - h) * 10) \div rate \in Int
  BY DEF RateMax
<1> QED BY <1>1, <1>2

\* The events of the pass so far have been due.
Paced(c) ==
    \A i \in 1..(idx[c] - 1) :
        rate # RateMax => age[c] >= ((events[i] - Head(events)) * 10) \div rate

\* A stream that is open counts the time from the start of its pass, and from the first
\* event of the fixture.
StreamInv(c) ==
    /\ conn[c] # "none" => server \in {"serving", "draining", "returned"}
    /\ conn[c] = "none" => idx[c] = 1 /\ last[c] = 0
    /\ conn[c] = "asleep" => idx[c] <= Len(events)
    /\ Open(c) => offset[c] = Head(events)
    /\ Paced(c)

ReplayInv ==
    /\ TypeOK
    /\ rate \in Nat
    /\ file \in Seq(Nat \union {Blank, Bad})
    /\ passAge = age
    /\ \A c \in Clients : StreamInv(c)

\* Nobody is connected, and nothing is loaded.
LEMMA InitReplays == Init => ReplayInv
<1> SUFFICES ASSUME Init PROVE ReplayInv
  OBVIOUS
<1>1. TypeOK
  <2>1. events \in Seq(Nat) /\ Len(events) = 0
    BY DEF Init
  <2>2. /\ idx \in [Clients -> 1..(Len(events) + 1)]
        /\ last \in [Clients -> 0..Len(events)]
    BY <2>1 DEF Init
  <2>3. /\ age \in [Clients -> 0..MaxAge] /\ passAge \in [Clients -> 0..MaxAge]
        /\ offset \in [Clients -> Nat]
        /\ conn \in [Clients -> {"none", "ready", "asleep", "closed"}]
    BY ReplayAssumption DEF Init
  <2> QED BY <2>1, <2>2, <2>3 DEF Init, TypeOK
<1>2. rate \in Nat /\ file \in Seq(Nat \union {Blank, Bad})
  BY ReplayAssumption DEF Init
<1>3. ASSUME NEW c \in Clients PROVE StreamInv(c)
  BY DEF Init, StreamInv, Paced, Open
<1>4. passAge = age
  BY DEF Init
<1> QED BY <1>1, <1>2, <1>3, <1>4 DEF ReplayInv

\* What a step leaves of a stream that it does not touch.
LEMMA OthersStay ==
  ASSUME NEW c \in Clients, StreamInv(c), UNCHANGED config,
         conn'[c] = conn[c], idx'[c] = idx[c], age'[c] = age[c], offset'[c] = offset[c],
         last'[c] = last[c],
         conn[c] # "none" => server' \in {"serving", "draining", "returned"}
  PROVE  StreamInv(c)'
  BY DEF StreamInv, Paced, Open, config

\* The types that a step of a stream must keep, given that the server does not move.
LEMMA TypesStay ==
  ASSUME ReplayInv, UNCHANGED <<config, token, server>>,
         conn' \in [Clients -> {"none", "ready", "asleep", "closed"}],
         idx' \in [Clients -> 1..(Len(events) + 1)],
         age' \in [Clients -> 0..MaxAge],
         offset' \in [Clients -> Nat],
         passAge' = age',
         last' \in [Clients -> 0..Len(events)],
         server = "returned" => \A c \in Clients : ~Open(c)',
         \A c \in Clients : StreamInv(c)'
  PROVE  ReplayInv'
  BY DEF ReplayInv, TypeOK, config

\* Only the server and the token move.
LEMMA ServerSteps ==
  ASSUME ReplayInv, Start \/ Cancel \/ BeginShutdown \/ Return
  PROVE  ReplayInv'
<1> USE DEF ReplayInv
<1>1. CASE Start
  <2>1. \A c \in Clients : conn[c] = "none" /\ idx[c] = 1 /\ last[c] = 0
    BY <1>1 DEF Start, StreamInv, TypeOK
  <2>2. /\ UNCHANGED <<file, rate, token, conn, idx, age, offset, passAge, last>>
        /\ server' \in {"serving", "failed"}
    BY <1>1 DEF Start, streamVars
  <2>3. events' \in Seq(Nat) /\ (server' = "serving" => events' # <<>>)
    <3>1. CASE Load(file).error = "none" /\ events' = Load(file).events
      BY <3>1, LoadedAreTimes
    <3>2. CASE server' = "failed" /\ UNCHANGED events
      BY <3>2 DEF TypeOK
    <3> QED BY <1>1, <3>1, <3>2 DEF Start
  <2>4. Len(events') \in Nat
    BY <2>3
  <2>5. idx \in [Clients -> 1..(Len(events') + 1)] /\ last \in [Clients -> 0..Len(events')]
    BY <2>1, <2>4 DEF TypeOK
  <2>6. TypeOK'
    BY <2>2, <2>3, <2>5 DEF TypeOK
  <2>7. ASSUME NEW c \in Clients PROVE StreamInv(c)'
    BY <2>1, <2>2 DEF StreamInv, Paced, Open
  <2> QED BY <2>2, <2>6, <2>7
<1>2. CASE Cancel \/ BeginShutdown \/ Return
  <2>1. /\ UNCHANGED <<config, conn, idx, age, offset, passAge, last>>
        /\ token' \in BOOLEAN
        /\ server' \in {server, "draining", "returned"}
        /\ server' # server => server \in {"serving", "draining"}
        /\ server' = "returned" => server = "returned" \/ Drained
    BY <1>2 DEF Cancel, BeginShutdown, Return, streamVars, TypeOK
  <2>2. TypeOK'
    BY <2>1 DEF TypeOK, config, Open, Drained
  <2>3. ASSUME NEW c \in Clients PROVE StreamInv(c)'
    BY <2>1, OthersStay DEF StreamInv
  <2> QED BY <2>1, <2>2, <2>3 DEF config
<1> QED BY <1>1, <1>2

LEMMA StreamSteps ==
  ASSUME ReplayInv, NEW c \in Clients, Connect(c) \/ StreamStep(c) \/ Disconnect(c) \/ Tick(c)
  PROVE  ReplayInv'
<1>0. /\ events \in Seq(Nat) /\ Len(events) \in Nat /\ rate \in Nat /\ MaxAge \in Nat
      /\ conn \in [Clients -> {"none", "ready", "asleep", "closed"}]
      /\ idx \in [Clients -> 1..(Len(events) + 1)]
      /\ age \in [Clients -> 0..MaxAge]
      /\ offset \in [Clients -> Nat]
      /\ passAge = age
      /\ last \in [Clients -> 0..Len(events)]
      /\ server \in {"serving", "draining", "returned"} => events # <<>>
      /\ server = "returned" => \A d \in Clients : ~Open(d)
      /\ \A d \in Clients : StreamInv(d)
  BY ReplayAssumption DEF ReplayInv, TypeOK
<1>1. CASE Connect(c)
  <2>1. /\ server = "serving" /\ conn[c] = "none"
        /\ conn' = [conn EXCEPT ![c] = "ready"]
        /\ offset' = [offset EXCEPT ![c] = Head(events)]
        /\ UNCHANGED <<config, token, server, idx, age, passAge, last>>
    BY <1>1 DEF Connect
  <2>2. Head(events) \in Nat
    BY <1>0, <2>1
  <2>3. ASSUME NEW d \in Clients PROVE StreamInv(d)'
    <3>1. CASE d = c
      BY <1>0, <2>1, <3>1 DEF StreamInv, Paced, Open, config
    <3>2. CASE d # c
      BY <1>0, <2>1, <3>2, OthersStay DEF StreamInv
    <3> QED BY <3>1, <3>2
  <2> QED BY <1>0, <2>1, <2>2, <2>3, TypesStay
<1>2. CASE Restart(c)
  <2>1. /\ conn[c] = "ready"
        /\ idx' = [idx EXCEPT ![c] = 1]
        /\ age' = [age EXCEPT ![c] = 0]
        /\ offset' = [offset EXCEPT ![c] = Head(events)]
        /\ passAge' = [passAge EXCEPT ![c] = 0]
        /\ UNCHANGED <<config, token, server, conn, last>>
    BY <1>2 DEF Restart, First, Anchor
  <2>2. Head(events) \in Nat
    BY <1>0, <2>1 DEF StreamInv
  <2>3. ASSUME NEW d \in Clients PROVE StreamInv(d)'
    <3>1. CASE d = c
      BY <1>0, <2>1, <3>1 DEF StreamInv, Paced, Open, config
    <3>2. CASE d # c
      BY <1>0, <2>1, <3>2, OthersStay DEF StreamInv
    <3> QED BY <3>1, <3>2
  <2>4. \A d \in Clients : Open(d)' <=> Open(d)
    BY <2>1 DEF Open
  <2> QED BY <1>0, <2>1, <2>2, <2>3, <2>4, TypesStay
<1>3. CASE Sleep(c) \/ Disconnect(c)
  <2>1. /\ Open(c)
        /\ \/ conn' = [conn EXCEPT ![c] = "asleep"] /\ idx[c] <= Len(events)
           \/ conn' = [conn EXCEPT ![c] = "closed"]
        /\ UNCHANGED <<config, token, server, idx, age, offset, passAge, last>>
    BY <1>3 DEF Sleep, Disconnect, streamVars, Open
  <2>2. conn' \in [Clients -> {"none", "ready", "asleep", "closed"}]
    BY <1>0, <2>1
  <2>3. conn'[c] \in {"asleep", "closed"} /\ \A d \in Clients : d # c => conn'[d] = conn[d]
    BY <1>0, <2>1
  <2>4. conn'[c] = "asleep" => idx[c] <= Len(events)
    BY <1>0, <2>1
  <2>5. ASSUME NEW d \in Clients PROVE StreamInv(d)'
    <3>1. CASE d = c
      BY <1>0, <2>1, <2>3, <2>4, <3>1 DEF StreamInv, Paced, Open, config
    <3>2. CASE d # c
      BY <1>0, <2>1, <2>3, <3>2, OthersStay DEF StreamInv
    <3> QED BY <3>1, <3>2
  <2>6. server # "returned"
    BY <1>0, <2>1
  <2> QED BY <1>0, <2>1, <2>2, <2>5, <2>6, TypesStay
<1>4. CASE Emit(c)
  <2>1. /\ conn[c] = "asleep"
        /\ age[c] >= Due(idx[c], offset[c])
        /\ last' = [last EXCEPT ![c] = idx[c]]
        /\ idx' = [idx EXCEPT ![c] = idx[c] + 1]
        /\ conn' = [conn EXCEPT ![c] = "ready"]
        /\ UNCHANGED <<config, token, server, age, offset, passAge>>
    BY <1>4 DEF Emit
  <2>2. idx[c] \in 1..Len(events) /\ offset[c] = Head(events) /\ Paced(c)
    BY <1>0, <2>1 DEF StreamInv, Open
  <2>3. PICK k \in 1..Len(events) : k = idx[c]
    BY <2>2
  <2>4. events[k] \in Nat /\ offset[c] \in Nat /\ age[c] \in Nat
    BY <1>0, <2>3
  <2>5. rate # RateMax => age[c] >= ((events[k] - Head(events)) * 10) \div rate
    BY <1>0, <2>1, <2>2, <2>3, <2>4, DueIsLate
  <2>6. Paced(c)'
    <3>1. idx'[c] = k + 1 /\ UNCHANGED <<events, rate, age>>
      BY <1>0, <2>1, <2>3 DEF config
    <3>2. ASSUME NEW i \in 1..(idx'[c] - 1), rate # RateMax
          PROVE  age[c] >= ((events[i] - Head(events)) * 10) \div rate
      <4>1. i = k \/ i \in 1..(idx[c] - 1)
        BY <2>3, <3>1
      <4> QED BY <2>2, <2>5, <3>2, <4>1 DEF Paced
    <3> QED BY <3>1, <3>2 DEF Paced
  <2>7. ASSUME NEW d \in Clients PROVE StreamInv(d)'
    <3>1. CASE d = c
      BY <1>0, <2>1, <2>2, <2>6, <3>1 DEF StreamInv, Open, config
    <3>2. CASE d # c
      BY <1>0, <2>1, <3>2, OthersStay DEF StreamInv
    <3> QED BY <3>1, <3>2
  <2>8. server # "returned"
    BY <1>0, <2>1 DEF Open
  <2>9. /\ last' \in [Clients -> 0..Len(events)] /\ idx' \in [Clients -> 1..(Len(events) + 1)]
        /\ conn' \in [Clients -> {"none", "ready", "asleep", "closed"}]
    BY <1>0, <2>1, <2>2
  <2> QED BY <1>0, <2>1, <2>7, <2>8, <2>9, TypesStay
<1>5. CASE Tick(c)
  <2>1. /\ Open(c)
        /\ age[c] < MaxAge
        /\ age' = [age EXCEPT ![c] = age[c] + 1]
        /\ passAge' = [passAge EXCEPT ![c] = Min({passAge[c] + 1, MaxAge})]
        /\ UNCHANGED <<config, token, server, conn, idx, offset, last>>
    BY <1>5 DEF Tick, Open
  <2>2. Min({passAge[c] + 1, MaxAge}) = age[c] + 1
    <3>1. PICK a \in Nat : a = age[c] /\ a < MaxAge
      BY <1>0, <2>1
    <3>2. Min({a + 1, MaxAge}) = a + 1
      BY <1>0, <3>1 DEF Min
    <3> QED BY <1>0, <3>1, <3>2
  <2>3. age' \in [Clients -> 0..MaxAge] /\ passAge' = age'
    <3>1. PICK a \in 0..MaxAge : a = age[c] + 1
      BY <1>0, <2>1
    <3>2. age' = [age EXCEPT ![c] = a] /\ passAge' = [passAge EXCEPT ![c] = a]
      BY <2>1, <2>2, <3>1
    <3> QED BY <1>0, <3>1, <3>2
  <2>4. ASSUME NEW d \in Clients PROVE StreamInv(d)'
    <3>1. CASE d = c
      <4>1. Paced(c)'
        <5>1. ASSUME NEW i \in 1..(idx[c] - 1), rate # RateMax
              PROVE  age'[c] >= ((events[i] - Head(events)) * 10) \div rate
          <6>1. PICK q \in Int : q = ((events[i] - Head(events)) * 10) \div rate
            <7>1. events # <<>> /\ idx[c] \in 1..(Len(events) + 1)
              BY <1>0, <2>1 DEF StreamInv, Open
            <7>2. i \in 1..Len(events)
              BY <1>0, <5>1, <7>1
            <7> QED BY <1>0, <5>1, <7>1, <7>2, RecordedTimeIsInteger
          <6>2. age[c] >= q
            BY <1>0, <5>1, <6>1 DEF StreamInv, Paced
          <6>3. age[c] \in Nat /\ age'[c] = age[c] + 1
            BY <1>0, <2>1
          <6>4. age'[c] >= q
            BY <6>2, <6>3
          <6> QED BY <6>1, <6>4
        <5> QED BY <2>1, <5>1 DEF Paced, config
      <4> QED BY <1>0, <2>1, <3>1, <4>1 DEF StreamInv, Open, config
    <3>2. CASE d # c
      BY <1>0, <2>1, <3>2, OthersStay DEF StreamInv
    <3> QED BY <3>1, <3>2
  <2>5. server # "returned"
    BY <1>0, <2>1
  <2> QED BY <1>0, <2>1, <2>3, <2>4, <2>5, TypesStay
<1> QED BY <1>1, <1>2, <1>3, <1>4, <1>5 DEF StreamStep

LEMMA StepReplays == ReplayInv /\ [Next]_replayVars => ReplayInv'
<1>1. ASSUME ReplayInv, Next PROVE ReplayInv'
  BY <1>1, ServerSteps, StreamSteps DEF Next, ServerStep
<1>2. ASSUME ReplayInv, UNCHANGED replayVars PROVE ReplayInv'
  <2>1. UNCHANGED <<config, token, server, conn, idx, age, offset, passAge, last>>
    BY <1>2 DEF replayVars, streamVars
  <2>2. ASSUME NEW c \in Clients PROVE StreamInv(c)'
    BY <1>2, <2>1, OthersStay DEF ReplayInv, StreamInv
  <2>3. TypeOK'
    BY <1>2, <2>1 DEF ReplayInv, TypeOK, Open, config
  <2> QED BY <1>2, <2>1, <2>2, <2>3 DEF ReplayInv, config
<1> QED BY <1>1, <1>2

\* Whatever is in the fixture, at any rate, for any number of clients that come, dawdle
\* and go, and in whatever pass: no event is sent before its recorded time, divided by
\* the rate; only a good fixture is served, and serve returns without a connection.
THEOREM ReplayIsNeverEarly == Spec => []NeverEarly
<1>1. Init => ReplayInv
  BY InitReplays
<1>2. ReplayInv /\ [Next]_replayVars => ReplayInv'
  BY StepReplays
<1>3. ReplayInv => NeverEarly
  BY DEF ReplayInv, StreamInv, Paced, NeverEarly
<1> QED
  BY <1>1, <1>2, <1>3, PTL DEF Spec
=============================================================================
