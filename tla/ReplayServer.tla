----------------------------- MODULE ReplayServer -----------------------------
(***************************************************************************)
(* serve and replay_stream of crates/rts-replay/src/play.rs: the fixture   *)
(* is loaded once; every client gets its own stream, which loops over the  *)
(* events and paces them by the recorded offsets; a cancelled token starts *)
(* a graceful shutdown.  Time is a clock per stream, read against the      *)
(* anchor of the present pass.  A rate is a number of tenths, or RateMax.  *)
(***************************************************************************)
EXTENDS Fixture

CONSTANTS
    Clients,
    Files,         \* the fixtures looked at: sequences of lines, as in Fixture
    Rates,         \* the rates looked at
    MaxAge         \* bound: age at which the clock of a stream stops

RateMax == 0

ASSUME ReplayAssumption ==
    /\ Files \subseteq Seq(Nat \union {Blank, Bad})
    /\ Rates \subseteq Nat
    /\ MaxAge \in Nat

VARIABLES
    file,          \* the lines of the fixture, never changed
    rate,          \* the rate, never changed
    events,        \* recv_ns of the loaded events
    token,         \* the CancellationToken
    server,        \* "loading", "serving", "draining", "returned" or "failed"
    conn,          \* a client: "none", "ready" (asks for an event), "asleep", "closed"
    idx,           \* its next event
    age,           \* time since loop_start
    offset,        \* loop_offset_ns
    passAge,       \* history: time since the pass really began
    last           \* history: the event it got last, or 0

config == <<file, rate, events>>
streamVars == <<idx, age, offset, passAge, last>>
replayVars == <<config, token, server, conn, streamVars>>

Init ==
    /\ file \in Files
    /\ rate \in Rates
    /\ events = <<>>
    /\ token = FALSE
    /\ server = "loading"
    /\ conn = [c \in Clients |-> "none"]
    /\ idx = [c \in Clients |-> 1]
    /\ age = [c \in Clients |-> 0]
    /\ offset = [c \in Clients |-> 0]
    /\ passAge = [c \in Clients |-> 0]
    /\ last = [c \in Clients |-> 0]

\* The file is read and the listener bound; both may fail, and nobody looks at the token.
Start ==
    /\ server = "loading"
    /\ \/ /\ Load(file).error = "none"
          /\ events' = Load(file).events
          /\ server' = "serving"
       \/ server' = "failed" /\ UNCHANGED events
    /\ UNCHANGED <<file, rate, token, conn, streamVars>>

Connect(c) ==
    /\ server = "serving"
    /\ conn[c] = "none"
    /\ conn' = [conn EXCEPT ![c] = "ready"]
    /\ offset' = [offset EXCEPT ![c] = Head(events)]
    /\ UNCHANGED <<config, token, server, idx, age, passAge, last>>

\* When an event of a pass is due, in the time of its anchor.
Due(i, from) ==
    IF rate = RateMax THEN 0 ELSE (Max({events[i] - from, 0}) * 10) \div rate

\* Mutant: the anchor of the pass before is kept.
MutantAnchor(c) == UNCHANGED age

\* The anchor is the present.
Anchor(c) == age' = [age EXCEPT ![c] = 0]

\* Mutant: the pass begins behind the first event.
MutantFirst == 2

First == 1

\* The stream is polled at the end of the fixture: it starts again from the top.
Restart(c) ==
    /\ conn[c] = "ready"
    /\ idx[c] > Len(events)
    /\ idx' = [idx EXCEPT ![c] = First]
    /\ Anchor(c)
    /\ offset' = [offset EXCEPT ![c] = Head(events)]
    /\ passAge' = [passAge EXCEPT ![c] = 0]
    /\ UNCHANGED <<config, token, server, conn, last>>

\* The next event is chosen and its time is awaited.
Sleep(c) ==
    /\ conn[c] = "ready"
    /\ idx[c] <= Len(events)
    /\ conn' = [conn EXCEPT ![c] = "asleep"]
    /\ UNCHANGED <<config, token, server, streamVars>>

Emit(c) ==
    /\ conn[c] = "asleep"
    /\ age[c] >= Due(idx[c], offset[c])
    /\ last' = [last EXCEPT ![c] = idx[c]]
    /\ idx' = [idx EXCEPT ![c] = @ + 1]
    /\ conn' = [conn EXCEPT ![c] = "ready"]
    /\ UNCHANGED <<config, token, server, age, offset, passAge>>

\* The client goes away.
Disconnect(c) ==
    /\ conn[c] \in {"ready", "asleep"}
    /\ conn' = [conn EXCEPT ![c] = "closed"]
    /\ UNCHANGED <<config, token, server, streamVars>>

\* Time passes for a stream, whether it sleeps or its client is slow to ask.
Tick(c) ==
    /\ conn[c] \in {"ready", "asleep"}
    /\ age[c] < MaxAge
    /\ age' = [age EXCEPT ![c] = @ + 1]
    /\ passAge' = [passAge EXCEPT ![c] = Min({@ + 1, MaxAge})]
    /\ UNCHANGED <<config, token, server, conn, idx, offset, last>>

Cancel ==
    /\ ~token
    /\ token' = TRUE
    /\ UNCHANGED <<config, server, conn, streamVars>>

\* The graceful shutdown accepts nobody any more ...
BeginShutdown ==
    /\ server = "serving"
    /\ token
    /\ server' = "draining"
    /\ UNCHANGED <<config, token, conn, streamVars>>

\* Mutant: a closed connection still counts.
MutantLeaked == \A c \in Clients : conn[c] = "none"

\* ... and waits for the responses in flight.
Drained == \A c \in Clients : conn[c] \in {"none", "closed"}

Return ==
    /\ server = "draining"
    /\ Drained
    /\ server' = "returned"
    /\ UNCHANGED <<config, token, conn, streamVars>>

StreamStep(c) == Restart(c) \/ Sleep(c) \/ Emit(c)
ServerStep == Start \/ BeginShutdown \/ Return

Next ==
    \/ \E c \in Clients : Connect(c) \/ StreamStep(c) \/ Disconnect(c) \/ Tick(c)
    \/ Cancel
    \/ ServerStep

Spec == Init /\ [][Next]_replayVars

(***************************************************************************)
(* The runtime polls the streams and the server, and time passes.  Clients *)
(* need not come, and need not go.                                         *)
(***************************************************************************)
Fairness ==
    /\ WF_replayVars(ServerStep)
    /\ \A c \in Clients : WF_replayVars(StreamStep(c)) /\ WF_replayVars(Tick(c))

FairSpec == Spec /\ Fairness
-----------------------------------------------------------------------------
(* Properties *)

Open(c) == conn[c] \in {"ready", "asleep"}

\* Every variable has its type, only a good fixture is served, and a server that has
\* returned has no connection.
TypeOK ==
    /\ token \in BOOLEAN
    /\ server \in {"loading", "serving", "draining", "returned", "failed"}
    /\ events \in Seq(Nat)
    /\ server \in {"serving", "draining", "returned"} => events # <<>>
    /\ conn \in [Clients -> {"none", "ready", "asleep", "closed"}]
    /\ idx \in [Clients -> 1..(Len(events) + 1)]
    /\ age \in [Clients -> 0..MaxAge]
    /\ offset \in [Clients -> Nat]
    /\ passAge \in [Clients -> 0..MaxAge]
    /\ last \in [Clients -> 0..Len(events)]
    /\ server = "returned" => \A c \in Clients : ~Open(c)

\* The types hold.  Module documentation: the recorded gaps are honoured, divided by the
\* rate.  Whatever the pass, no event is sent before its time, counted from the start of
\* the pass.
NeverEarly ==
    /\ TypeOK
    /\ \A c \in Clients : \A i \in 1..(idx[c] - 1) :
          rate # RateMax => passAge[c] >= ((events[i] - Head(events)) * 10) \div rate

\* A client that stays connected and keeps reading (the fairness of StreamStep says that it
\* does) gets every line of the fixture that holds an event, over and over: each is followed
\* by the next, the last one by the first.
Streams ==
    \A c \in Clients : \A i \in 1..Max({Len(f) : f \in Files}) :
        (Open(c) /\ last[c] = i) ~> (~Open(c) \/ last[c] = (i % Len(events)) + 1)

\* serve returns after the cancel once its clients have left.  No stream looks at the
\* token, so a client that stays keeps serve from returning.
ReturnsOnceAlone ==
    <>token /\ <>[](\A c \in Clients : ~Open(c)) => <>(server \in {"returned", "failed"})
=============================================================================
