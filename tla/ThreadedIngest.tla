---------------------------- MODULE ThreadedIngest ----------------------------
(***************************************************************************)
(* run_sse and read_stream of crates/rts-threaded/src/ingest.rs: a thread  *)
(* that blocks on the lines of a connection, frames them into payloads,    *)
(* and looks at an atomic flag between two lines; the touch of the         *)
(* watchdog in the sink (parser.rs) and the watchdog's own thread.         *)
(* A data line is known by its place in the connection.                    *)
(***************************************************************************)
EXTENDS EventSource, Sequences, FiniteSetsExt

CONSTANTS
    Limits,         \* the limits looked at
    MaxBackoff,     \* the cap of the back-off, in units of its first value
    StaleTicks,     \* the stale window of the watchdog
    Width,          \* the number of values of the watchdog's clock
    MaxData,        \* bound: data lines over one connection
    MaxTime         \* bound: the time at which the watchdog's clock stops

ASSUME ThreadedIngestAssumption ==
    /\ Limits \subseteq Nat \union {NoLimit}
    /\ MaxBackoff \in Nat \ {0}
    /\ StaleTicks \in Nat
    /\ Width \in Nat \ {0}
    /\ MaxData \in Nat
    /\ MaxTime \in 0..(Width - 1)

VARIABLES
    pc,             \* where the thread is
    backoff,        \* the next wait
    line,           \* what the last read gave
    buf,            \* data_buf
    connection,     \* history: the data lines that came over this connection
    blockStart,     \* history: how many of them came before this event block
    clock, last_ns, stamp, checker, now     \* the watchdog

W == INSTANCE Watchdog

runVars == <<pc, backoff, line, buf>>
wireVars == <<connection, blockStart>>
watchVars == <<clock, last_ns, stamp, checker, now>>
ingestVars == <<sourceVars, runVars, wireVars, watchVars>>

Lines == {"data", "blank", "other", "failure"}

Positions == {"top", "limit", "connect", "read", "line", "sink", "touch", "ended", "failed",
              "sleep", "returned"}

IngestInit ==
    /\ limit \in Limits
    /\ Init
    /\ pc = "top"
    /\ backoff = 1
    /\ line = "other"
    /\ buf = <<>>
    /\ connection = 0 /\ blockStart = 0
    /\ W!Init

-----------------------------------------------------------------------------
(* run_sse.  The Mutant operators are faults that the properties below must   *)
(* notice.                                                                    *)

ReturnCancelled ==
    /\ pc \in {"top", "ended", "failed"}
    /\ cancel
    /\ pc' = "returned"
    /\ outcome' = "cancelled"
    /\ UNCHANGED <<limit, delivered, cancel, late, backoff, line, buf, wireVars, watchVars>>

TopNotCancelled ==
    /\ pc = "top"
    /\ ~cancel
    /\ pc' = "limit"
    /\ UNCHANGED <<sourceVars, backoff, line, buf, wireVars, watchVars>>

\* Only a limit of 0 is reached here: read_stream notices any other.
CheckLimit ==
    /\ pc = "limit"
    /\ pc' = IF Enough(delivered) THEN "returned" ELSE "connect"
    /\ outcome' = IF Enough(delivered) THEN "limit" ELSE outcome
    /\ UNCHANGED <<limit, delivered, cancel, late, backoff, line, buf, wireVars, watchVars>>

\* read_stream came back without an error.
ReturnEnded ==
    /\ pc = "ended"
    /\ ~cancel
    /\ pc' = "returned"
    /\ outcome' = "limit"
    /\ UNCHANGED <<limit, delivered, cancel, late, backoff, line, buf, wireVars, watchVars>>

BackOff ==
    /\ pc = "failed"
    /\ ~cancel
    /\ pc' = "sleep"
    /\ UNCHANGED <<sourceVars, backoff, line, buf, wireVars, watchVars>>

Doubled == Min({backoff * 2, MaxBackoff})

\* The sleep is not interrupted by the flag.
WakeUp ==
    /\ pc = "sleep"
    /\ backoff' = Doubled
    /\ pc' = "top"
    /\ UNCHANGED <<sourceVars, line, buf, wireVars, watchVars>>

-----------------------------------------------------------------------------
(* read_stream *)

\* Mutant: the lines of the connection before are kept.
MutantFreshBuffer == UNCHANGED buf

FreshBuffer == buf' = <<>>

Connected ==
    /\ pc = "connect"
    /\ FreshBuffer
    /\ connection' = 0
    /\ blockStart' = 0
    /\ pc' = "read"
    /\ UNCHANGED <<sourceVars, backoff, line, watchVars>>

Refused ==
    /\ pc = "connect"
    /\ pc' = "failed"
    /\ UNCHANGED <<sourceVars, backoff, line, buf, wireVars, watchVars>>

\* The blocking read yields a line, or fails: the connection breaks, or 30 s pass.
Read(l) ==
    /\ pc = "read"
    /\ line' = l
    /\ pc' = "line"
    /\ \/ l = "data" /\ connection < MaxData /\ connection' = connection + 1
       \/ l # "data" /\ UNCHANGED connection
    /\ UNCHANGED <<sourceVars, backoff, buf, blockStart, watchVars>>

EndOfStream ==
    /\ pc = "read"
    /\ pc' = "ended"
    /\ UNCHANGED <<sourceVars, backoff, line, buf, wireVars, watchVars>>

\* The flag first, ...
LineCancelled ==
    /\ pc = "line"
    /\ cancel
    /\ pc' = "ended"
    /\ UNCHANGED <<sourceVars, backoff, line, buf, wireVars, watchVars>>

\* Mutant: off by one.
MutantLineAllowed == ~cancel /\ ~Enough(delivered - 1)

\* Mutant: the flag is looked at between two connections only.
MutantFlagBlind == ~Enough(delivered)

LineAllowed == ~cancel /\ ~Enough(delivered)

\* ... then the limit, with the line that was read in vain, ...
LineOverLimit ==
    /\ pc = "line"
    /\ ~cancel
    /\ Enough(delivered)
    /\ pc' = "ended"
    /\ UNCHANGED <<sourceVars, backoff, line, buf, wireVars, watchVars>>

\* ... then the line itself.
LineFailed ==
    /\ pc = "line"
    /\ LineAllowed
    /\ line = "failure"
    /\ pc' = "failed"
    /\ UNCHANGED <<sourceVars, backoff, line, buf, wireVars, watchVars>>

LineData ==
    /\ pc = "line"
    /\ LineAllowed
    /\ line = "data"
    /\ buf' = Append(buf, connection)
    /\ pc' = "read"
    /\ UNCHANGED <<sourceVars, backoff, line, wireVars, watchVars>>

\* A comment, another field, or a blank line with no data before it.
LineIgnored ==
    /\ pc = "line"
    /\ LineAllowed
    /\ line = "other" \/ (line = "blank" /\ buf = <<>>)
    /\ blockStart' = IF line = "blank" THEN connection ELSE blockStart
    /\ pc' = "read"
    /\ UNCHANGED <<sourceVars, backoff, line, buf, connection, watchVars>>

EndOfBlock ==
    /\ pc = "line"
    /\ LineAllowed
    /\ line = "blank"
    /\ buf # <<>>
    /\ pc' = "sink"
    /\ UNCHANGED <<sourceVars, backoff, line, buf, wireVars, watchVars>>

\* The payload parses, and dispatch begins to touch the watchdog.
Touch ==
    /\ pc = "sink"
    /\ W!ReadStamp
    /\ pc' = "touch"
    /\ UNCHANGED <<sourceVars, backoff, line, buf, wireVars>>

\* The rest of the sink, with a heartbeat unless the payload did not parse.
\* Nothing in here looks at the flag, which may be set by now.
Sink ==
    /\ \/ pc = "touch" /\ W!StoreStamp
       \/ pc = "sink" /\ UNCHANGED watchVars
    /\ delivered' = delivered + 1
    /\ late' = cancel
    /\ buf' = <<>>
    /\ blockStart' = connection
    /\ pc' = "read"
    /\ UNCHANGED <<limit, cancel, outcome, backoff, line, connection>>

-----------------------------------------------------------------------------
(* Everybody else *)

ExternalCancel == Cancel /\ UNCHANGED <<runVars, wireVars, watchVars>>

Checker == W!CheckerStep(cancel) /\ UNCHANGED <<sourceVars, runVars, wireVars>>

Tick == W!Tick /\ UNCHANGED <<sourceVars, runVars, wireVars>>

\* What the thread does without waiting for the network.
RunStep ==
    \/ ReturnCancelled
    \/ TopNotCancelled
    \/ CheckLimit
    \/ ReturnEnded
    \/ BackOff
    \/ WakeUp
    \/ LineCancelled
    \/ LineOverLimit
    \/ LineFailed
    \/ LineData
    \/ LineIgnored
    \/ EndOfBlock
    \/ Touch
    \/ Sink

IngestNext ==
    \/ RunStep
    \/ Connected
    \/ Refused
    \/ \E l \in Lines : Read(l)
    \/ EndOfStream
    \/ ExternalCancel
    \/ Checker
    \/ Tick

IngestSpec == IngestInit /\ [][IngestNext]_ingestVars

(***************************************************************************)
(* The operating system runs the thread.  A connection is made or refused, *)
(* and a read ends within its timeout of 30 s, with whatever result.       *)
(***************************************************************************)
FairIngestSpec ==
    /\ IngestSpec
    /\ WF_ingestVars(RunStep)
    /\ WF_ingestVars(Connected \/ Refused)
    /\ WF_ingestVars((\E l \in Lines : Read(l)) \/ EndOfStream)

-----------------------------------------------------------------------------
(* Properties *)

\* Every variable has its type, and run_sse has an outcome when it has returned.
TypeOK ==
    /\ delivered \in Nat
    /\ cancel \in BOOLEAN
    /\ late \in BOOLEAN
    /\ outcome \in {"none", "limit", "cancelled"}
    /\ pc \in Positions
    /\ pc = "returned" <=> outcome # "none"
    /\ backoff \in 1..MaxBackoff
    /\ line \in Lines
    /\ buf \in Seq(Nat)
    /\ connection \in Nat
    /\ blockStart \in 0..connection
    /\ W!TypeOK

\* All variables have their types, and the payload handed to the sink is one event block
\* of one connection, whole: all the data lines since the blank line or the connection
\* before it, in order.
WholeEvents ==
    /\ TypeOK
    /\ pc \in {"sink", "touch"} =>
        buf = [i \in 1..(connection - blockStart) |-> blockStart + i]

\* The watchdog warns only of a silence that is longer than its window, however the
\* touches of the thread fall between the two reads of the checker.
NoFalseAlarm == W!NoFalseAlarm

\* run_sse keeps the promise of EventSource.
ImplementsSource == Spec

\* Setting the flag, or reaching the limit, ends run_sse: the blocked read and the
\* uninterrupted sleep delay it only, and the limit is noticed with the next line, the
\* time-out of a read or the end of the stream.
Returns == cancel \/ Enough(delivered) ~> pc = "returned"

\* Documentation of run_sse: it returns when the limit is reached, when it is cancelled
\* or with an error.  A stream that ends is none of these.
LimitHonest == outcome = "limit" => Enough(delivered)
=============================================================================
