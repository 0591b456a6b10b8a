----------------------------- MODULE AsyncIngest -----------------------------
(***************************************************************************)
(* run_sse of crates/rts-async/src/ingest.rs: connect, read frames,        *)
(* reconnect with a capped exponential back-off.  The jitter of the        *)
(* back-off is left out: no wait is compared with another.                 *)
(***************************************************************************)
EXTENDS EventSource, FiniteSetsExt

CONSTANTS
    Limits,         \* the limits looked at
    MaxBackoff,     \* the cap of the back-off, in units of INITIAL_BACKOFF
    MaxEvents,      \* bound: payloads in a behaviour
    MaxFailures     \* bound: consecutive failures in a behaviour

ASSUME IngestAssumption ==
    /\ Limits \subseteq Nat \union {NoLimit}
    /\ MaxBackoff \in Nat \ {0}
    /\ MaxEvents \in Nat
    /\ MaxFailures \in Nat

VARIABLES
    pc,             \* where run_sse is
    backoff,        \* the next wait
    failures,       \* consecutive_failures
    broken          \* whether a read has failed on this connection

runVars == <<pc, backoff, failures, broken>>
ingestVars == <<sourceVars, runVars>>

Positions == {"build", "top", "connecting", "select", "sink", "sleep", "slept",
              "returned"}

IngestInit ==
    /\ limit \in Limits
    /\ Init
    /\ pc = "build"
    /\ backoff = 1
    /\ failures = 0
    /\ broken = FALSE

-----------------------------------------------------------------------------
(* The Mutant operators are faults that the properties below must notice. *)

BuildClient ==
    /\ pc = "build"
    /\ pc' = "top"
    /\ UNCHANGED <<sourceVars, backoff, failures, broken>>

\* The HTTP client cannot be built: the only error run_sse returns.
BuildFails ==
    /\ pc = "build"
    /\ outcome' = "failed"
    /\ pc' = "returned"
    /\ UNCHANGED <<limit, delivered, cancel, late, backoff, failures, broken>>

\* Mutant: a connection that hangs is not interrupted.
MutantTokenPolled == {"top", "slept"}

\* Where the token is looked at, in the select before anything else.
TokenPolled == {"top", "connecting", "select", "slept"}

ReturnCancelled ==
    /\ pc \in TokenPolled
    /\ cancel
    /\ pc' = "returned"
    /\ outcome' = "cancelled"
    /\ UNCHANGED <<limit, delivered, cancel, late, backoff, failures, broken>>

Connect ==
    /\ pc = "top"
    /\ ~cancel
    /\ pc' = "connecting"
    /\ UNCHANGED <<sourceVars, backoff, failures, broken>>

\* Mutant: the wait before the next attempt is not reset.
MutantReset == failures' = 0 /\ UNCHANGED backoff

Reset == failures' = 0 /\ backoff' = 1

Connected ==
    /\ pc = "connecting"
    /\ ~cancel
    /\ Reset
    /\ pc' = "select"
    /\ broken' = FALSE
    /\ UNCHANGED sourceVars

Fail ==
    /\ failures < MaxFailures
    /\ failures' = failures + 1
    /\ pc' = "sleep"
    /\ UNCHANGED <<sourceVars, backoff, broken>>

\* A status that is no success, or no answer at all.
Refused == pc = "connecting" /\ ~cancel /\ Fail

StreamEnded == pc = "select" /\ ~cancel /\ Fail

Doubled == Min({backoff * 2, MaxBackoff})

AfterSleep == "slept"

\* The timer of sleep_with_jitter or the token ends the wait.
WakeUp ==
    /\ pc = "sleep"
    /\ backoff' = Doubled
    /\ pc' = AfterSleep
    /\ UNCHANGED <<sourceVars, failures, broken>>

Retry ==
    /\ pc = "slept"
    /\ ~cancel
    /\ pc' = "top"
    /\ UNCHANGED <<sourceVars, backoff, failures, broken>>

\* The biased select has found the token untouched and now the stream has a payload.
\* Heartbeats without data and frames that do not decode are skipped and change nothing.
ReceivePayload ==
    /\ pc = "select"
    /\ ~cancel
    /\ ~broken
    /\ delivered < MaxEvents
    /\ pc' = "sink"
    /\ UNCHANGED <<sourceVars, backoff, failures, broken>>

\* The read fails, of itself or by the read timeout: logged, and the stream is
\* polled again.
ReadFails ==
    /\ pc = "select"
    /\ ~cancel
    /\ broken' = TRUE
    /\ UNCHANGED <<sourceVars, pc, backoff, failures>>

\* Mutant: the limit is compared before the payload is counted.
MutantLast == Enough(delivered)

Last == Enough(delivered + 1)

\* Nothing in here looks at the token, which may be cancelled by now.
Sink ==
    /\ pc = "sink"
    /\ delivered' = delivered + 1
    /\ late' = cancel
    /\ \/ Last /\ pc' = "returned" /\ outcome' = "limit"
       \/ ~Last /\ pc' = "select" /\ UNCHANGED outcome
    /\ UNCHANGED <<limit, cancel, backoff, failures, broken>>

-----------------------------------------------------------------------------
(* Everybody else *)

ExternalCancel == Cancel /\ UNCHANGED runVars

\* What run_sse does without waiting for the network.
RunStep ==
    \/ BuildClient
    \/ BuildFails
    \/ ReturnCancelled
    \/ Connect
    \/ WakeUp
    \/ Retry
    \/ Sink

Network ==
    \/ Connected
    \/ Refused
    \/ StreamEnded
    \/ ReceivePayload
    \/ ReadFails

IngestNext == RunStep \/ Network \/ ExternalCancel

IngestSpec == IngestInit /\ [][IngestNext]_ingestVars

(***************************************************************************)
(* The runtime polls the task when it is woken, and the timer of a         *)
(* back-off fires.  The network owes nothing: a connection may hang.       *)
(***************************************************************************)
FairIngestSpec == IngestSpec /\ WF_ingestVars(RunStep)

-----------------------------------------------------------------------------
(* Properties *)

\* Every variable has its type, and run_sse has an outcome when it has returned.
TypeOK ==
    /\ delivered \in Nat
    /\ cancel \in BOOLEAN
    /\ late \in BOOLEAN
    /\ outcome \in {"none", "limit", "cancelled", "failed"}
    /\ pc \in Positions
    /\ pc = "returned" <=> outcome # "none"
    /\ backoff \in 1..MaxBackoff
    /\ failures \in Nat
    /\ broken \in BOOLEAN

\* The types hold, and the back-off is the cap or 2 to the number of attempts that failed
\* since the last connection, one less while that failure is being slept off.
BackoffCountsFailures ==
    LET slept == IF pc = "sleep" THEN failures - 1 ELSE failures
    IN  TypeOK /\ backoff = Min({2 ^ slept, MaxBackoff})

\* The limit is compared after a payload: one of 0 is taken for 1.
Asked == IF limit = 0 THEN 1 ELSE limit

\* Documentation of IngestOutcome: the configured number of events were forwarded, but
\* for a limit of 0, with which it is one.
LimitHonest == outcome = "limit" => delivered = Asked

\* run_sse keeps the promise of EventSource, with a limit of 0 that of one payload.
Source == INSTANCE EventSource WITH limit <- Asked
ImplementsSource == Source!Spec

\* Cancelling the token ends run_sse, also in the middle of a connection that hangs
\* and in the middle of a back-off.
CancelReturns == cancel ~> pc = "returned"

=============================================================================
