----------------------------- MODULE EventSource -----------------------------
(***************************************************************************)
(* What both run_sse functions promise to the code that calls them         *)
(* (crates/rts-async/src/ingest.rs, crates/rts-threaded/src/ingest.rs):    *)
(* payloads are handed to the sink, never more than the limit; once the    *)
(* token is cancelled at most one more payload comes; "cancelled" is       *)
(* returned only if it was; nothing comes after the return, and nothing    *)
(* before an error.                                                        *)
(***************************************************************************)
EXTENDS Integers

NoLimit == -1

VARIABLES
    limit,         \* the number of payloads asked for, or NoLimit; never changed
    delivered,     \* number of payloads handed to the sink
    cancel,        \* whether the token is cancelled
    late,          \* whether a payload was handed over after that
    outcome        \* what was returned, or "none"

sourceVars == <<limit, delivered, cancel, late, outcome>>

Init ==
    /\ limit \in Nat \union {NoLimit}
    /\ delivered = 0
    /\ cancel = FALSE
    /\ late = FALSE
    /\ outcome = "none"

Enough(n) == limit # NoLimit /\ n >= limit

Deliver ==
    /\ outcome = "none"
    /\ ~Enough(delivered)
    /\ ~late
    /\ delivered' = delivered + 1
    /\ late' = cancel
    /\ UNCHANGED <<limit, cancel, outcome>>

Return ==
    /\ outcome = "none"
    /\ outcome' \in {"limit", "cancelled"}
    /\ outcome' = "cancelled" => cancel
    /\ UNCHANGED <<limit, delivered, cancel, late>>

\* A payload that reaches the limit is handed over and the function returns.
DeliverLast ==
    /\ outcome = "none"
    /\ ~Enough(delivered)
    /\ ~late
    /\ delivered' = delivered + 1
    /\ late' = cancel
    /\ outcome' = "limit"
    /\ UNCHANGED <<limit, cancel>>

\* An error, before anything was handed over.
ReturnError ==
    /\ outcome = "none"
    /\ delivered = 0
    /\ outcome' = "failed"
    /\ UNCHANGED <<limit, delivered, cancel, late>>

Cancel ==
    /\ ~cancel
    /\ cancel' = TRUE
    /\ UNCHANGED <<limit, delivered, late, outcome>>

Next == Deliver \/ DeliverLast \/ Return \/ ReturnError \/ Cancel

Spec == Init /\ [][Next]_sourceVars
=============================================================================
