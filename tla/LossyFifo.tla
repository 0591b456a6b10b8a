----------------------------- MODULE LossyFifo -----------------------------
(***************************************************************************)
(* What a bounded drop-oldest channel promises, with no mechanism at all:  *)
(* no buffer, no lock, no wait list.  Items are the numbers 1, 2, 3, ...   *)
(* in the order in which they were sent.  Each item is outstanding until   *)
(* it is received or lost, the oldest outstanding item is always the next  *)
(* to go, and an item is lost only to make room for a new one.             *)
(***************************************************************************)
EXTENDS Integers, Sequences, FiniteSets, FiniteSetsExt, Functions

CONSTANT Receivers    \* who may ask for an item

VARIABLES
    room,         \* how many items may be outstanding, never changed
    sent,         \* number of items sent so far
    received,     \* the items received, in the order of receipt
    lost,         \* the items that made room for a newer one
    demand        \* the receivers that are asking for an item

fifoVars == <<room, sent, received, lost, demand>>

Outstanding == (1..sent) \ (Range(received) \union lost)

Init ==
    /\ room \in Nat
    /\ sent = 0
    /\ received = <<>>
    /\ lost = {}
    /\ demand = {}

\* There is room for one more item.
Send ==
    /\ Cardinality(Outstanding) < room
    /\ sent' = sent + 1
    /\ UNCHANGED <<room, received, lost, demand>>

\* There is no room: the oldest outstanding item is given up.
SendLossy ==
    /\ Outstanding # {}
    /\ Cardinality(Outstanding) = room
    /\ sent' = sent + 1
    /\ lost' = lost \union {Min(Outstanding)}
    /\ UNCHANGED <<room, received, demand>>

Ask(r) ==
    /\ r \notin demand
    /\ demand' = demand \union {r}
    /\ UNCHANGED <<room, sent, received, lost>>

\* A receiver loses interest (its request was one branch of a select).
Withdraw(r) ==
    /\ r \in demand
    /\ demand' = demand \ {r}
    /\ UNCHANGED <<room, sent, received, lost>>

Deliver(r) ==
    /\ r \in demand
    /\ Outstanding # {}
    /\ received' = Append(received, Min(Outstanding))
    /\ demand' = demand \ {r}
    /\ UNCHANGED <<room, sent, lost>>

Next ==
    \/ Send
    \/ SendLossy
    \/ \E r \in Receivers : Ask(r) \/ Withdraw(r) \/ Deliver(r)

Spec == Init /\ [][Next]_fifoVars
=============================================================================
