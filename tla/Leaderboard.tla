----------------------------- MODULE Leaderboard -----------------------------
(***************************************************************************)
(* The leaderboard actor of both pipelines (crates/rts-async/src and       *)
(* crates/rts-threaded/src, leaderboard.rs) and the channel it reads.      *)
(* Which wiki an edit belongs to is abstracted away: the actor's map is    *)
(* the number of edits it has counted.                                     *)
(***************************************************************************)
EXTENDS Integers, Sequences

CONSTANT LbCapacity     \* the capacity of the channel, a large one if unbounded

VARIABLES
    channel,      \* the messages sent and not yet received
    lbUp,         \* whether the actor runs
    counted,      \* the edits it has counted
    reply         \* the snapshot it has sent back, or -1

lbVars == <<channel, lbUp, counted, reply>>

Messages == {"update", "snapshot"}

Init ==
    /\ channel = <<>>
    /\ lbUp = TRUE
    /\ counted = 0
    /\ reply = -1

Room == Len(channel) < LbCapacity

\* Mutant: the request overtakes the updates in the channel.
MutantSent(m) == IF m = "snapshot" THEN <<m>> \o channel ELSE Append(channel, m)

Sent(m) == Append(channel, m)

\* A message enters the channel.
Send(m) ==
    /\ Room
    /\ channel' = Sent(m)
    /\ UNCHANGED <<lbUp, counted, reply>>

CountUpdate ==
    /\ lbUp
    /\ channel # <<>>
    /\ Head(channel) = "update"
    /\ channel' = Tail(channel)
    /\ counted' = counted + 1
    /\ UNCHANGED <<lbUp, reply>>

AnswerSnapshot ==
    /\ lbUp
    /\ channel # <<>>
    /\ Head(channel) = "snapshot"
    /\ channel' = Tail(channel)
    /\ reply' = counted
    /\ UNCHANGED <<lbUp, counted>>

\* recv reports that every sender is dropped and nothing is left.
Exit ==
    /\ lbUp
    /\ channel = <<>>
    /\ lbUp' = FALSE
    /\ UNCHANGED <<channel, counted, reply>>

Step == CountUpdate \/ AnswerSnapshot

Updates == Len(SelectSeq(channel, LAMBDA m : m = "update"))

LbTypeOK ==
    /\ channel \in Seq(Messages)
    /\ Len(channel) <= LbCapacity
    /\ lbUp \in BOOLEAN
    /\ counted \in Nat
    /\ reply \in Nat \union {-1}
=============================================================================
