------------------------------- MODULE Recorder -------------------------------
(***************************************************************************)
(* record of crates/rts-replay/src/record.rs: run_sse hands payloads to a  *)
(* writer task through an unbounded channel, the writer appends them to a  *)
(* buffered file, and one day load_fixture reads the file back.  run_sse   *)
(* without a limit is an instance of EventSource.  The events are numbered *)
(* in the order they come, so that the channel, which keeps that order, is *)
(* a count.  Writes may fail, and the process may die at any time.         *)
(***************************************************************************)
EXTENDS Fixture

CONSTANT MaxEvents     \* bound: number of payloads in a behaviour

ASSUME RecorderAssumption == MaxEvents \in Nat

VARIABLES
    delivered, cancel, late, outcome,   \* run_sse, as in EventSource
    main,        \* where record is
    queued,      \* events in the channel
    refused,     \* events sent after the receiver was dropped
    writer,      \* the writer task
    written,     \* events given to the BufWriter
    flushed,     \* events that are in the file
    torn,        \* whether a part of the next one is, too
    result       \* what record returns: the count, Failure, or None before

S == INSTANCE EventSource WITH limit <- -1

sourceVars == <<delivered, cancel, late, outcome>>
channelVars == <<queued, refused>>
fileVars == <<written, flushed, torn>>
recorderVars == <<sourceVars, main, channelVars, writer, fileVars, result>>

None == -1
Failure == -2

MainPositions == {"create", "ingest", "drop", "join", "returned", "crashed"}
WriterPositions == {"none", "recv", "flush", "done", "failed"}

RecordInit ==
    /\ S!Init
    /\ main = "create"
    /\ queued = 0 /\ refused = 0
    /\ writer = "none"
    /\ written = 0 /\ flushed = 0 /\ torn = FALSE
    /\ result = None

\* The file is created, and the writer spawned; a directory or a file that cannot be
\* created is an error.
Create ==
    /\ main = "create"
    /\ \/ main' = "ingest" /\ writer' = "recv" /\ UNCHANGED result
       \/ main' = "returned" /\ result' = Failure /\ UNCHANGED writer
    /\ UNCHANGED <<sourceVars, channelVars, fileVars>>

ReceiverUp == writer = "recv"

\* The sink: an event for a dropped receiver is dropped silently.
Sink ==
    /\ main = "ingest"
    /\ delivered < MaxEvents
    /\ S!Deliver
    /\ \/ ReceiverUp /\ queued' = queued + 1 /\ UNCHANGED refused
       \/ ~ReceiverUp /\ refused' = refused + 1 /\ UNCHANGED queued
    /\ UNCHANGED <<main, writer, fileVars, result>>

\* Without a limit run_sse returns only when it is cancelled, or at once with an error,
\* which is kept for later.
IngestReturns ==
    /\ main = "ingest"
    /\ \/ S!Return /\ outcome' = "cancelled"
       \/ S!ReturnError
    /\ main' = "drop"
    /\ UNCHANGED <<channelVars, writer, fileVars, result>>

DropSender ==
    /\ main = "drop"
    /\ main' = "join"
    /\ UNCHANGED <<sourceVars, channelVars, writer, fileVars, result>>

\* The timer of the duration, or Ctrl-C.
TimeIsUp ==
    /\ S!Cancel
    /\ UNCHANGED <<main, channelVars, writer, fileVars, result>>

\* The buffer spills into the file whenever it is full.
Spilled == flushed..(written + 1)

Write ==
    /\ writer = "recv"
    /\ queued > 0
    /\ queued' = queued - 1
    /\ written' = written + 1
    /\ flushed' \in Spilled
    /\ UNCHANGED <<sourceVars, main, refused, writer, torn, result>>

\* The events that a writer interrupted here may have got into the file.
InHand == IF writer = "recv" /\ queued > 0 THEN written + 1 ELSE written

\* What the file keeps of them: a write that was cut leaves a part of a line.
Cut ==
    /\ flushed' \in flushed..InHand
    /\ torn' \in {FALSE, flushed' < InHand}

\* A write fails: the task returns, and its receiver and its buffer are dropped.
WriteFails ==
    /\ writer = "recv"
    /\ queued > 0
    /\ writer' = "failed"
    /\ queued' = 0
    /\ Cut
    /\ UNCHANGED <<sourceVars, main, refused, written, result>>

\* Mutant: the sender lives as long as record.
MutantSenderDropped == main = "returned"

\* The only sender is the one the sink borrows.
SenderDropped == main \in {"join", "returned"}

EndOfChannel ==
    /\ writer = "recv"
    /\ queued = 0
    /\ SenderDropped
    /\ writer' = "flush"
    /\ UNCHANGED <<sourceVars, main, channelVars, fileVars, result>>

Flush ==
    /\ writer = "flush"
    /\ \/ writer' = "done" /\ flushed' = written /\ UNCHANGED torn
       \/ writer' = "failed" /\ Cut
    /\ UNCHANGED <<sourceVars, main, channelVars, written, result>>

\* An error of the writer goes before an error of run_sse.
Reported == IF writer = "done" /\ outcome # "failed" THEN written ELSE Failure

Join ==
    /\ main = "join"
    /\ writer \in {"done", "failed"}
    /\ result' = Reported
    /\ main' = "returned"
    /\ UNCHANGED <<sourceVars, channelVars, writer, fileVars>>

\* The process dies: of all this only the file remains.
Crash ==
    /\ main \notin {"returned", "crashed"}
    /\ main' = "crashed"
    /\ writer' = "failed"
    /\ queued' = 0
    /\ \/ writer \in {"recv", "flush"} /\ Cut
       \/ writer \notin {"recv", "flush"} /\ UNCHANGED <<flushed, torn>>
    /\ UNCHANGED <<sourceVars, refused, written, result>>

\* The recording as load_fixture finds it.
File == [i \in 1..flushed |-> i] \o (IF torn THEN <<Bad>> ELSE <<>>)

WriterStep == Write \/ WriteFails \/ EndOfChannel \/ Flush
MainStep == Create \/ IngestReturns \/ DropSender \/ Join

RecordNext == Sink \/ MainStep \/ WriterStep \/ TimeIsUp \/ Crash

RecordSpec == RecordInit /\ [][RecordNext]_recorderVars

(***************************************************************************)
(* The runtime polls both tasks, the timer of the duration fires, and      *)
(* run_sse returns after the cancel (AsyncIngest shows it).                *)
(***************************************************************************)
FairRecordSpec ==
    /\ RecordSpec
    /\ WF_recorderVars(TimeIsUp)
    /\ WF_recorderVars(MainStep)
    /\ WF_recorderVars(WriterStep)
-----------------------------------------------------------------------------
(* Properties *)

\* Every variable has its type, and each event delivered is refused, in the channel,
\* given to the file, or went down with the writer.
RecordTypeOK ==
    /\ delivered \in Nat /\ queued \in Nat /\ refused \in Nat
    /\ main \in MainPositions
    /\ writer \in WriterPositions
    /\ writer = "none" => main \in {"create", "returned"}
    /\ written \in Nat
    /\ flushed \in 0..(written + 1)
    /\ torn \in BOOLEAN
    /\ result \in {None, Failure} \union Nat
    /\ writer # "failed" => delivered = refused + queued + written

\* The types hold, and a recording can be trusted.  A count that record returns is the
\* number of events the upstream delivered, and load_fixture finds all of them in the
\* file: no event sent just before the cancel is left behind.  After a failure or a crash
\* load_fixture finds no event that was not delivered, and nothing at all in a file that
\* ends in the middle of an event.
RecordingLoads ==
    LET loaded == Load(File)
    IN  /\ RecordTypeOK
        /\ result >= 0 =>
              /\ result = delivered
              /\ Len(loaded.events) = delivered
              /\ loaded.error = IF delivered = 0 THEN "Empty" ELSE "none"
        /\ Len(loaded.events) <= delivered
        /\ torn => loaded.error = "corrupt"

\* The recording ends when its time is up, whatever becomes of the writer, unless the
\* process dies before.
Ends == <>(main \in {"returned", "crashed"})
=============================================================================
