-------------------------------- MODULE Metrics --------------------------------
(***************************************************************************)
(* Metrics (crates/rts-core/src/metrics.rs), shared by the workers of a    *)
(* pipeline, and what run makes of it at its end: the printed summary and  *)
(* two files.  A histogram is the number of its samples, the percentiles   *)
(* are left out.  A measured time can be beyond the 60 s that a histogram  *)
(* takes; record then returns an error, which nobody looks at.             *)
(***************************************************************************)
EXTENDS Integers, FiniteSetsExt

CONSTANTS
    Classes,       \* the priorities
    MaxOutliers    \* bound: missed deadlines and times beyond 60 s in a behaviour

VARIABLES
    metrics,       \* the store
    unrecorded,    \* history: the samples a histogram did not take
    report         \* what has been printed and written, empty before

bookVars == <<metrics, unrecorded, report>>

None == <<>>
Zero == [c \in Classes |-> 0]
Total(f) == MapThenSumSet(LAMBDA c : f[c], Classes)

Init ==
    /\ metrics = [drift |-> Zero, jitter |-> 0, deadline_miss |-> Zero, overflow_count |-> 0]
    /\ unrecorded = [drift |-> Zero, jitter |-> 0]
    /\ report = [printed |-> None, csv |-> None, hgrm |-> None]

Outlier == Total(metrics.deadline_miss) + Total(unrecorded.drift) < MaxOutliers

RecordDrift(class) ==
    /\ \/ metrics' = [metrics EXCEPT !.drift[class] = @ + 1] /\ UNCHANGED unrecorded
       \/ /\ Outlier
          /\ unrecorded' = [unrecorded EXCEPT !.drift[class] = @ + 1]
          /\ UNCHANGED metrics
    /\ UNCHANGED report

\* record_jitter, and record_deadline_miss when the task took too long.
RecordJitter(class) ==
    /\ \/ /\ metrics' = [metrics EXCEPT !.jitter = @ + 1]
          /\ UNCHANGED unrecorded
       \/ /\ Outlier
          /\ metrics' = [metrics EXCEPT !.jitter = @ + 1, !.deadline_miss[class] = @ + 1]
          /\ UNCHANGED unrecorded
       \/ /\ Outlier
          /\ metrics' = [metrics EXCEPT !.deadline_miss[class] = @ + 1]
          /\ unrecorded' = [unrecorded EXCEPT !.jitter = @ + 1]
    /\ UNCHANGED report

-----------------------------------------------------------------------------
(* The end of run.  The Mutant operators are faults that the properties must *)
(* notice.                                                                    *)

\* What the summary says of the snapshot: sample counts and missed deadlines.
Printed == [drift |-> metrics.drift, deadline_miss |-> metrics.deadline_miss]

\* The sample counts of the CSV file; its jitter row is given the drift samples.
Csv == [drift |-> metrics.drift, jitter |-> Total(metrics.drift)]

\* The three histograms of the interval log.
Hgrm == [drift |-> metrics.drift, jitter |-> metrics.jitter]

PrintMetrics ==
    /\ report' = [report EXCEPT !.printed = <<Printed>>]
    /\ UNCHANGED <<metrics, unrecorded>>

\* A file that cannot be written is logged, and so is none asked for passed over.
DumpCsv ==
    /\ report' \in {report, [report EXCEPT !.csv = <<Csv>>]}
    /\ UNCHANGED <<metrics, unrecorded>>

DumpHgrm ==
    /\ report' \in {report, [report EXCEPT !.hgrm = <<Hgrm>>]}
    /\ UNCHANGED <<metrics, unrecorded>>
-----------------------------------------------------------------------------
(* Properties *)

\* Every task served has left its samples in the store, but for those refused.
Complete(served) ==
    /\ \A c \in Classes : metrics.drift[c] + unrecorded.drift[c] = served[c]
    /\ metrics.jitter + unrecorded.jitter = Total(served)

\* The files say what was printed.  The jitter count of the CSV file, which comes from
\* the drifts, is wrong by exactly the samples that the histograms did not take.
ReportsAgree ==
    /\ \A c \in DOMAIN report.csv, p \in DOMAIN report.printed :
          report.csv[c].drift = report.printed[p].drift
    /\ \A h \in DOMAIN report.hgrm, p \in DOMAIN report.printed :
          report.hgrm[h].drift = report.printed[p].drift
    /\ \A c \in DOMAIN report.csv, h \in DOMAIN report.hgrm :
          report.csv[c].jitter + Total(unrecorded.drift)
             = report.hgrm[h].jitter + unrecorded.jitter

\* Nobody counts overflows here.
BooksTypeOK ==
    /\ metrics \in [drift : [Classes -> Nat], jitter : Nat,
                    deadline_miss : [Classes -> Nat], overflow_count : {0}]
    /\ unrecorded \in [drift : [Classes -> Nat], jitter : Nat]
    /\ DOMAIN report = {"printed", "csv", "hgrm"}
=============================================================================
