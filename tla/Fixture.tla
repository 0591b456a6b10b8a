-------------------------------- MODULE Fixture --------------------------------
(***************************************************************************)
(* load_fixture of crates/rts-replay/src/play.rs.  A line of a file is the *)
(* recv_ns of the envelope it holds, or blank, or no envelope at all.      *)
(***************************************************************************)
EXTENDS Integers, Sequences, SequencesExt

Blank == -1
Bad == -2

\* The loop over the lines, which passes over the blank ones.
Kept(file) ==
    LET out[n \in 0..Len(file)] ==
            IF n = 0 THEN <<>>
            ELSE IF file[n] = Blank THEN out[n - 1]
            ELSE Append(out[n - 1], file[n])
    IN  out[Len(file)]

\* Mutant: whatever is no envelope is skipped.
MutantLoad(file) ==
    LET events == SelectSeq(file, LAMBDA l : l >= 0)
    IN  [error |-> IF events = <<>> THEN "Empty" ELSE "none", events |-> events]

\* A line that is no envelope (BadEnvelope), or no text at all (the Io error of a line cut
\* inside a character), and a file without an event are errors.
Load(file) ==
    LET events == Kept(file)
    IN  IF Contains(events, Bad) THEN [error |-> "corrupt", events |-> <<>>]
        ELSE [error |-> IF events = <<>> THEN "Empty" ELSE "none", events |-> events]
=============================================================================
