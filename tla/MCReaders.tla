------------------------------ MODULE MCReaders ------------------------------
(***************************************************************************)
(* The two stages a compressed file passes: a GzipSource, under a caller   *)
(* that asks for any number of bytes, and a FrameReader, over any source.  *)
(* A behaviour exercises one of them, `stage'; what the reader relies on   *)
(* in a source, that 0 is the end, is a property of the other.             *)
(*                                                                         *)
(* The reader's streams are those of MCFrameReader.  Compressed streams    *)
(* are all those of up to MaxTokens tokens of up to MaxYield bytes each,   *)
(* cut off or broken at any token, or both.                                *)
(***************************************************************************)
EXTENDS MCFrameReader, GzipSource

CONSTANTS MaxTokens, MaxYield

VARIABLE stage      \* the stage exercised

Lengths(n) ==
    {d \in [1 .. n -> 0 .. n * MaxYield] :
        /\ d[1] <= MaxYield
        /\ \A i \in 2 .. n : d[i] - d[i - 1] \in 0 .. MaxYield
        /\ d[n] = d[n - 1]}

MCStreams ==
    UNION {[decodes : Lengths(n), given : 0 .. n, corrupt : 0 .. n] : n \in 2 .. MaxTokens}

AnyStream == CHOOSE s \in Streams : TRUE

\* The other stage stands where it began.
ReaderInit ==
    /\ stage = "FrameReader"
    /\ stream = AnyStream /\ allow_truncated = FALSE /\ GzipInit
    /\ Init

SourceInit ==
    /\ stage = "GzipSource"
    /\ input = <<>> /\ Init
    /\ GzipInit

ReaderStep == stage = "FrameReader" /\ Next /\ UNCHANGED <<stage, gzipVars>>

SourceStep == stage = "GzipSource" /\ GzipNext /\ UNCHANGED <<stage, vars>>

MCNext == ReaderStep \/ SourceStep

\* A call of either runs to its end.
MCSpec ==
    /\ ReaderInit \/ SourceInit
    /\ [][MCNext]_<<stage, vars, gzipVars>>
    /\ WF_vars(ReaderStep /\ Pass)
    /\ WF_gzipVars(SourceStep /\ Round)
==============================================================================
