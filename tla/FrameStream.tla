----------------------------- MODULE FrameStream -----------------------------
(***************************************************************************)
(* What a reader of frames promises: each call of next() returns what a    *)
(* FrameCursor says that sees the next Window bytes of the stream.  With a *)
(* window as long as the stream this is the path over a MappedFile.        *)
(***************************************************************************)
EXTENDS FrameCursor

CONSTANTS
    Inputs,     \* the streams considered, sequences of bytes
    Window      \* how many bytes of the stream are in sight

VARIABLES
    input,      \* the stream
    offset,     \* bytes consumed as whole frames
    outcome     \* what the last call returned

streamVars == <<input, offset, outcome>>

\* Nothing has been returned yet; a call ended in an exception of the source.
NotCalled == [status |-> "NotCalled"]
Threw == [status |-> "Threw"]

\* The bytes in sight.
Ahead == SubSeq(input, offset + 1,
                IF offset + Window < Len(input) THEN offset + Window ELSE Len(input))

StreamInit ==
    /\ input \in Inputs
    /\ offset = 0
    /\ outcome = NotCalled

Return ==
    /\ outcome # Threw
    /\ outcome' = Scan(Ahead)
    /\ offset' = offset + Consumed(outcome')
    /\ UNCHANGED input

Fail ==
    /\ outcome' = Threw
    /\ UNCHANGED <<input, offset>>

StreamSpec == StreamInit /\ [][Return \/ Fail]_streamVars
==============================================================================
