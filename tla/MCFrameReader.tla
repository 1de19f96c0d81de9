---------------------------- MODULE MCFrameReader ----------------------------
(***************************************************************************)
(* Frames over bytes 0, 1 and 2: type 1 has one byte, type 2 has two, type *)
(* 0 is unknown, and a length prefix goes up to 8.                         *)
(***************************************************************************)
EXTENDS FrameReader, SequencesExt

CONSTANT LongestInput

MCDeclared == [type \in 0 .. 2 |-> type]

\* Every stream of at most LongestInput bytes.
MCInputs == BoundedSeq(0 .. 2, LongestInput)
==============================================================================
