----------------------------- MODULE FrameCursor -----------------------------
(***************************************************************************)
(* itch::wire::FrameCursor: what next() makes of the bytes in front of it. *)
(* A frame is a two-byte length, most significant byte first, and a body   *)
(* whose first byte is the type; each known type has one length.           *)
(***************************************************************************)
EXTENDS Integers, Sequences

CONSTANTS
    MaxByte,    \* the largest value of a byte
    Declared    \* message_length(): the length of a type, 0 for an unknown one

Byte == 0 .. MaxByte

ASSUME CursorAssumption ==
    /\ MaxByte \in Nat
    /\ Declared \in [Byte -> Nat]

kLengthPrefixSize == 2

\* load_be<u16>: the length a frame starts with.
LengthPrefix(bytes) == bytes[1] * (MaxByte + 1) + bytes[2]

Body(bytes) == SubSeq(bytes, kLengthPrefixSize + 1, kLengthPrefixSize + LengthPrefix(bytes))

\* A status, the error that explains it, and the frame produced.
Verdict(status, error) == [status |-> status, error |-> error, frame |-> <<>>]

\* next(): the frame at the front of the bytes, or why there is none.
Scan(bytes) ==
    LET avail  == Len(bytes)
        length == LengthPrefix(bytes)
        type   == bytes[kLengthPrefixSize + 1]
    IN  IF avail = 0 THEN Verdict("EndOfInput", "None")
        ELSE IF avail < kLengthPrefixSize THEN Verdict("NeedMore", "TruncatedLengthPrefix")
        ELSE IF length = 0 THEN Verdict("Malformed", "ZeroLength")
        ELSE IF avail - kLengthPrefixSize < length THEN Verdict("NeedMore", "TruncatedBody")
        ELSE IF Declared[type] = 0 THEN Verdict("Malformed", "UnknownType")
        ELSE IF Declared[type] # length THEN Verdict("Malformed", "LengthMismatch")
        ELSE [status |-> "Ok", error |-> "None", frame |-> Body(bytes)]

\* The bytes next() consumes: a whole frame, or none.
Consumed(verdict) ==
    IF verdict.status = "Ok" THEN kLengthPrefixSize + Len(verdict.frame) ELSE 0

Statuses == {"Ok", "EndOfInput", "NeedMore", "Malformed"}

Errors == {"None", "TruncatedLengthPrefix", "TruncatedBody", "ZeroLength",
           "UnknownType", "LengthMismatch"}

Verdicts == [status : Statuses, error : Errors, frame : Seq(Byte)]
==============================================================================
