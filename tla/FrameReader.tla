----------------------------- MODULE FrameReader -----------------------------
(***************************************************************************)
(* itch::wire::FrameReader over a byte source: a buffer refilled between   *)
(* two looks of the cursor, with the tail of a straddling frame moved to   *)
(* the front.  One pass of next()'s loop is a step.                        *)
(*                                                                         *)
(* A source hands out any number of bytes between one and what was asked   *)
(* for (MemorySource with a chunk, FdSource, GzipSource), nothing when it  *)
(* is asked for nothing or has nothing left, and may throw.                *)
(***************************************************************************)
EXTENDS FrameCursor

CONSTANTS
    Inputs,     \* the streams the source may deliver, sequences of bytes
    Capacity    \* the size of the buffer

kMinBufferSize(longest) == kLengthPrefixSize + longest

ASSUME ReaderAssumption ==
    /\ Capacity \in Nat
    /\ \A type \in Byte : kMinBufferSize(Declared[type]) <= Capacity
    /\ Inputs \subseteq Seq(Byte)

VARIABLES
    input,      \* the stream
    read,       \* how many of its bytes the source has handed out
    buf,        \* the filled part of the buffer: filled_ is its length
    pos,        \* the cursor's offset in it
    consumed,   \* consumed_: bytes consumed before those in the buffer
    frames,     \* frames_
    calling,    \* a call of next() is in progress
    outcome     \* what the last call returned

vars == <<input, read, buf, pos, consumed, frames, calling, outcome>>

\* Nothing has been returned yet; the source threw, and the reader is abandoned.
NotCalled == [status |-> "NotCalled"]
Threw == [status |-> "Threw"]

Rest == SubSeq(buf, pos + 1, Len(buf))

Look == Scan(Rest)

bytes_consumed == consumed + pos

trailing_bytes == Len(buf)

Init ==
    /\ input \in Inputs
    /\ read = 0
    /\ buf = <<>>
    /\ pos = 0
    /\ consumed = 0
    /\ frames = 0
    /\ calling = FALSE
    /\ outcome = NotCalled

Call ==
    /\ ~calling
    /\ outcome # Threw
    /\ calling' = TRUE
    /\ UNCHANGED <<input, read, buf, pos, consumed, frames, outcome>>

\* next() returns what the cursor says.
Returns(verdict) ==
    /\ outcome' = verdict
    /\ frames' = frames + (IF verdict.status = "Ok" THEN 1 ELSE 0)
    /\ calling' = FALSE

\* The cursor has a frame, or a reason to stop.
Produce ==
    /\ calling
    /\ Look.status \in {"Ok", "Malformed"}
    /\ Returns(Look)
    /\ pos' = pos + Consumed(Look)
    /\ UNCHANGED <<input, read, buf, consumed>>

\* A mutant: the bytes a refill drops are not counted.
RefillUncounted(n) ==
    /\ calling
    /\ Look.status \in {"EndOfInput", "NeedMore"}
    /\ n <= Capacity - Len(Rest)
    /\ buf' = Rest \o SubSeq(input, read + 1, read + n)
    /\ read' = read + n
    /\ pos' = 0
    /\ UNCHANGED <<input, frames, calling, outcome, consumed>>

\* A mutant: a refill starts over, so that a straddling frame is lost.
RefillDropsTail(n) ==
    /\ calling
    /\ Look.status \in {"EndOfInput", "NeedMore"}
    /\ n <= Capacity - Len(Rest)
    /\ buf' = SubSeq(input, read + 1, read + n)
    /\ consumed' = consumed + Len(buf)
    /\ read' = read + n
    /\ pos' = 0
    /\ UNCHANGED <<input, frames, calling, outcome>>

\* The source hands out n bytes, and the cursor looks again.
Refill(n) ==
    /\ calling
    /\ Look.status \in {"EndOfInput", "NeedMore"}
    /\ n <= Capacity - Len(Rest)
    /\ consumed' = consumed + pos
    /\ buf' = Rest \o SubSeq(input, read + 1, read + n)
    /\ read' = read + n
    /\ pos' = 0
    /\ UNCHANGED <<input, frames, calling, outcome>>

\* Mutants: a short read is taken for the end; a full buffer is refilled forever.
ShortReadIsEnd ==
    /\ calling
    /\ Look.status \in {"EndOfInput", "NeedMore"}
    /\ consumed' = consumed + pos
    /\ buf' = Rest
    /\ Returns(Look)
    /\ pos' = Consumed(Look)
    /\ UNCHANGED <<input, read>>

RefilledForever ==
    /\ calling
    /\ Look.status \in {"EndOfInput", "NeedMore"}
    /\ Len(Rest) = Capacity \/ read = Len(input)
    /\ IF read = Len(input)
       THEN /\ consumed' = consumed + pos
            /\ buf' = Rest
            /\ Returns(Look)
            /\ pos' = Consumed(Look)
            /\ UNCHANGED <<input, read>>
       ELSE UNCHANGED vars

\* The source hands out nothing: it has nothing left, or the buffer is full and
\* it was asked for nothing.  The cursor looks once more at what is left.
Exhausted ==
    /\ calling
    /\ Look.status \in {"EndOfInput", "NeedMore"}
    /\ Len(Rest) = Capacity \/ read = Len(input)
    /\ consumed' = consumed + pos
    /\ buf' = Rest
    /\ Returns(Look)
    /\ pos' = Consumed(Look)
    /\ UNCHANGED <<input, read>>

\* The source throws between the two halves of refill(): the tail has moved,
\* the cursor has not been reset.
SourceThrows ==
    /\ calling
    /\ Look.status \in {"EndOfInput", "NeedMore"}
    /\ consumed' = consumed + pos
    /\ buf' = Rest
    /\ outcome' = Threw
    /\ calling' = FALSE
    /\ UNCHANGED <<input, read, pos, frames>>

Pass == Produce \/ (\E n \in 1 .. Len(input) - read : Refill(n)) \/ Exhausted

Next == Call \/ Pass \/ SourceThrows

Spec == Init /\ [][Next]_vars

\* A call runs to its end: the loop has no other way to wait.
FairSpec == Spec /\ WF_vars(Pass)

------------------------------------------------------------------------------
(* Properties. *)

\* pos <= Len(buf) is the invariant the cursor asserts, and what the subtraction
\* in refill() needs; after an exception it does not hold, and next() must not be
\* called again.  The buffer never grows.
TypeOK ==
    /\ input \in Inputs
    /\ read \in 0 .. Len(input)
    /\ buf \in Seq(Byte) /\ Len(buf) <= Capacity
    /\ pos \in 0 .. Capacity
    /\ outcome # Threw => pos <= Len(buf)
    /\ consumed \in 0 .. Len(input)
    /\ frames \in Nat
    /\ calling \in BOOLEAN
    /\ outcome \in Verdicts \cup {NotCalled, Threw}

\* However refills move and cut them, the bytes in the buffer are those of the
\* stream that follow the ones counted as consumed, none lost and none twice.
BufferIsStream == buf = SubSeq(input, consumed + 1, read)

\* Where the n-th frame of the stream ends, for a cursor over the whole of it.
EndOfFrame[n \in 0 .. frames] ==
    IF n = 0 THEN 0
    ELSE EndOfFrame[n - 1] + Consumed(Scan(SubSeq(input, EndOfFrame[n - 1] + 1, Len(input))))

\* frames() and bytes_consumed() are what a cursor over the whole stream counts:
\* the reader is on a boundary between two frames, and has skipped none.
FramesAccounted ==
    outcome # Threw =>
        /\ bytes_consumed = EndOfFrame[frames]
        /\ frames > 0 => EndOfFrame[frames - 1] < bytes_consumed

\* A frame returned is the piece of the stream that ends where the reader now
\* stands, and has the length of its type: a prefix is never just followed.
FrameIsItsTypesLength ==
    outcome.status = "Ok" =>
        LET frame == outcome.frame
        IN  /\ frame = SubSeq(input, bytes_consumed - Len(frame) + 1, bytes_consumed)
            /\ Len(frame) > 0 /\ Len(frame) = Declared[frame[1]]

\* Refills keep the buffer a piece of the stream and within its size, and what
\* next() hands out of it is a whole frame.
ReaderSound == TypeOK /\ BufferIsStream /\ FrameIsItsTypesLength

\* Why a call stopped: at a boundary with everything read; or in a frame that
\* the stream cuts short, or that is longer than the buffer.  What trailing_bytes()
\* then says is what has been read and not consumed.
StopsExplained ==
    /\ ~calling /\ outcome.status = "EndOfInput" => bytes_consumed = Len(input)
    /\ ~calling /\ outcome.status = "NeedMore" =>
          /\ read = Len(input) \/ LengthPrefix(buf) > Capacity - kLengthPrefixSize
          /\ trailing_bytes = read - bytes_consumed

\* What a call returns is what the caller may take it for: the next frame, no
\* earlier and no later one, or an end that really is one.
OutcomeExplained == FramesAccounted /\ StopsExplained

\* Whatever number of bytes each read hands out, the calls return what a cursor
\* returns that sees Capacity bytes of the stream from the last boundary on.
\* After an exception the cursor's offset is already part of consumed.
Stream == INSTANCE FrameStream
              WITH Window <- Capacity,
                   offset <- IF outcome = Threw THEN consumed ELSE bytes_consumed

ImplementsFrameStream == Stream!StreamSpec

\* Every call returns: no pass of the loop leaves things as they were.
CallsReturn == calling ~> ~calling

\* The comment on FrameReader::next: NeedMore is returned only when the source
\* is exhausted mid-message, which means a truncated input.
NeedMoreIsTruncation == ~calling /\ outcome.status = "NeedMore" => read = Len(input)
==============================================================================
