------------------------------ MODULE GzipSource ------------------------------
(***************************************************************************)
(* itch::wire::GzipSource: read() runs inflate() until the caller's buffer *)
(* is full or the stream has ended.  One pass of its loop is a step.       *)
(*                                                                         *)
(* inflate() is zlib's.  A compressed stream is a number of tokens, and    *)
(* decodes[i] is how many bytes the first i of them stand for; the last is *)
(* the trailer, which stands for none.  zlib takes tokens in order, takes  *)
(* one only when it has written all the bytes before it, and goes on until *)
(* it has no token left or no room: called with both, as here, it always   *)
(* makes progress, so Z_BUF_ERROR does not occur.                          *)
(***************************************************************************)
EXTENDS Integers, Sequences

CONSTANTS
    Streams,    \* records: decodes, given (tokens of it that are there), corrupt
    Chunk,      \* kInputChunk: tokens read at once at most
    Wants       \* how many bytes a caller may ask for

\* corrupt is the first token that is not what was written, or 0; the trailer
\* stands for no bytes.
ASSUME GzipAssumption ==
    /\ Chunk \in Nat \ {0}
    /\ Wants \subseteq Nat
    /\ \A s \in Streams :
          LET end == Len(s.decodes)
          IN  /\ s.decodes \in Seq(Nat) /\ end > 1
              /\ \A i, j \in 1 .. end : i <= j => s.decodes[i] <= s.decodes[j]
              /\ s.decodes[end - 1] = s.decodes[end]
              /\ s.given \in 0 .. end
              /\ s.corrupt \in 0 .. end

VARIABLES
    stream,             \* the compressed stream
    allow_truncated,    \* allow_truncated_
    fetched,            \* tokens read from inner_
    taken,              \* tokens inflate() has taken
    written,            \* bytes inflate() has written
    finished,           \* finished_
    out_total,          \* out_total_
    want,               \* n of the call in progress, or of the last one
    avail_out,          \* avail_out
    reading,            \* a call of read() is in progress
    result              \* what the last call returned

gzipVars == <<stream, allow_truncated, fetched, taken, written, finished, out_total,
          want, avail_out, reading, result>>

NoResult == -1
Thrown == -2

StreamEnd == Len(stream.decodes)

Decodes(i) == IF i = 0 THEN 0 ELSE stream.decodes[i]

avail_in == fetched - taken

GzipInit ==
    /\ stream \in Streams
    /\ allow_truncated \in BOOLEAN
    /\ fetched = 0
    /\ taken = 0
    /\ written = 0
    /\ finished = FALSE
    /\ out_total = 0
    /\ want = 0
    /\ avail_out = 0
    /\ reading = FALSE
    /\ result = NoResult

\* read() is called, and returns at once when there is nothing to do.
Read(n) ==
    /\ ~reading
    /\ result # Thrown
    /\ want' = n
    /\ IF finished \/ n = 0
       THEN result' = 0 /\ UNCHANGED <<avail_out, reading>>
       ELSE avail_out' = n /\ reading' = TRUE /\ UNCHANGED result
    /\ UNCHANGED <<stream, allow_truncated, fetched, taken, written, finished, out_total>>

ReadThrows ==
    /\ result' = Thrown
    /\ reading' = FALSE
    /\ UNCHANGED <<finished, out_total>>

\* The end of read(), with room for `left' bytes left in the caller's buffer.
ReadEnds(left) ==
    /\ result' = want - left
    /\ out_total' = out_total + (want - left)
    /\ reading' = FALSE

\* The loop goes on while there is room.
Working == reading /\ avail_out # 0

Full ==
    /\ reading
    /\ avail_out = 0
    /\ ReadEnds(0)
    /\ UNCHANGED <<stream, allow_truncated, fetched, taken, written, finished, want, avail_out>>

\* No input is left over: more is read from inner_.
Fetch(k) ==
    /\ Working
    /\ avail_in = 0
    /\ k <= Chunk /\ k <= stream.given - fetched
    /\ fetched' = fetched + k
    /\ UNCHANGED <<stream, allow_truncated, taken, written, finished, out_total, want,
                   avail_out, reading, result>>

\* A mutant: the end of a short stream is retried, not returned.
DryRetried ==
    /\ Working
    /\ avail_in = 0
    /\ fetched = stream.given
    /\ ~allow_truncated
    /\ ReadThrows
    /\ UNCHANGED <<stream, allow_truncated, fetched, taken, written, want, avail_out>>

\* The compressed input ran out, which only allow_truncated forgives.
Dry ==
    /\ Working
    /\ avail_in = 0
    /\ fetched = stream.given
    /\ IF allow_truncated
       THEN finished' = TRUE /\ ReadEnds(avail_out)
       ELSE ReadThrows
    /\ UNCHANGED <<stream, allow_truncated, fetched, taken, written, want, avail_out>>

\* How far one call of inflate() may get: the tokens taken are there, each was
\* taken with everything before it written, and it stops for want of tokens or
\* of room, at the end, or before a token that is corrupt.
Reach == written + avail_out

Inflated(upto) ==
    /\ upto \in taken .. fetched
    /\ stream.corrupt \notin taken + 1 .. upto
    /\ \A i \in taken + 1 .. upto : Decodes(i - 1) <= Reach
    /\ \/ upto = fetched
       \/ Decodes(upto) >= Reach
       \/ upto + 1 = stream.corrupt

WrittenAt(upto) == IF Decodes(upto) < Reach THEN Decodes(upto) ELSE Reach

\* inflate() is called with input and room, and comes to the token upto.
Inflates(upto) ==
    /\ Working
    /\ avail_in > 0
    /\ Inflated(upto)
    /\ taken' = upto
    /\ written' = WrittenAt(upto)
    /\ avail_out' = Reach - written'
    /\ UNCHANGED <<stream, allow_truncated, fetched, want>>

\* It meets a token that is corrupt only with everything before it written.
Corrupted(upto) ==
    upto + 1 = stream.corrupt /\ stream.corrupt <= fetched /\ Decodes(upto) <= Reach

\* Z_OK: the loop goes on.
InflateOk(upto) ==
    /\ Inflates(upto)
    /\ upto # StreamEnd
    /\ upto > taken \/ written' > written
    /\ UNCHANGED <<finished, out_total, reading, result>>

\* A mutant: the bytes written by the call that ends the stream are not counted.
InflateEndUncounted(upto) ==
    /\ Inflates(upto)
    /\ upto = StreamEnd
    /\ finished' = TRUE
    /\ result' = want - avail_out
    /\ out_total' = out_total + result'
    /\ reading' = FALSE

\* Z_STREAM_END: the trailer was read, so everything has been written.
InflateEnd(upto) ==
    /\ Inflates(upto)
    /\ upto = StreamEnd
    /\ finished' = TRUE
    /\ ReadEnds(avail_out')

\* Any other return, Z_BUF_ERROR with input unread among them: the stream is
\* corrupt.  What this call wrote is lost to the caller.
InflateError(upto) ==
    /\ Inflates(upto)
    /\ Corrupted(upto)
    /\ ReadThrows

Round ==
    \/ Full
    \/ \E k \in 1 .. Chunk : Fetch(k)
    \/ Dry
    \/ \E upto \in 0 .. StreamEnd : InflateOk(upto) \/ InflateEnd(upto) \/ InflateError(upto)

GzipNext == (\E n \in Wants : Read(n)) \/ Round

GzipSpec == GzipInit /\ [][GzipNext]_gzipVars /\ WF_gzipVars(Round)

------------------------------------------------------------------------------
(* Properties. *)

\* The tokens and bytes that have passed each stage are in order: never more is
\* taken than was fetched, and never more counted than was written.
GzipTypeOK ==
    /\ allow_truncated \in BOOLEAN
    /\ fetched \in 0 .. stream.given
    /\ taken \in 0 .. fetched
    /\ written \in 0 .. Decodes(taken)
    /\ finished \in BOOLEAN
    /\ out_total \in 0 .. written
    /\ want \in Wants \cup {0}
    /\ avail_out \in Nat /\ (reading => avail_out <= want)
    /\ reading \in BOOLEAN
    /\ result \in Wants \cup Nat \cup {NoResult, Thrown}

\* Every byte inflate() writes is handed to the caller, once, unless the call
\* that wrote it threw.
BytesAccounted ==
    result # Thrown => out_total + (IF reading THEN want - avail_out ELSE 0) = written

\* allow_truncated forgives a short stream, never a broken one, and only the
\* last token may be lost to it; a stream that is all there is all delivered.
EndsAsItMay ==
    finished =>
        /\ stream.corrupt \notin 1 .. stream.given
        /\ IF stream.given = StreamEnd THEN out_total = Decodes(StreamEnd)
           ELSE /\ allow_truncated
                /\ stream.given > 0 => out_total >= Decodes(stream.given - 1)

\* 0 means the input is finished (ByteSource): a caller that asked for bytes and
\* got none never gets any later.  FrameReader takes 0 for the end.
ZeroMeansFinished == ~reading /\ result = 0 /\ want > 0 => finished

\* A stream ends, and says so, only where it may.
EndIsEnd == EndsAsItMay /\ ZeroMeansFinished

\* No byte is lost or handed out twice, and no end is taken for another, for any
\* cut of the stream into reads and any way it may be damaged.
GzipSound == GzipTypeOK /\ BytesAccounted /\ EndIsEnd

\* read() returns, whatever inner_ and inflate() make of the stream.
ReadReturns == reading ~> ~reading
==============================================================================
