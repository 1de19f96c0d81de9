--------------------------- MODULE FrameReaderProof ---------------------------
(***************************************************************************)
(* That a FrameReader returns what a cursor returns that sees the stream   *)
(* itself, for any stream, buffer and set of types, however the source     *)
(* cuts the bytes up; and that a GzipSource is a source like that.         *)
(***************************************************************************)
EXTENDS FeedStats, GzipSource, BookTypesProof, SequenceTheorems, WellFoundedInduction, TLAPS

\* The buffer is a piece of the stream, counted without a gap; a call in
\* progress has a source that has not thrown.
IInv ==
    /\ TypeOK
    /\ BufferIsStream
    /\ consumed + Len(buf) = read
    /\ calling => outcome # Threw
    /\ FrameIsItsTypesLength

------------------------------------------------------------------------------
(* The cursor. *)

\* A length prefix is a natural number.
LEMMA PrefixIsNat ==
    ASSUME NEW b \in Seq(Byte), Len(b) >= 2
    PROVE  LengthPrefix(b) \in Nat
<1>1. b[1] \in Nat /\ b[2] \in Nat /\ MaxByte + 1 \in Nat
  BY CursorAssumption, ElementOfSeq DEF Byte
<1>2. \A x, y \in Nat : x * y \in Nat
  OBVIOUS
<1> QED  BY <1>1, <1>2 DEF LengthPrefix

\* A frame the cursor produces is the body behind the prefix, it is all there,
\* and its length is that of its type.
LEMMA FrameFacts ==
    ASSUME NEW b \in Seq(Byte), Scan(b).status = "Ok"
    PROVE  /\ Scan(b) = [status |-> "Ok", error |-> "None", frame |-> Body(b)]
           /\ LengthPrefix(b) \in Nat \ {0}
           /\ 2 + LengthPrefix(b) <= Len(b)
           /\ Body(b) \in Seq(Byte)
           /\ Len(Body(b)) = LengthPrefix(b)
           /\ Body(b) = SubSeq(b, 3, 2 + LengthPrefix(b))
           /\ Declared[Body(b)[1]] = LengthPrefix(b)
<1>1. /\ Len(b) >= 2 /\ LengthPrefix(b) # 0
      /\ ~(Len(b) - 2 < LengthPrefix(b))
      /\ Declared[b[3]] = LengthPrefix(b)
      /\ Scan(b) = [status |-> "Ok", error |-> "None", frame |-> Body(b)]
  BY DEF Scan, Verdict, kLengthPrefixSize
<1>2. LengthPrefix(b) \in Nat /\ Len(b) \in Nat
  BY <1>1, PrefixIsNat
<1>3. 2 + LengthPrefix(b) <= Len(b)
  BY <1>1, <1>2
<1>4. Body(b) = SubSeq(b, 3, 2 + LengthPrefix(b))
  BY DEF Body, kLengthPrefixSize
<1>5. \A i \in 3 .. 2 + LengthPrefix(b) : b[i] \in Byte
  BY <1>2, <1>3, ElementOfSeq
<1>6. /\ Body(b) \in Seq(Byte) /\ Len(Body(b)) = LengthPrefix(b)
      /\ \A i \in 1 .. LengthPrefix(b) : Body(b)[i] = b[2 + i]
  <2>. PICK last : last = 2 + LengthPrefix(b)
    OBVIOUS
  <2>1. 3 \in Int /\ last \in Int /\ \A i \in 3 .. last : b[i] \in Byte
    BY <1>2, <1>5
  <2>2. /\ SubSeq(b, 3, last) \in Seq(Byte)
        /\ Len(SubSeq(b, 3, last)) = IF 3 <= last THEN last - 3 + 1 ELSE 0
        /\ \A i \in 1 .. last - 3 + 1 : SubSeq(b, 3, last)[i] = b[3 + i - 1]
    BY <2>1, SubSeqProperties
  <2> QED  BY <1>1, <1>2, <1>4, <2>2
<1> QED  BY <1>1, <1>2, <1>3, <1>4, <1>6

\* Every look returns a verdict, and consumes no more than it saw.
LEMMA ScanFacts ==
    ASSUME NEW b \in Seq(Byte)
    PROVE  /\ Scan(b) \in Verdicts
           /\ Scan(b) # Threw
           /\ Consumed(Scan(b)) \in 0 .. Len(b)
           /\ Scan(b).status # "Ok" => Consumed(Scan(b)) = 0
<1>1. CASE Scan(b).status = "Ok"
  <2>1. Scan(b) = [status |-> "Ok", error |-> "None", frame |-> Body(b)]
    BY <1>1, FrameFacts
  <2>2. /\ Body(b) \in Seq(Byte) /\ Len(Body(b)) = LengthPrefix(b)
        /\ LengthPrefix(b) \in Nat /\ 2 + LengthPrefix(b) <= Len(b)
    BY <1>1, FrameFacts
  <2>3. Scan(b) \in Verdicts /\ Scan(b) # Threw
    BY <2>1, <2>2 DEF Verdicts, Statuses, Errors, Threw
  <2>4. Consumed(Scan(b)) = 2 + LengthPrefix(b)
    BY <2>1, <2>2 DEF Consumed, kLengthPrefixSize
  <2> QED  BY <1>1, <2>2, <2>3, <2>4
<1>2. CASE Scan(b).status # "Ok"
  <2>1. \E s \in Statuses, e \in Errors : Scan(b) = Verdict(s, e)
    BY <1>2 DEF Scan, Verdict, Statuses, Errors
  <2>2. <<>> \in Seq(Byte)
    BY EmptySeq
  <2>3. Scan(b) \in Verdicts /\ Scan(b) # Threw
    BY <2>1, <2>2 DEF Verdict, Verdicts, Threw, Statuses
  <2> QED  BY <1>2, <2>3 DEF Consumed
<1> QED  BY <1>1, <1>2

\* A frame, or a fault, is seen as well by who sees more of the stream: the
\* cursor looks at nothing behind the frame it is at.
LEMMA ScanIsLocal ==
    ASSUME NEW c \in Seq(Byte), NEW n \in 0 .. Len(c), NEW b,
           b = SubSeq(c, 1, n),
           Scan(b).status \in {"Ok", "Malformed"}
    PROVE  Scan(c) = Scan(b)
<1>1. b \in Seq(Byte) /\ Len(b) = n /\ \A i \in 1 .. n : b[i] = c[i]
  <2>1. \A i \in 1 .. n : c[i] \in Byte
    BY ElementOfSeq
  <2>2. 1 \in Int /\ n \in Int
    OBVIOUS
  <2>3. /\ SubSeq(c, 1, n) \in Seq(Byte)
        /\ Len(SubSeq(c, 1, n)) = IF 1 <= n THEN n - 1 + 1 ELSE 0
        /\ \A i \in 1 .. n - 1 + 1 : SubSeq(c, 1, n)[i] = c[1 + i - 1]
    BY <2>1, <2>2, SubSeqProperties
  <2> QED  BY <2>3
<1>2. Len(b) >= 2
  BY <1>1 DEF Scan, Verdict, kLengthPrefixSize
<1>3. LengthPrefix(c) = LengthPrefix(b) /\ LengthPrefix(b) \in Nat
  BY <1>1, <1>2, PrefixIsNat DEF LengthPrefix
<1>4. Len(c) \in Nat /\ n <= Len(c) /\ Len(c) >= 2
  BY <1>1, <1>2
<1>5. CASE LengthPrefix(b) = 0
  BY <1>1, <1>2, <1>3, <1>4, <1>5 DEF Scan, kLengthPrefixSize
<1>6. CASE LengthPrefix(b) # 0
  <2>1. ~(Len(b) - 2 < LengthPrefix(b))
    BY <1>1, <1>2, <1>6 DEF Scan, Verdict, kLengthPrefixSize
  <2>2. ~(Len(c) - 2 < LengthPrefix(c)) /\ n >= 3 /\ 2 + LengthPrefix(b) <= n
    BY <1>1, <1>3, <1>4, <1>6, <2>1
  <2>3. c[3] = b[3]
    BY <1>1, <2>2
  <2>4. Body(c) = Body(b)
    <3>. PICK last : last = 2 + LengthPrefix(b)
      OBVIOUS
    <3>1. /\ 1 \in 1 .. Len(c) /\ n \in 1 .. Len(c)
          /\ 3 \in 1 .. n - 1 + 1 /\ last \in 1 .. n - 1 + 1
          /\ 1 + 3 - 1 = 3 /\ 1 + last - 1 = last
      BY <1>3, <1>4, <2>2
    <3>2. SubSeq(SubSeq(c, 1, n), 3, last) = SubSeq(c, 1 + 3 - 1, 1 + last - 1)
      BY <3>1, SubSeqOfSubSeq
    <3>3. SubSeq(b, 3, last) = SubSeq(c, 3, last)
      BY <3>1, <3>2
    <3>4. Body(b) = SubSeq(b, 3, last) /\ Body(c) = SubSeq(c, 3, last)
      BY <1>3 DEF Body, kLengthPrefixSize
    <3> QED  BY <3>3, <3>4
  <2> QED  BY <1>1, <1>2, <1>3, <1>4, <1>6, <2>1, <2>2, <2>3, <2>4
           DEF Scan, kLengthPrefixSize
<1> QED  BY <1>5, <1>6

------------------------------------------------------------------------------
(* Pieces of a stream, the empty ones included. *)

\* A piece of a stream is a sequence of bytes, as long as its ends say.
LEMMA PieceFacts ==
    ASSUME NEW s \in Seq(Byte), NEW m \in 1 .. Len(s) + 1, NEW n \in m - 1 .. Len(s)
    PROVE  SubSeq(s, m, n) \in Seq(Byte) /\ Len(SubSeq(s, m, n)) = n - m + 1
<1>1. m \in Int /\ n \in Int /\ \A i \in m .. n : s[i] \in Byte
  BY ElementOfSeq
<1>2. /\ SubSeq(s, m, n) \in Seq(Byte)
      /\ Len(SubSeq(s, m, n)) = IF m <= n THEN n - m + 1 ELSE 0
  BY <1>1, SubSeqProperties
<1> QED  BY <1>2

\* A piece of a piece is a piece.
LEMMA PieceOfPiece ==
    ASSUME NEW s \in Seq(Byte), NEW m \in 1 .. Len(s) + 1, NEW n \in m - 1 .. Len(s),
           NEW i \in 1 .. n - m + 2, NEW k \in i - 1 .. n - m + 1
    PROVE  SubSeq(SubSeq(s, m, n), i, k) = SubSeq(s, m + i - 1, m + k - 1)
<1>1. CASE i <= k
  <2>1. /\ m \in 1 .. Len(s) /\ n \in 1 .. Len(s)
        /\ i \in 1 .. n - m + 1 /\ k \in 1 .. n - m + 1
    BY <1>1
  <2> QED  BY <2>1, SubSeqOfSubSeq
<1>2. CASE k < i
  <2>1. i \in Int /\ k \in Int /\ m + i - 1 \in Int /\ m + k - 1 \in Int /\ m + k - 1 < m + i - 1
    BY <1>2
  <2>2. SubSeq(SubSeq(s, m, n), i, k) = <<>>
    BY <1>2, <2>1, SubSeqEmpty
  <2>3. SubSeq(s, m + i - 1, m + k - 1) = <<>>
    BY <2>1, SubSeqEmpty
  <2> QED  BY <2>2, <2>3
<1> QED  BY <1>1, <1>2

------------------------------------------------------------------------------
(* The reader. *)

\* The bytes the cursor has not consumed are the stream's from the boundary on.
LEMMA RestFacts ==
    ASSUME IInv, outcome # Threw
    PROVE  /\ input \in Seq(Byte) /\ Len(input) \in Nat
           /\ consumed \in Nat /\ pos \in Nat /\ bytes_consumed \in Nat
           /\ read \in 0 .. Len(input)
           /\ bytes_consumed <= read
           /\ Rest = SubSeq(input, bytes_consumed + 1, read)
           /\ Rest \in Seq(Byte)
           /\ Len(Rest) = read - bytes_consumed
           /\ Len(Rest) = Len(buf) - pos
           /\ Len(Rest) <= Capacity
<1>1. /\ input \in Seq(Byte) /\ Len(input) \in Nat /\ consumed \in Nat /\ pos \in Nat
      /\ read \in 0 .. Len(input) /\ buf \in Seq(Byte) /\ Len(buf) \in Nat
      /\ Len(buf) <= Capacity /\ Capacity \in Nat /\ pos <= Len(buf)
      /\ consumed + Len(buf) = read
      /\ buf = SubSeq(input, consumed + 1, read)
  BY ReaderAssumption DEF IInv, TypeOK, BufferIsStream
<1>2. bytes_consumed = consumed + pos /\ bytes_consumed \in Nat /\ bytes_consumed <= read
  BY <1>1 DEF bytes_consumed
<1>3. /\ consumed + 1 \in 1 .. Len(input) + 1
      /\ read \in (consumed + 1) - 1 .. Len(input)
      /\ pos + 1 \in 1 .. read - (consumed + 1) + 2
      /\ Len(buf) \in (pos + 1) - 1 .. read - (consumed + 1) + 1
  BY <1>1
<1>4. Rest = SubSeq(input, (consumed + 1) + (pos + 1) - 1, (consumed + 1) + Len(buf) - 1)
  BY <1>1, <1>3, PieceOfPiece DEF Rest
<1>5. /\ (consumed + 1) + (pos + 1) - 1 = bytes_consumed + 1
      /\ (consumed + 1) + Len(buf) - 1 = read
  BY <1>1, <1>2
<1>6. Rest = SubSeq(input, bytes_consumed + 1, read)
  BY <1>4, <1>5
<1>7. bytes_consumed + 1 \in 1 .. Len(input) + 1 /\ read \in (bytes_consumed + 1) - 1 .. Len(input)
  BY <1>1, <1>2
<1>8. Rest \in Seq(Byte) /\ Len(Rest) = read - (bytes_consumed + 1) + 1
  BY <1>1, <1>6, <1>7, PieceFacts
<1> QED  BY <1>1, <1>2, <1>6, <1>8

\* What Capacity bytes of lookahead show begins with what the buffer holds, and
\* is just that when the buffer is full or the stream has been read.
LEMMA AheadFacts ==
    ASSUME IInv, outcome # Threw
    PROVE  /\ Stream!Ahead \in Seq(Byte)
           /\ Len(Rest) <= Len(Stream!Ahead)
           /\ Rest = SubSeq(Stream!Ahead, 1, Len(Rest))
           /\ Len(Rest) = Capacity \/ read = Len(input) => Stream!Ahead = Rest
<1>. PICK last : last = IF bytes_consumed + Capacity < Len(input)
                        THEN bytes_consumed + Capacity ELSE Len(input)
  OBVIOUS
<1>0. /\ input \in Seq(Byte) /\ Len(input) \in Nat /\ bytes_consumed \in Nat
      /\ read \in 0 .. Len(input) /\ bytes_consumed <= read
      /\ Rest = SubSeq(input, bytes_consumed + 1, read)
      /\ Len(Rest) = read - bytes_consumed /\ Len(Rest) <= Capacity /\ Capacity \in Nat
  BY RestFacts, ReaderAssumption
<1>1. Stream!Ahead = SubSeq(input, bytes_consumed + 1, last)
  BY DEF Stream!Ahead
<1>2. last \in read .. Len(input)
  BY <1>0
<1>3. /\ bytes_consumed + 1 \in 1 .. Len(input) + 1
      /\ last \in (bytes_consumed + 1) - 1 .. Len(input)
  BY <1>0, <1>2
<1>4. Stream!Ahead \in Seq(Byte) /\ Len(Stream!Ahead) = last - (bytes_consumed + 1) + 1
  BY <1>0, <1>1, <1>3, PieceFacts
<1>5. Len(Stream!Ahead) = last - bytes_consumed
  BY <1>0, <1>2, <1>4
<1>6. SubSeq(Stream!Ahead, 1, Len(Rest)) = Rest
  <2>1. /\ 1 \in 1 .. last - (bytes_consumed + 1) + 2
        /\ Len(Rest) \in 1 - 1 .. last - (bytes_consumed + 1) + 1
        /\ (bytes_consumed + 1) + 1 - 1 = bytes_consumed + 1
        /\ (bytes_consumed + 1) + Len(Rest) - 1 = read
    BY <1>0, <1>2
  <2>2. SubSeq(Stream!Ahead, 1, Len(Rest))
           = SubSeq(input, (bytes_consumed + 1) + 1 - 1, (bytes_consumed + 1) + Len(Rest) - 1)
    BY <1>0, <1>1, <1>3, <2>1, PieceOfPiece
  <2> QED  BY <1>0, <2>1, <2>2
<1>7. Len(Rest) = Capacity \/ read = Len(input) => last = read
  BY <1>0
<1>8. Len(Rest) <= Len(Stream!Ahead)
  BY <1>0, <1>2, <1>5
<1>9. last = read => Stream!Ahead = Rest
  BY <1>0, <1>1, Zenon
<1> QED  BY <1>4, <1>6, <1>7, <1>8, <1>9, Zenon

------------------------------------------------------------------------------
(* The steps. *)

\* The reader starts with an empty buffer, at the start of the stream.
LEMMA InitIInv == ASSUME Init PROVE IInv
<1>1. input \in Seq(Byte) /\ Len(input) \in Nat /\ Capacity \in Nat
  BY ReaderAssumption DEF Init
<1>2. <<>> \in Seq(Byte) /\ Len(<<>>) = 0
  BY EmptySeq
<1>3. TypeOK
  <2>1. 0 \in 0 .. Len(input) /\ 0 \in 0 .. Capacity /\ 0 \in Nat /\ FALSE \in BOOLEAN
        /\ 0 <= Capacity /\ 0 <= 0
    BY <1>1
  <2> QED  BY <1>2, <2>1, Zenon DEF Init, TypeOK
<1>4. BufferIsStream
  <2>1. SubSeq(input, 1, 0) = <<>>
    BY SubSeqEmpty
  <2> QED  BY <2>1 DEF Init, BufferIsStream
<1>5. FrameIsItsTypesLength
  BY DEF Init, FrameIsItsTypesLength, NotCalled
<1> QED  BY <1>2, <1>3, <1>4, <1>5 DEF Init, IInv

\* A frame produced from a piece of a stream is a piece of the stream itself,
\* and ends where the cursor comes to stand.
LEMMA FrameIsPiece ==
    ASSUME NEW s \in Seq(Byte), NEW start \in 0 .. Len(s), NEW end \in start .. Len(s),
           NEW b, b = SubSeq(s, start + 1, end), Scan(b).status = "Ok"
    PROVE  /\ Scan(b).frame = SubSeq(s, start + 3, start + Consumed(Scan(b)))
           /\ Len(Scan(b).frame) \in Nat \ {0}
           /\ Consumed(Scan(b)) = 2 + Len(Scan(b).frame)
           /\ Len(Scan(b).frame) = Declared[Scan(b).frame[1]]
<1>. PICK length : length = LengthPrefix(b)
  OBVIOUS
<1>0. Len(s) \in Nat /\ start \in Nat /\ end \in Nat
  OBVIOUS
<1>1. b \in Seq(Byte) /\ Len(b) = end - start
  <2>. PICK m : m = start + 1
    OBVIOUS
  <2>1. m \in 1 .. Len(s) + 1 /\ end \in m - 1 .. Len(s) /\ end - m + 1 = end - start
    BY <1>0
  <2> QED  BY <2>1, PieceFacts
<1>2. /\ Scan(b).frame = Body(b) /\ length \in Nat \ {0} /\ 2 + length <= Len(b)
      /\ Len(Scan(b).frame) = length /\ Scan(b).frame = SubSeq(b, 3, 2 + length)
      /\ Declared[Scan(b).frame[1]] = length
  <2>1. Scan(b) = [status |-> "Ok", error |-> "None", frame |-> Body(b)]
    BY <1>1, FrameFacts
  <2>2. Scan(b).frame = Body(b)
    BY <2>1
  <2> QED  BY <1>1, <2>2, FrameFacts
<1>3. Consumed(Scan(b)) = 2 + length
  BY <1>2 DEF Consumed, kLengthPrefixSize
<1>4. Scan(b).frame = SubSeq(s, start + 3, start + (2 + length))
  <2>. PICK m, k : m = start + 1 /\ k = 2 + length
    OBVIOUS
  <2>1. length \in Nat /\ 2 + length <= end - start
    BY <1>1, <1>2
  <2>2. /\ m \in 1 .. Len(s) + 1 /\ end \in m - 1 .. Len(s)
        /\ 3 \in 1 .. end - m + 2 /\ k \in 3 - 1 .. end - m + 1
    BY <1>0, <2>1
  <2>a. m + 3 - 1 = start + 3 /\ m + k - 1 = start + (2 + length)
    BY <1>0, <2>1
  <2>3. SubSeq(b, 3, k) = SubSeq(s, m + 3 - 1, m + k - 1)
    BY <2>2, PieceOfPiece
  <2>4. Scan(b).frame = SubSeq(b, 3, k)
    BY <1>2
  <2> QED  BY <2>a, <2>3, <2>4
<1> QED  BY <1>2, <1>3, <1>4

\* next() returns from where the cursor stands.
LEMMA ProduceIInv == ASSUME IInv, Produce PROVE IInv'
<1>1. outcome # Threw /\ Rest \in Seq(Byte) /\ Len(Rest) = Len(buf) - pos
      /\ consumed \in Nat /\ pos \in Nat
  BY RestFacts DEF IInv, Produce
<1>2. Look \in Verdicts /\ Look # Threw /\ Consumed(Look) \in 0 .. Len(Rest)
      /\ (Look.status # "Ok" => Consumed(Look) = 0)
  BY <1>1, ScanFacts DEF Look
<1>3. /\ pos' = pos + Consumed(Look) /\ outcome' = Look /\ calling' = FALSE
      /\ frames' \in Nat
      /\ UNCHANGED <<input, read, buf, consumed>>
  BY DEF Produce, Returns, IInv, TypeOK
<1>4. TypeOK'
  <2>1. pos' \in 0 .. Len(buf) /\ Len(buf) \in Nat /\ Len(buf) <= Capacity /\ Capacity \in Nat
    BY <1>1, <1>2, <1>3, ReaderAssumption DEF IInv, TypeOK
  <2>2. pos' \in 0 .. Capacity /\ pos' <= Len(buf)
    BY <2>1
  <2>3. /\ input \in Inputs /\ read \in 0 .. Len(input) /\ consumed \in 0 .. Len(input)
        /\ buf \in Seq(Byte) /\ Len(buf) <= Capacity
    BY DEF IInv, TypeOK
  <2>4. outcome' \in Verdicts \cup {NotCalled, Threw}
    BY <1>2, <1>3
  <2>5. calling' \in BOOLEAN
    BY <1>3, Zenon
  <2> QED  BY <1>3, <2>2, <2>3, <2>4, <2>5, Zenon DEF TypeOK
<1>5. BufferIsStream' /\ (consumed + Len(buf) = read)'
  BY <1>3 DEF IInv, BufferIsStream
<1>6. FrameIsItsTypesLength'
  <2>1. bytes_consumed' = bytes_consumed + Consumed(Look)
    BY <1>1, <1>2, <1>3 DEF bytes_consumed
  <2>2. CASE Look.status = "Ok"
    <3>1. /\ input \in Seq(Byte) /\ bytes_consumed \in 0 .. Len(input)
          /\ bytes_consumed \in Nat /\ read \in bytes_consumed .. Len(input)
          /\ Rest = SubSeq(input, bytes_consumed + 1, read)
      BY <1>1, RestFacts
    <3>2. /\ Look.frame = SubSeq(input, bytes_consumed + 3, bytes_consumed + Consumed(Look))
          /\ Len(Look.frame) \in Nat \ {0}
          /\ Consumed(Look) = 2 + Len(Look.frame)
          /\ Len(Look.frame) = Declared[Look.frame[1]]
      <4>1. Look = Scan(Rest) /\ Scan(Rest).status = "Ok"
        BY <2>2 DEF Look
      <4>2. /\ Scan(Rest).frame = SubSeq(input, bytes_consumed + 3, bytes_consumed + Consumed(Scan(Rest)))
            /\ Len(Scan(Rest).frame) \in Nat \ {0}
            /\ Consumed(Scan(Rest)) = 2 + Len(Scan(Rest).frame)
            /\ Len(Scan(Rest).frame) = Declared[Scan(Rest).frame[1]]
        <5>1. input \in Seq(Byte) /\ bytes_consumed \in 0 .. Len(input)
              /\ read \in bytes_consumed .. Len(input)
          BY <3>1
        <5>2. Rest = SubSeq(input, bytes_consumed + 1, read) /\ Scan(Rest).status = "Ok"
          BY <3>1, <4>1
        <5> QED  BY <5>1, <5>2, FrameIsPiece, ZenonT(40)
      <4> QED  BY <4>1, <4>2, Zenon
    <3>3. bytes_consumed' - Len(Look.frame) + 1 = bytes_consumed + 3
      <4>p. PICK start, length, after :
               start = bytes_consumed /\ length = Len(Look.frame) /\ after = bytes_consumed'
        OBVIOUS
      <4>1. start \in Nat /\ length \in Nat /\ after = start + (2 + length)
        <5>1. length \in Nat /\ Consumed(Look) = 2 + length
          BY <3>2, <4>p, Zenon
        <5> QED  BY <2>1, <3>1, <4>p, <5>1
      <4>2. after - length + 1 = start + 3
        BY <4>1
      <4> QED  BY <4>p, <4>2, Zenon
    <3>4. Len(Look.frame) > 0
      <4>1. \A n \in Nat \ {0} : n > 0
        OBVIOUS
      <4> QED  BY <3>2, <4>1, Zenon
    <3> QED  BY <1>3, <2>1, <3>2, <3>3, <3>4, Zenon DEF FrameIsItsTypesLength
  <2>3. CASE Look.status # "Ok"
    BY <1>3, <2>3 DEF FrameIsItsTypesLength
  <2> QED  BY <2>2, <2>3
<1> QED  BY <1>3, <1>4, <1>5, <1>6 DEF IInv

\* What both halves of refill() leave alone: the boundary, and the frame that
\* ends there.
LEMMA BoundaryKept ==
    ASSUME IInv, outcome # Threw, consumed' = consumed + pos, pos' = 0,
           UNCHANGED <<input, outcome>>
    PROVE  bytes_consumed' = bytes_consumed /\ FrameIsItsTypesLength'
<1>1. bytes_consumed' = bytes_consumed
  BY RestFacts DEF bytes_consumed
<1> QED  BY <1>1 DEF IInv, FrameIsItsTypesLength

\* refill(): what the source hands out continues the tail.
LEMMA RefillIInv ==
    ASSUME IInv, NEW n \in 1 .. Len(input) - read, Refill(n)
    PROVE  IInv' /\ bytes_consumed' = bytes_consumed
<1>1. /\ outcome # Threw /\ consumed' = consumed + pos /\ pos' = 0 /\ read' = read + n
      /\ buf' = Rest \o SubSeq(input, read + 1, read + n)
      /\ n <= Capacity - Len(Rest)
      /\ UNCHANGED <<input, frames, calling, outcome>>
  BY DEF IInv, Refill
<1>2. /\ input \in Seq(Byte) /\ Len(input) \in Nat
      /\ consumed \in Nat /\ pos \in Nat /\ bytes_consumed \in Nat
      /\ read \in 0 .. Len(input) /\ bytes_consumed <= read
      /\ Rest = SubSeq(input, bytes_consumed + 1, read)
      /\ Rest \in Seq(Byte) /\ Len(Rest) = read - bytes_consumed
      /\ bytes_consumed = consumed + pos /\ Capacity \in Nat
  BY <1>1, RestFacts, ReaderAssumption DEF bytes_consumed
<1>3. SubSeq(input, read + 1, read + n) \in Seq(Byte) /\ Len(SubSeq(input, read + 1, read + n)) = n
  <2>. PICK k, m : k = read + 1 /\ m = read + n
    OBVIOUS
  <2>1. k \in 1 .. Len(input) + 1 /\ m \in k - 1 .. Len(input) /\ m - k + 1 = n
    BY <1>2
  <2> QED  BY <1>2, <2>1, PieceFacts
<1>4. buf' \in Seq(Byte) /\ Len(buf') = Len(Rest) + n
  <2>1. PICK t : t = SubSeq(input, read + 1, read + n)
    OBVIOUS
  <2>2. Rest \in Seq(Byte) /\ t \in Seq(Byte) /\ Len(t) = n /\ buf' = Rest \o t
    BY <1>1, <1>2, <1>3, <2>1
  <2>3. Rest \o t \in Seq(Byte) /\ Len(Rest \o t) = Len(Rest) + Len(t)
    BY <2>2, ConcatProperties
  <2> QED  BY <2>2, <2>3
<1>5. buf' = SubSeq(input, bytes_consumed + 1, read + n)
  <2>1. /\ bytes_consumed + 1 \in 1 .. Len(input) + 1
        /\ read \in (bytes_consumed + 1) - 1 .. Len(input)
        /\ read + n \in read .. Len(input)
    BY <1>2
  <2> QED  BY <1>1, <1>2, <2>1, ConcatAdjacentSubSeq
<1>6. bytes_consumed' = bytes_consumed /\ FrameIsItsTypesLength'
  BY <1>1, BoundaryKept
<1>7. BufferIsStream' /\ (consumed + Len(buf) = read)'
  <2>1. consumed' = bytes_consumed /\ input' = input /\ read' = read + n
    BY <1>1, <1>2
  <2>2. BufferIsStream'
    BY <1>5, <2>1, Zenon DEF BufferIsStream
  <2> QED  BY <1>2, <1>4, <2>1, <2>2
<1>8. TypeOK'
  <2>1. Len(buf') <= Capacity /\ pos' \in 0 .. Capacity /\ pos' <= Len(buf')
    BY <1>1, <1>2, <1>4
  <2>2. read' \in 0 .. Len(input) /\ consumed' \in 0 .. Len(input)
    BY <1>1, <1>2
  <2> QED  BY <1>1, <1>4, <2>1, <2>2 DEF IInv, TypeOK
<1> QED  BY <1>1, <1>6, <1>7, <1>8 DEF IInv

\* refill() when the source delivers nothing: the tail alone is in the buffer.
LEMMA TailToFront ==
    ASSUME IInv, outcome # Threw, consumed' = consumed + pos, buf' = Rest,
           UNCHANGED <<input, read>>
    PROVE  /\ BufferIsStream' /\ (consumed + Len(buf) = read)'
           /\ consumed' = bytes_consumed
           /\ buf' \in Seq(Byte) /\ Len(buf') <= Capacity
           /\ consumed' \in 0 .. Len(input)
<1>1. /\ Len(input) \in Nat /\ bytes_consumed \in Nat /\ bytes_consumed = consumed + pos
      /\ read \in 0 .. Len(input) /\ bytes_consumed <= read
      /\ Rest = SubSeq(input, bytes_consumed + 1, read)
      /\ Rest \in Seq(Byte) /\ Len(Rest) = read - bytes_consumed /\ Len(Rest) <= Capacity
  BY RestFacts DEF bytes_consumed
<1>2. BufferIsStream'
  BY <1>1 DEF BufferIsStream
<1>3. consumed' + Len(buf') = read /\ consumed' \in 0 .. Len(input)
  BY <1>1
<1> QED  BY <1>1, <1>2, <1>3

\* next() returns from the end of what the source delivers.
LEMMA ExhaustedIInv ==
    ASSUME IInv, Exhausted
    PROVE  IInv' /\ consumed' = bytes_consumed /\ pos' = 0
<1>1. /\ outcome # Threw /\ consumed' = consumed + pos /\ buf' = Rest
      /\ UNCHANGED <<input, read>> /\ outcome' = Look /\ calling' = FALSE
      /\ Look.status # "Ok" /\ pos' = Consumed(Look)
  BY DEF IInv, Exhausted, Returns
<1>2. /\ BufferIsStream' /\ (consumed + Len(buf) = read)'
      /\ consumed' = bytes_consumed
      /\ buf' \in Seq(Byte) /\ Len(buf') <= Capacity
      /\ consumed' \in 0 .. Len(input)
  BY <1>1, TailToFront
<1>3. Look \in Verdicts /\ Look # Threw /\ pos' = 0
  BY <1>1, RestFacts, ScanFacts DEF Look
<1>4. pos' \in 0 .. Capacity /\ pos' <= Len(buf') /\ Len(buf') \in Nat
  BY <1>2, <1>3, ReaderAssumption
<1>5. frames' \in Nat
  BY DEF Exhausted, Returns, IInv, TypeOK
<1>6. input \in Inputs /\ read \in 0 .. Len(input)
  BY DEF IInv, TypeOK
<1>7. calling' \in BOOLEAN
  BY <1>1, Zenon
<1>8. TypeOK'
  BY <1>1, <1>2, <1>3, <1>4, <1>5, <1>6, <1>7, Zenon DEF TypeOK
<1>9. FrameIsItsTypesLength'
  BY <1>1 DEF FrameIsItsTypesLength
<1> QED  BY <1>1, <1>2, <1>3, <1>8, <1>9 DEF IInv

\* An exception of the source leaves a buffer that is still the stream's, with
\* the boundary in consumed alone.
LEMMA ThrowsIInv ==
    ASSUME IInv, SourceThrows
    PROVE  IInv' /\ consumed' = bytes_consumed
<1>1. /\ outcome # Threw /\ consumed' = consumed + pos /\ buf' = Rest
      /\ UNCHANGED <<input, read, pos, frames>> /\ outcome' = Threw /\ calling' = FALSE
  BY DEF IInv, SourceThrows
<1>2. /\ BufferIsStream' /\ (consumed + Len(buf) = read)'
      /\ consumed' = bytes_consumed
      /\ buf' \in Seq(Byte) /\ Len(buf') <= Capacity
      /\ consumed' \in 0 .. Len(input)
  BY <1>1, TailToFront
<1>3. input \in Inputs /\ read \in 0 .. Len(input) /\ pos \in 0 .. Capacity /\ frames \in Nat
  BY DEF IInv, TypeOK
<1>4. calling' \in BOOLEAN
  BY <1>1, Zenon
<1>5. TypeOK'
  BY <1>1, <1>2, <1>3, <1>4, Zenon DEF TypeOK
<1>6. FrameIsItsTypesLength'
  BY <1>1 DEF FrameIsItsTypesLength, Threw
<1> QED  BY <1>1, <1>2, <1>5, <1>6, Zenon DEF IInv

\* A call that begins changes nothing yet.
LEMMA CallIInv == ASSUME IInv, Call PROVE IInv'
<1>1. outcome # Threw /\ calling' = TRUE
      /\ UNCHANGED <<input, read, buf, pos, consumed, frames, outcome>>
  BY DEF Call
<1>2. TypeOK'
  BY <1>1, Zenon DEF IInv, TypeOK
<1>3. BufferIsStream' /\ FrameIsItsTypesLength' /\ (consumed + Len(buf) = read)'
  BY <1>1 DEF IInv, BufferIsStream, FrameIsItsTypesLength, bytes_consumed
<1> QED  BY <1>1, <1>2, <1>3, Zenon DEF IInv

\* Every step of next() keeps the invariant.
LEMMA NextIInv == ASSUME IInv, [Next]_vars PROVE IInv'
<1>1. CASE Call
  BY <1>1, CallIInv
<1>2. CASE Produce
  BY <1>2, ProduceIInv
<1>3. ASSUME NEW n \in 1 .. Len(input) - read, Refill(n) PROVE IInv'
  BY <1>3, RefillIInv
<1>4. CASE Exhausted
  BY <1>4, ExhaustedIInv
<1>5. CASE SourceThrows
  BY <1>5, ThrowsIInv
<1>6. CASE UNCHANGED vars
  BY <1>6 DEF vars, IInv, TypeOK, BufferIsStream, FrameIsItsTypesLength, bytes_consumed
<1> QED  BY <1>1, <1>2, <1>3, <1>4, <1>5, <1>6 DEF Next, Pass

------------------------------------------------------------------------------
(* The count of the frames. *)

\* e[i] is where the i-th frame of s ends.
Ends(e, s, n) ==
    e = [i \in 0 .. n |->
            IF i = 0 THEN 0 ELSE e[i - 1] + Consumed(Scan(SubSeq(s, e[i - 1] + 1, Len(s))))]

\* The frames so far end where EndOfFrame says, for these places exist: the
\* reader has stood at each of them.
Counted ==
    \E e \in [0 .. frames -> Nat] :
        /\ Ends(e, input, frames)
        /\ e[frames] = bytes_consumed
        /\ frames > 0 => e[frames - 1] < bytes_consumed

LEMMA EndOfFrameRead == EndOfFrame = CHOOSE e : Ends(e, input, frames)
  BY DEF EndOfFrame, Ends

LEMMA EndStep ==
    ASSUME NEW e, NEW s, NEW n \in Nat, Ends(e, s, n), NEW i \in 0 .. n
    PROVE  e[i] = IF i = 0 THEN 0
                  ELSE e[i - 1] + Consumed(Scan(SubSeq(s, e[i - 1] + 1, Len(s))))
<1>1. PICK k : k = e
  OBVIOUS
<1>2. k = [j \in 0 .. n |->
             IF j = 0 THEN 0 ELSE e[j - 1] + Consumed(Scan(SubSeq(s, e[j - 1] + 1, Len(s))))]
  BY <1>1 DEF Ends
<1>3. k[i] = IF i = 0 THEN 0
             ELSE e[i - 1] + Consumed(Scan(SubSeq(s, e[i - 1] + 1, Len(s))))
  BY <1>2
<1> QED  BY <1>1, <1>3

\* The frames of a stream end in one way: there is no first one that two
\* counts place differently.
LEMMA EndsAgree ==
    ASSUME NEW e, NEW f, NEW s, NEW n \in Nat, Ends(e, s, n), Ends(f, s, n)
    PROVE  \A i \in 0 .. n : e[i] = f[i]
<1> DEFINE Wrong == {i \in 0 .. n : e[i] # f[i]}
           R == {ss \in Nat \X Nat : ss[1] < ss[2]}
<1>1. SUFFICES ASSUME Wrong # {} PROVE FALSE
  OBVIOUS
<1>2. IsWellFoundedOn(R, Nat)
  BY NatLessThanWellFounded DEF OpToRel
<1>3. PICK i \in Wrong : \A j \in Wrong : ~ (<<j, i>> \in R)
  <2>1. Wrong \subseteq Nat
    OBVIOUS
  <2> HIDE DEF R, Wrong
  <2> QED  BY <1>1, <1>2, <2>1, WFMin
<1>4. i \in 0 .. n
  OBVIOUS
<1>5. i # 0 => e[i - 1] = f[i - 1]
  <2>1. SUFFICES ASSUME i # 0 PROVE e[i - 1] = f[i - 1]
    OBVIOUS
  <2>2. i - 1 \in 0 .. n /\ <<i - 1, i>> \in R
    BY <1>4, <2>1
  <2>3. i - 1 \notin Wrong
    BY <1>3, <2>2, Zenon
  <2> QED  BY <2>2, <2>3
<1>6. e[i] = IF i = 0 THEN 0 ELSE e[i - 1] + Consumed(Scan(SubSeq(s, e[i - 1] + 1, Len(s))))
  BY <1>4, EndStep
<1>7. f[i] = IF i = 0 THEN 0 ELSE f[i - 1] + Consumed(Scan(SubSeq(s, f[i - 1] + 1, Len(s))))
  BY <1>4, EndStep
<1>8. e[i] = f[i]
  <2>1. CASE i = 0
    BY <1>6, <1>7, <2>1
  <2>2. CASE i # 0
    BY <1>5, <1>6, <1>7, <2>2, Zenon
  <2> QED  BY <2>1, <2>2
<1> QED  BY <1>8

\* Where the reader stands is where a cursor over the whole stream would stand.
LEMMA CountedIsAccounted ==
    ASSUME frames \in Nat, outcome # Threw => Counted
    PROVE  FramesAccounted
<1>1. SUFFICES ASSUME outcome # Threw
               PROVE  /\ bytes_consumed = EndOfFrame[frames]
                      /\ frames > 0 => EndOfFrame[frames - 1] < bytes_consumed
  BY DEF FramesAccounted
<1>2. PICK e \in [0 .. frames -> Nat] :
         /\ Ends(e, input, frames)
         /\ e[frames] = bytes_consumed
         /\ frames > 0 => e[frames - 1] < bytes_consumed
  BY <1>1 DEF Counted
<1>3. PICK g : g = EndOfFrame
  OBVIOUS
<1>4. Ends(g, input, frames)
  BY <1>2, <1>3, EndOfFrameRead
<1>5. \A i \in 0 .. frames : g[i] = e[i]
  BY <1>2, <1>4, EndsAgree
<1>6. frames \in 0 .. frames /\ (frames > 0 => frames - 1 \in 0 .. frames)
  OBVIOUS
<1> QED  BY <1>2, <1>3, <1>5, <1>6

\* A frame or a fault found in what the buffer holds is what the whole rest of
\* the stream begins with.
LEMMA LookIsAhead ==
    ASSUME IInv, outcome # Threw, Look.status \in {"Ok", "Malformed"}
    PROVE  Scan(SubSeq(input, bytes_consumed + 1, Len(input))) = Look
<1>1. /\ input \in Seq(Byte) /\ Len(input) \in Nat /\ bytes_consumed \in Nat
      /\ read \in 0 .. Len(input) /\ bytes_consumed <= read
      /\ Rest = SubSeq(input, bytes_consumed + 1, read)
      /\ Len(Rest) = read - bytes_consumed
  BY RestFacts
<1>2. PICK m, last, n : m = bytes_consumed + 1 /\ last = Len(input) /\ n = Len(Rest)
  OBVIOUS
<1>3. PICK c : c = SubSeq(input, m, last)
  OBVIOUS
<1>4. m \in 1 .. Len(input) + 1 /\ last \in m - 1 .. Len(input)
  BY <1>1, <1>2
<1>5. c \in Seq(Byte) /\ Len(c) = last - m + 1
  BY <1>1, <1>3, <1>4, PieceFacts
<1>6. /\ n \in 0 .. Len(c) /\ 1 \in 1 .. last - m + 2 /\ n \in 1 - 1 .. last - m + 1
      /\ m + 1 - 1 = bytes_consumed + 1 /\ m + n - 1 = read
  BY <1>1, <1>2, <1>5
<1>7. SubSeq(c, 1, n) = SubSeq(input, m + 1 - 1, m + n - 1)
  BY <1>1, <1>3, <1>4, <1>6, PieceOfPiece
<1>8. Rest = SubSeq(c, 1, n)
  BY <1>1, <1>6, <1>7
<1>9. PICK b : b = Rest
  OBVIOUS
<1>10. Scan(b).status \in {"Ok", "Malformed"} /\ b = SubSeq(c, 1, n)
  BY <1>8, <1>9 DEF Look
<1>11. Scan(c) = Scan(b)
  BY ONLY <1>5, <1>6, <1>10, ScanIsLocal
<1> QED  BY <1>2, <1>3, <1>9, <1>11 DEF Look

\* A frame produced is counted, and ends where the reader comes to stand.
LEMMA ProduceCounted ==
    ASSUME IInv, Counted, Produce
    PROVE  Counted'
<1>1. /\ outcome # Threw /\ Look.status \in {"Ok", "Malformed"}
      /\ frames' = frames + (IF Look.status = "Ok" THEN 1 ELSE 0)
      /\ pos' = pos + Consumed(Look) /\ UNCHANGED <<input, consumed>>
      /\ frames \in Nat
  BY DEF Produce, Returns, IInv, TypeOK
<1>2. /\ Rest \in Seq(Byte) /\ bytes_consumed \in Nat /\ consumed \in Nat /\ pos \in Nat
      /\ Consumed(Look) \in Nat /\ (Look.status # "Ok" => Consumed(Look) = 0)
  BY <1>1, RestFacts, ScanFacts DEF Look
<1>3. bytes_consumed' = bytes_consumed + Consumed(Look)
  BY <1>1, <1>2 DEF bytes_consumed
<1>4. PICK e \in [0 .. frames -> Nat] :
         /\ Ends(e, input, frames)
         /\ e[frames] = bytes_consumed
         /\ frames > 0 => e[frames - 1] < bytes_consumed
  BY DEF Counted
<1>5. CASE Look.status # "Ok"
  <2>1. frames' = frames /\ bytes_consumed' = bytes_consumed /\ input' = input
    BY <1>1, <1>2, <1>3, <1>5
  <2> QED  BY <1>4, <2>1 DEF Counted
<1>6. CASE Look.status = "Ok"
  <2>1. frames' = frames + 1 /\ input' = input
    BY <1>1, <1>6
  <2>2. Consumed(Look) > 0
    BY <1>2, <1>6, FrameFacts DEF Look, Consumed, kLengthPrefixSize
  <2>3. PICK n : n = frames
    OBVIOUS
  <2>4. PICK last : last = bytes_consumed'
    OBVIOUS
  <2>5. n \in Nat /\ last \in Nat /\ bytes_consumed < last
    BY <1>1, <1>2, <1>3, <2>2, <2>3, <2>4
  <2>6. PICK g : g = [i \in 0 .. n + 1 |-> IF i = n + 1 THEN last ELSE e[i]]
    OBVIOUS
  <2>7. \A i \in 0 .. n : i \in 0 .. n + 1 /\ i # n + 1 /\ e[i] \in Nat
    BY <1>4, <2>3, <2>5
  <2>8. g \in [0 .. n + 1 -> Nat] /\ g[n + 1] = last /\ \A i \in 0 .. n : g[i] = e[i]
    <3>1. \A i \in 0 .. n + 1 : i # n + 1 => i \in 0 .. n
      BY <2>5
    <3>2. n + 1 \in 0 .. n + 1
      BY <2>5
    <3> QED  BY <2>5, <2>6, <2>7, <3>1, <3>2
  <2>9. n \in 0 .. n /\ g[n] = bytes_consumed
    BY <1>4, <2>3, <2>5, <2>8
  <2>10. \A i \in 0 .. n + 1 :
            g[i] = IF i = 0 THEN 0
                   ELSE g[i - 1] + Consumed(Scan(SubSeq(input, g[i - 1] + 1, Len(input))))
    <3>1. ASSUME NEW i \in 0 .. n
          PROVE  g[i] = IF i = 0 THEN 0
                        ELSE g[i - 1] + Consumed(Scan(SubSeq(input, g[i - 1] + 1, Len(input))))
      <4>1. e[i] = IF i = 0 THEN 0
                   ELSE e[i - 1] + Consumed(Scan(SubSeq(input, e[i - 1] + 1, Len(input))))
        BY <1>4, <2>3, <2>5, EndStep
      <4>2. i # 0 => g[i - 1] = e[i - 1]
        <5>1. i # 0 => i - 1 \in 0 .. n
          BY <2>5
        <5> QED  BY <2>8, <5>1
      <4>3. g[i] = e[i]
        BY <2>8
      <4>4. CASE i = 0
        BY <4>1, <4>3, <4>4
      <4>5. CASE i # 0
        BY <4>1, <4>2, <4>3, <4>5, Zenon
      <4> QED  BY <4>4, <4>5
    <3>2. ASSUME NEW i, i = n + 1
          PROVE  g[i] = IF i = 0 THEN 0
                        ELSE g[i - 1] + Consumed(Scan(SubSeq(input, g[i - 1] + 1, Len(input))))
      <4>1. i # 0 /\ i - 1 = n
        BY <2>5, <3>2
      <4>2. Scan(SubSeq(input, bytes_consumed + 1, Len(input))) = Look
        BY <1>1, LookIsAhead
      <4>3. g[i] = bytes_consumed + Consumed(Look)
        BY <1>3, <2>4, <2>8, <3>2
      <4> QED  BY <2>9, <4>1, <4>2, <4>3, Zenon
    <3>3. \A i \in 0 .. n + 1 : i \in 0 .. n \/ i = n + 1
      BY <2>5
    <3> QED  BY <3>1, <3>2, <3>3, Zenon
  <2>11. Ends(g, input, n + 1)
    <3>1. g = [i \in 0 .. n + 1 |-> g[i]]
      BY <2>6
    <3>2. g = [i \in 0 .. n + 1 |->
                 IF i = 0 THEN 0
                 ELSE g[i - 1] + Consumed(Scan(SubSeq(input, g[i - 1] + 1, Len(input))))]
      BY <2>10, <3>1
    <3> QED  BY <3>2 DEF Ends
  <2>12. (n + 1) - 1 = n /\ g[(n + 1) - 1] < last
    BY <2>5, <2>9
  <2>13. /\ g \in [0 .. frames' -> Nat] /\ Ends(g, input', frames')
         /\ g[frames'] = bytes_consumed'
         /\ frames' > 0 => g[frames' - 1] < bytes_consumed'
    BY <2>1, <2>3, <2>4, <2>8, <2>11, <2>12
  <2> QED  BY <2>13 DEF Counted
<1> QED  BY <1>5, <1>6

\* Why a call that finds no more to read returns what it returns.
LEMMA ExhaustedExplained == ASSUME IInv, Exhausted PROVE StopsExplained'
<1>1. /\ outcome # Threw /\ buf' = Rest /\ outcome' = Look
      /\ UNCHANGED <<input, read>>
      /\ Len(Rest) = Capacity \/ read = Len(input)
  BY DEF IInv, Exhausted, Returns
<1>2. consumed' = bytes_consumed /\ pos' = 0
  BY ExhaustedIInv
<1>3. /\ Rest \in Seq(Byte) /\ Len(Rest) = read - bytes_consumed /\ bytes_consumed \in Nat
      /\ read \in Nat /\ Len(input) \in Nat
  BY <1>1, RestFacts
<1>4. bytes_consumed' = bytes_consumed
  BY <1>2, <1>3 DEF bytes_consumed
<1>5. Capacity \in Nat /\ Capacity >= 2
  <2>1. 0 \in Byte
    BY CursorAssumption DEF Byte
  <2>2. Declared[0] \in Nat
    BY <2>1, CursorAssumption
  <2>3. 2 + Declared[0] <= Capacity
    BY <2>1, ReaderAssumption DEF kMinBufferSize, kLengthPrefixSize
  <2> QED  BY <2>2, <2>3, ReaderAssumption
<1>6. ASSUME Look.status = "EndOfInput" PROVE bytes_consumed = Len(input)
  <2>1. Len(Rest) = 0
    BY <1>6 DEF Look, Scan, Verdict
  <2> QED  BY <1>1, <1>3, <1>5, <2>1
<1>7. ASSUME Look.status = "NeedMore", read # Len(input)
      PROVE  LengthPrefix(Rest) > Capacity - kLengthPrefixSize
  <2>1. Len(Rest) = Capacity
    BY <1>1, <1>7
  <2>2. Len(Rest) - kLengthPrefixSize < LengthPrefix(Rest)
    <3>1. Len(Rest) >= kLengthPrefixSize /\ kLengthPrefixSize = 2
      BY <1>5, <2>1 DEF kLengthPrefixSize
    <3> QED  BY <1>5, <1>7, <2>1, <3>1 DEF Look, Scan, Verdict
  <2>3. LengthPrefix(Rest) \in Nat /\ kLengthPrefixSize = 2
    BY <1>3, <1>5, <2>1, PrefixIsNat DEF kLengthPrefixSize
  <2> QED  BY <1>5, <2>1, <2>2, <2>3
<1>8. trailing_bytes' = read' - bytes_consumed'
  BY <1>1, <1>3, <1>4 DEF trailing_bytes
<1> QED  BY <1>1, <1>4, <1>6, <1>7, <1>8 DEF StopsExplained

------------------------------------------------------------------------------
(* The stream. *)

\* The cursor of the abstract stream is the reader's.
LEMMA SameCursor ==
    ASSUME NEW b, NEW verdict
    PROVE  Stream!Scan(b) = Scan(b) /\ Stream!Consumed(verdict) = Consumed(verdict)
<1>1. Stream!Scan(b) = Scan(b)
  BY DEF Stream!Scan, Scan, Stream!Verdict, Verdict, Stream!LengthPrefix, LengthPrefix,
         Stream!Body, Body, Stream!kLengthPrefixSize, kLengthPrefixSize
<1>2. Stream!Consumed(verdict) = Consumed(verdict)
  BY DEF Stream!Consumed, Consumed, Stream!kLengthPrefixSize, kLengthPrefixSize
<1> QED  BY <1>1, <1>2

\* A call that returns from a boundary with the verdict of a look ahead is a
\* step of the stream.
LEMMA ReturnIsStep ==
    ASSUME outcome # Threw, outcome' # Threw,
           outcome' = Scan(Stream!Ahead),
           bytes_consumed' = bytes_consumed + Consumed(outcome'),
           UNCHANGED input
    PROVE  Stream!Return
<1>1. outcome # Stream!Threw
  BY DEF Threw, Stream!Threw
<1> QED  BY <1>1, SameCursor DEF Stream!Return

------------------------------------------------------------------------------
(* The theorems. *)

\* The invariant every step of next() keeps: where the buffer lies in the stream.
THEOREM ReaderIInvInvariant == Spec => []IInv
<1>1. Init => IInv
  BY InitIInv
<1>2. IInv /\ [Next]_vars => IInv'
  BY NextIInv
<1> QED  BY <1>1, <1>2, PTL DEF Spec

\* Refills neither lose, repeat nor reorder a byte, the buffer never overflows
\* and the cursor stays in it; and every frame returned is a piece of the stream
\* with the length of its type.
THEOREM ReaderCorrect == Spec => []ReaderSound
<1>1. IInv => ReaderSound
  BY DEF IInv, ReaderSound
<1> QED  BY <1>1, ReaderIInvInvariant, PTL

\* The frames counted, the bytes consumed and the reason a call stopped.
AInv == IInv /\ (outcome # Threw => Counted) /\ StopsExplained

\* next() has returned the frames of the stream up to where it stands, no other
\* and none twice; and where it stops, the stream ends, or ends inside a frame,
\* or the frame is longer than the buffer.
THEOREM ReaderAccounts == Spec => []OutcomeExplained
<1>1. Init => AInv
  <2>. SUFFICES ASSUME Init PROVE AInv
    OBVIOUS
  <2>1. Counted
    <3>1. PICK e : e = [i \in 0 .. 0 |-> 0]
      OBVIOUS
    <3>2. e \in [0 .. 0 -> Nat] /\ e[0] = 0
      BY <3>1
    <3>3. e = [i \in 0 .. 0 |->
                 IF i = 0 THEN 0
                 ELSE e[i - 1] + Consumed(Scan(SubSeq(input, e[i - 1] + 1, Len(input))))]
      BY <3>1
    <3>4. Ends(e, input, 0)
      BY <3>3 DEF Ends
    <3>5. frames = 0 /\ bytes_consumed = 0
      BY DEF Init, bytes_consumed
    <3> QED  BY <3>2, <3>4, <3>5 DEF Counted
  <2>2. StopsExplained
    BY DEF Init, StopsExplained, NotCalled
  <2> QED  BY <2>1, <2>2, InitIInv DEF AInv
<1>2. AInv /\ [Next]_vars => AInv'
  <2>. SUFFICES ASSUME AInv, [Next]_vars PROVE AInv'
    OBVIOUS
  <2>0. IInv /\ IInv' /\ frames \in Nat
    BY NextIInv DEF AInv, IInv, TypeOK
  <2>1. CASE Call
    <3>1. /\ calling' = TRUE /\ outcome # Threw
          /\ UNCHANGED <<input, consumed, pos, frames, outcome>>
      BY <2>1 DEF Call
    <3>2. Counted'
      BY <3>1 DEF AInv, Counted, bytes_consumed
    <3>3. StopsExplained'
      BY <3>1 DEF StopsExplained
    <3> QED  BY <2>0, <3>2, <3>3 DEF AInv
  <2>2. CASE Produce
    <3>1. Counted'
      BY <2>0, <2>2, ProduceCounted DEF AInv, IInv, Produce
    <3>2. StopsExplained'
      <4>1. outcome' = Look /\ Look.status \in {"Ok", "Malformed"}
        BY <2>2 DEF Produce, Returns
      <4> QED  BY <4>1 DEF StopsExplained
    <3> QED  BY <2>0, <3>1, <3>2 DEF AInv
  <2>3. ASSUME NEW n \in 1 .. Len(input) - read, Refill(n) PROVE AInv'
    <3>1. /\ calling /\ outcome # Threw /\ UNCHANGED <<input, frames, calling, outcome>>
          /\ bytes_consumed' = bytes_consumed
      BY <2>0, <2>3, RefillIInv DEF IInv, Refill
    <3>2. Counted'
      BY <3>1 DEF AInv, Counted
    <3>3. StopsExplained'
      BY <3>1 DEF StopsExplained
    <3> QED  BY <2>0, <3>2, <3>3 DEF AInv
  <2>4. CASE Exhausted
    <3>1. /\ outcome # Threw /\ UNCHANGED input /\ consumed' = bytes_consumed /\ pos' = 0
          /\ frames' = frames + (IF Look.status = "Ok" THEN 1 ELSE 0)
          /\ Look.status # "Ok"
      BY <2>0, <2>4, ExhaustedIInv DEF IInv, Exhausted, Returns
    <3>2. frames' = frames /\ bytes_consumed' = bytes_consumed
      BY <2>0, <3>1, RestFacts DEF bytes_consumed
    <3>3. Counted'
      BY <3>1, <3>2 DEF AInv, Counted
    <3> QED  BY <2>0, <2>4, <3>3, ExhaustedExplained DEF AInv
  <2>5. CASE SourceThrows
    <3>1. outcome' = Threw
      BY <2>5 DEF SourceThrows
    <3>2. StopsExplained'
      BY <3>1 DEF StopsExplained, Threw
    <3>3. (outcome # Threw => Counted)'
      BY <3>1 DEF Threw
    <3> QED  BY <2>0, <3>2, <3>3 DEF AInv
  <2>6. CASE UNCHANGED vars
    BY <2>0, <2>6 DEF AInv, vars, Counted, StopsExplained, bytes_consumed, trailing_bytes
  <2> QED  BY <2>1, <2>2, <2>3, <2>4, <2>5, <2>6 DEF Next, Pass
<1>3. AInv => OutcomeExplained
  <2>. SUFFICES ASSUME AInv PROVE OutcomeExplained
    OBVIOUS
  <2>1. frames \in Nat /\ (outcome # Threw => Counted) /\ StopsExplained
    BY DEF AInv, IInv, TypeOK
  <2> QED  BY <2>1, CountedIsAccounted DEF OutcomeExplained
<1> QED  BY <1>1, <1>2, <1>3, PTL DEF Spec

\* FrameReader against FrameCursor: whatever the reads, next() returns what a
\* cursor over the stream returns that sees Capacity bytes of it.
THEOREM ReaderImplementsStream == Spec => ImplementsFrameStream
<1>1. Init => Stream!StreamInit
  BY DEF Init, Stream!StreamInit, bytes_consumed, NotCalled, Stream!NotCalled, Threw
<1>2. IInv /\ [Next]_vars => [Stream!Return \/ Stream!Fail]_(Stream!streamVars)
  <2>. SUFFICES ASSUME IInv, [Next]_vars
                PROVE  Stream!Return \/ Stream!Fail \/ UNCHANGED Stream!streamVars
    OBVIOUS
  <2>1. CASE Call
    BY <2>1 DEF Call, Stream!streamVars, bytes_consumed
  <2>2. CASE Produce
    <3>1. /\ outcome # Threw /\ Look.status \in {"Ok", "Malformed"}
          /\ outcome' = Look /\ pos' = pos + Consumed(Look)
          /\ UNCHANGED <<input, consumed>>
      BY <2>2 DEF IInv, Produce, Returns
    <3>2. Scan(Stream!Ahead) = Look
      <4>. PICK ahead, n, b : ahead = Stream!Ahead /\ n = Len(Rest) /\ b = Rest
        OBVIOUS
      <4>1. /\ ahead \in Seq(Byte) /\ n \in 0 .. Len(ahead) /\ b = SubSeq(ahead, 1, n)
            /\ Scan(b).status \in {"Ok", "Malformed"}
        BY <3>1, RestFacts, AheadFacts DEF Look
      <4>2. Scan(ahead) = Scan(b)
        BY ONLY <4>1, ScanIsLocal
      <4> QED  BY <4>2 DEF Look
    <3>3. bytes_consumed' = bytes_consumed + Consumed(Look) /\ Look # Threw
      BY <3>1, RestFacts, ScanFacts DEF Look, bytes_consumed
    <3> QED  BY <3>1, <3>2, <3>3, ReturnIsStep
  <2>3. ASSUME NEW n \in 1 .. Len(input) - read, Refill(n)
        PROVE  UNCHANGED Stream!streamVars
    <3>1. bytes_consumed' = bytes_consumed
      BY <2>3, RefillIInv
    <3> QED  BY <2>3, <3>1 DEF IInv, Refill, Stream!streamVars
  <2>4. CASE Exhausted
    <3>1. /\ outcome # Threw /\ outcome' = Look /\ Look.status # "Ok"
          /\ Len(Rest) = Capacity \/ read = Len(input)
          /\ UNCHANGED input
      BY <2>4 DEF IInv, Exhausted, Returns
    <3>2. Scan(Stream!Ahead) = Look
      BY <3>1, AheadFacts DEF Look
    <3>3. /\ Look # Threw /\ Consumed(Look) = 0
          /\ consumed' = bytes_consumed /\ pos' = 0 /\ bytes_consumed \in Nat
      BY <2>4, <3>1, RestFacts, ScanFacts, ExhaustedIInv DEF Look
    <3>4. bytes_consumed' = bytes_consumed + Consumed(Look)
      BY <3>3 DEF bytes_consumed
    <3> QED  BY <3>1, <3>2, <3>3, <3>4, ReturnIsStep
  <2>5. CASE SourceThrows
    <3>1. outcome # Threw /\ outcome' = Threw /\ input' = input /\ consumed' = bytes_consumed
      BY <2>5, ThrowsIInv DEF IInv, SourceThrows
    <3> QED  BY <3>1 DEF Stream!Fail, Threw, Stream!Threw
  <2>6. CASE UNCHANGED vars
    BY <2>6 DEF vars, Stream!streamVars, bytes_consumed
  <2> QED  BY <2>1, <2>2, <2>3, <2>4, <2>5, <2>6 DEF Next, Pass
<1> QED  BY <1>1, <1>2, ReaderIInvInvariant, PTL
         DEF Spec, ImplementsFrameStream, Stream!StreamSpec

------------------------------------------------------------------------------
(* itch_stats: what a run over the mapped file comes to. *)

\* m[i] is what i looks of a cursor over the file come to.
Looks(m, n) ==
    m = [i \in 0 .. n |-> IF i = 0 THEN [at |-> 0, stats |-> Stats] ELSE Looked(m[i - 1])]

LEMMA LooksStep ==
    ASSUME NEW m, NEW n \in Nat, Looks(m, n)
    PROVE  /\ m[0] = [at |-> 0, stats |-> Stats]
           /\ \A i \in 1 .. n : m[i] = Looked(m[i - 1])
<1>1. PICK k : k = m
  OBVIOUS
<1>2. k = [i \in 0 .. n |-> IF i = 0 THEN [at |-> 0, stats |-> Stats] ELSE Looked(m[i - 1])]
  BY <1>1 DEF Looks
<1>3. 0 \in 0 .. n /\ \A i \in 1 .. n : i \in 0 .. n /\ i # 0
  OBVIOUS
<1>4. k[0] = [at |-> 0, stats |-> Stats]
  BY <1>2, <1>3, Zenon
<1>5. \A i \in 1 .. n : k[i] = Looked(m[i - 1])
  BY <1>2, <1>3, Zenon
<1> QED  BY <1>1, <1>4, <1>5, Zenon

\* Any number of looks can be taken: there is no least number that cannot.
LEMMA LooksExist == \A n \in Nat : \E m : Looks(m, n)
<1> DEFINE Failing == {n \in Nat : ~ \E m : Looks(m, n)}
<1>1. SUFFICES ASSUME Failing # {} PROVE FALSE
  OBVIOUS
<1>2. PICK n \in Failing : \A k \in Failing : n <= k
  <2>1. Failing \in SUBSET Nat
    OBVIOUS
  <2> HIDE DEF Failing
  <2> QED  BY <1>1, <2>1, LeastNatural
<1>3. n \in Nat /\ ~ \E m : Looks(m, n)
  OBVIOUS
<1>4. CASE n = 0
  <2>1. PICK m : m = [i \in 0 .. 0 |-> [at |-> 0, stats |-> Stats]]
    OBVIOUS
  <2>2. \A i \in 0 .. 0 : i = 0
    OBVIOUS
  <2>3. m = [i \in 0 .. 0 |-> IF i = 0 THEN [at |-> 0, stats |-> Stats] ELSE Looked(m[i - 1])]
    BY <2>1, <2>2, Zenon
  <2> QED  BY <1>3, <1>4, <2>3 DEF Looks
<1>5. CASE n # 0
  <2>1. PICK k : k = n - 1
    OBVIOUS
  <2>2. k \in Nat /\ k < n /\ n = k + 1
    BY <1>3, <1>5, <2>1
  <2>3. PICK m : Looks(m, k)
    <3>1. k \notin Failing
      <4> HIDE DEF Failing
      <4> QED  BY <1>2, <1>3, <2>2
    <3> QED  BY <2>2, <3>1
  <2>4. PICK g : g = [i \in 0 .. n |-> IF i = 0 THEN [at |-> 0, stats |-> Stats]
                                        ELSE Looked(m[i - 1])]
    OBVIOUS
  <2>5. \A i \in 0 .. n : i = 0 \/ i - 1 \in 0 .. k
    BY <2>2
  <2>6. \A i \in 0 .. k : g[i] = m[i]
    <3>1. \A i \in 0 .. k : i \in 0 .. n /\ (i = 0 \/ i \in 1 .. k)
      BY <2>2
    <3>2. m[0] = [at |-> 0, stats |-> Stats] /\ \A i \in 1 .. k : m[i] = Looked(m[i - 1])
      BY <2>2, <2>3, LooksStep
    <3>3. \A i \in 0 .. n : g[i] = IF i = 0 THEN [at |-> 0, stats |-> Stats]
                                   ELSE Looked(m[i - 1])
      BY <2>4
    <3>4. \A i \in 1 .. k : i # 0
      OBVIOUS
    <3> QED  BY <3>1, <3>2, <3>3, <3>4, Zenon
  <2>7. g = [i \in 0 .. n |-> IF i = 0 THEN [at |-> 0, stats |-> Stats] ELSE Looked(g[i - 1])]
    BY <2>4, <2>5, <2>6, Zenon
  <2> QED  BY <1>3, <2>7 DEF Looks
<1> QED  BY <1>4, <1>5

\* The looks of run_mapped().
LEMMA MappedIsLooks ==
    ASSUME Len(input) \in Nat
    PROVE  Looks(Mapped, Len(input))
<1>1. Mapped = CHOOSE m : Looks(m, Len(input))
  BY Zenon DEF Mapped, Looks
<1>2. PICK n : n = Len(input)
  OBVIOUS
<1>3. \E m : Looks(m, n)
  BY <1>2, LooksExist
<1> QED  BY <1>1, <1>2, <1>3, Zenon

\* A cursor that has come to the end, or to a fault, stays there.
LEMMA MappedStays ==
    ASSUME NEW run, NEW n \in 0 .. Len(input), Len(input) \in Nat, Mapped[n] = run,
           Looked(run) = run
    PROVE  Mapped[Len(input)] = run
<1> DEFINE Failing == {i \in Nat : i \in n .. Len(input) /\ Mapped[i] # run}
<1>1. SUFFICES ASSUME Failing # {} PROVE FALSE
  <2>1. Len(input) \in n .. Len(input)
    OBVIOUS
  <2> QED  BY <2>1
<1>2. PICK i \in Failing : \A k \in Failing : i <= k
  <2>1. Failing \in SUBSET Nat
    OBVIOUS
  <2> HIDE DEF Failing
  <2> QED  BY <1>1, <2>1, LeastNatural
<1>3. i \in Nat /\ i \in n .. Len(input) /\ Mapped[i] # run
  OBVIOUS
<1>4. i # n
  BY <1>3
<1>5. i - 1 \in Nat /\ i - 1 \in n .. Len(input) /\ i \in 1 .. Len(input) /\ ~(i <= i - 1)
  BY <1>3, <1>4
<1>6. i - 1 \notin Failing
  <2> HIDE DEF Failing
  <2> QED  BY <1>2, <1>5
<1>7. Mapped[i - 1] = run
  BY <1>5, <1>6
<1>8. Mapped[i] = Looked(Mapped[i - 1])
  BY <1>5, MappedIsLooks, LooksStep
<1> QED  BY <1>3, <1>7, <1>8, Zenon

------------------------------------------------------------------------------
(* itch_stats: the totals. *)

StatsRecords ==
    [messages : Nat, payload_bytes : Nat, framed_bytes : Nat, saw_timestamp : BOOLEAN,
     first_timestamp : Byte, last_timestamp : Byte, by_type : [Byte -> Nat],
     name : [Byte -> Byte \cup {NoName}],
     book_messages : [Byte -> Nat], all_messages : [Byte -> Nat]]

Balanced(s) ==
    /\ s \in StatsRecords
    /\ s.framed_bytes = s.payload_bytes + kLengthPrefixSize * s.messages
    /\ s.messages = SumFunctionOnSet(s.by_type, Byte)
    /\ s.messages = SumFunctionOnSet(s.all_messages, Byte)
    /\ SumFunctionOnSet(s.by_type, MovesBook) = SumFunctionOnSet(s.book_messages, Byte)

\* What observe() makes of the counts.
Observed(o, s, frame) ==
    /\ o \in StatsRecords
    /\ o.messages = s.messages + 1
    /\ o.payload_bytes = s.payload_bytes + Len(frame)
    /\ o.framed_bytes = s.framed_bytes + Len(frame) + kLengthPrefixSize
    /\ o.by_type = [s.by_type EXCEPT ![frame[1]] = @ + 1]
    /\ o.all_messages = [s.all_messages EXCEPT ![frame[2]] = @ + 1]
    /\ o.book_messages = [s.book_messages EXCEPT
                             ![frame[2]] = IF frame[1] \in MovesBook THEN @ + 1 ELSE @]

\* A frame that holds all that observe() loads.
Loadable(frame) ==
    /\ frame \in Seq(Byte)
    /\ Len(frame) >= 3
    /\ frame[1] = Directory => Len(frame) >= 4

LEMMA ObserveFacts ==
    ASSUME NEW s \in StatsRecords, NEW frame, Loadable(frame)
    PROVE  Observed(Observe(s, frame), s, frame)
<1>1. /\ frame \in Seq(Byte) /\ Len(frame) \in Nat /\ Len(frame) >= 3
      /\ frame[1] \in Byte /\ frame[2] \in Byte /\ frame[3] \in Byte
      /\ frame[1] = Directory => frame[4] \in Byte
  BY ElementOfSeq DEF Loadable
<1>2. PICK type, locate, ts, length :
         type = frame[1] /\ locate = frame[2] /\ ts = frame[3] /\ length = Len(frame)
  OBVIOUS
<1>3. PICK nm : nm = IF type = Directory THEN frame[4] ELSE s.name[locate]
  OBVIOUS
<1>4. PICK first : first = IF s.saw_timestamp THEN s.first_timestamp ELSE ts
  OBVIOUS
<1>5. PICK moved : moved = IF type \in MovesBook THEN s.book_messages[locate] + 1
                           ELSE s.book_messages[locate]
  OBVIOUS
<1>6. /\ type \in Byte /\ locate \in Byte /\ ts \in Byte /\ length \in Nat
      /\ nm \in Byte \cup {NoName} /\ first \in Byte /\ moved \in Nat
  <2>1. type \in Byte /\ locate \in Byte /\ ts \in Byte /\ length \in Nat
    BY <1>1, <1>2
  <2>2. /\ s.name \in [Byte -> Byte \cup {NoName}] /\ s.first_timestamp \in Byte
        /\ s.book_messages \in [Byte -> Nat]
    BY DEF StatsRecords
  <2>3. s.name[locate] \in Byte \cup {NoName} /\ s.book_messages[locate] \in Nat
    BY <2>1, <2>2
  <2>4. nm \in Byte \cup {NoName}
    BY <1>1, <1>2, <1>3, <2>3, Zenon
  <2>5. first \in Byte
    BY <1>4, <2>1, <2>2, Zenon
  <2>6. moved \in Nat
    BY <1>5, <2>3
  <2> QED  BY <2>1, <2>4, <2>5, <2>6
<1>7. PICK o : o = Observe(s, frame)
  OBVIOUS
<1>8. o = [s EXCEPT
              !.messages = @ + 1,
              !.by_type[type] = @ + 1,
              !.payload_bytes = @ + length,
              !.framed_bytes = @ + length + 2,
              !.first_timestamp = first,
              !.saw_timestamp = TRUE,
              !.last_timestamp = ts,
              !.all_messages[locate] = @ + 1,
              !.book_messages[locate] = moved,
              !.name[locate] = nm]
  BY <1>2, <1>3, <1>4, <1>5, <1>7 DEF Observe, kLengthPrefixSize
<1>9. /\ o.messages = s.messages + 1
      /\ o.payload_bytes = s.payload_bytes + length
      /\ o.framed_bytes = s.framed_bytes + length + 2
      /\ o.by_type = [s.by_type EXCEPT ![type] = @ + 1]
      /\ o.all_messages = [s.all_messages EXCEPT ![locate] = @ + 1]
      /\ o.book_messages = [s.book_messages EXCEPT ![locate] = moved]
  BY <1>8 DEF StatsRecords
<1>10. o \in StatsRecords
  <2>1. /\ s.messages + 1 \in Nat /\ s.payload_bytes + length \in Nat
        /\ s.framed_bytes + length + 2 \in Nat
        /\ [s.by_type EXCEPT ![type] = @ + 1] \in [Byte -> Nat]
        /\ [s.all_messages EXCEPT ![locate] = @ + 1] \in [Byte -> Nat]
        /\ [s.book_messages EXCEPT ![locate] = moved] \in [Byte -> Nat]
        /\ [s.name EXCEPT ![locate] = nm] \in [Byte -> Byte \cup {NoName}]
    BY <1>6 DEF StatsRecords
  <2>2. o = [messages |-> s.messages + 1, payload_bytes |-> s.payload_bytes + length,
             framed_bytes |-> s.framed_bytes + length + 2, saw_timestamp |-> TRUE,
             first_timestamp |-> first, last_timestamp |-> ts,
             by_type |-> [s.by_type EXCEPT ![type] = @ + 1],
             name |-> [s.name EXCEPT ![locate] = nm],
             book_messages |-> [s.book_messages EXCEPT ![locate] = moved],
             all_messages |-> [s.all_messages EXCEPT ![locate] = @ + 1]]
    BY <1>8 DEF StatsRecords
  <2> QED  BY <1>6, <2>1, <2>2 DEF StatsRecords
<1> QED  BY <1>2, <1>5, <1>7, <1>9, <1>10 DEF Observed, kLengthPrefixSize

LEMMA BytesFinite == IsFiniteSet(Byte) /\ IsFiniteSet(MovesBook) /\ MovesBook \subseteq Byte
<1>1. IsFiniteSet(Byte)
  BY CursorAssumption, FS_Interval DEF Byte
<1>2. MovesBook \subseteq Byte
  BY StatsAssumption
<1> QED  BY <1>1, <1>2, FS_Subset

\* One count more is one more in the sum.
LEMMA OneMore ==
    ASSUME NEW f \in [Byte -> Nat], NEW b \in Byte, NEW g, g = [f EXCEPT ![b] = @ + 1],
           NEW S, S = Byte \/ S = MovesBook
    PROVE  SumFunctionOnSet(g, S) = SumFunctionOnSet(f, S) + (IF b \in S THEN 1 ELSE 0)
<1>1. IsFiniteSet(S) /\ S \subseteq Byte
  BY BytesFinite
<1>2. \A y \in S : f[y] \in Int /\ g[y] \in Int
  BY <1>1
<1>3. \A y \in S \ {b} : f[y] = g[y]
  BY <1>1
<1>4. SumFunctionOnSet(f, S) \in Int
  BY <1>1, <1>2, SumSplits
<1>5. CASE b \in S
  <2>1. SumFunctionOnSet(g, S) = SumFunctionOnSet(f, S) - f[b] + g[b]
    <3>1. IsFiniteSet(S)
      BY <1>1
    <3> QED  BY ONLY <1>2, <1>3, <1>5, <3>1, SumChanges
  <2>2. g[b] = f[b] + 1 /\ f[b] \in Nat
    OBVIOUS
  <2> QED  BY <1>4, <1>5, <2>1, <2>2
<1>6. CASE b \notin S
  <2>1. \A y \in S : f[y] = g[y]
    BY <1>3, <1>6
  <2>2. SumFunctionOnSet(f, S) = SumFunctionOnSet(g, S)
    BY ONLY <1>1, <2>1, SumSame
  <2> QED  BY <1>4, <1>6, <2>2
<1> QED  BY <1>5, <1>6

\* The totals balance from message to message.
LEMMA ObserveBalances ==
    ASSUME NEW s, Balanced(s), NEW frame, Loadable(frame)
    PROVE  Balanced(Observe(s, frame))
<1>1. PICK o : o = Observe(s, frame)
  OBVIOUS
<1>2. s \in StatsRecords /\ Observed(o, s, frame)
  BY <1>1, ObserveFacts DEF Balanced
<1>3. PICK type, locate, length : type = frame[1] /\ locate = frame[2] /\ length = Len(frame)
  OBVIOUS
<1>4. type \in Byte /\ locate \in Byte /\ length \in Nat
  BY <1>3, ElementOfSeq DEF Loadable
<1>5. /\ o \in StatsRecords
      /\ o.messages = s.messages + 1
      /\ o.payload_bytes = s.payload_bytes + length
      /\ o.framed_bytes = s.framed_bytes + length + 2
      /\ o.by_type = [s.by_type EXCEPT ![type] = @ + 1]
      /\ o.all_messages = [s.all_messages EXCEPT ![locate] = @ + 1]
      /\ o.book_messages = [s.book_messages EXCEPT
                               ![locate] = IF type \in MovesBook THEN @ + 1 ELSE @]
  BY <1>2, <1>3 DEF Observed, kLengthPrefixSize
<1>6. /\ s.messages \in Nat /\ s.payload_bytes \in Nat /\ s.framed_bytes \in Nat
      /\ s.by_type \in [Byte -> Nat] /\ s.all_messages \in [Byte -> Nat]
      /\ s.book_messages \in [Byte -> Nat]
  BY <1>2 DEF StatsRecords
<1>7. /\ s.framed_bytes = s.payload_bytes + 2 * s.messages
      /\ s.messages = SumFunctionOnSet(s.by_type, Byte)
      /\ s.messages = SumFunctionOnSet(s.all_messages, Byte)
      /\ SumFunctionOnSet(s.by_type, MovesBook) = SumFunctionOnSet(s.book_messages, Byte)
  BY DEF Balanced, kLengthPrefixSize
<1>8. o.framed_bytes = o.payload_bytes + 2 * o.messages
  BY <1>4, <1>5, <1>6, <1>7
<1>9. /\ SumFunctionOnSet(o.by_type, Byte) = SumFunctionOnSet(s.by_type, Byte) + 1
      /\ SumFunctionOnSet(o.all_messages, Byte) = SumFunctionOnSet(s.all_messages, Byte) + 1
  <2>1. SumFunctionOnSet(o.by_type, Byte)
           = SumFunctionOnSet(s.by_type, Byte) + (IF type \in Byte THEN 1 ELSE 0)
    BY <1>4, <1>5, <1>6, OneMore
  <2>2. SumFunctionOnSet(o.all_messages, Byte)
           = SumFunctionOnSet(s.all_messages, Byte) + (IF locate \in Byte THEN 1 ELSE 0)
    BY <1>4, <1>5, <1>6, OneMore
  <2> QED  BY <1>4, <2>1, <2>2
<1>10. SumFunctionOnSet(o.by_type, MovesBook)
          = SumFunctionOnSet(s.by_type, MovesBook) + (IF type \in MovesBook THEN 1 ELSE 0)
  BY <1>4, <1>5, <1>6, OneMore
<1>11. SumFunctionOnSet(o.book_messages, Byte)
          = SumFunctionOnSet(s.book_messages, Byte) + (IF type \in MovesBook THEN 1 ELSE 0)
  <2>1. CASE type \in MovesBook
    <3>1. o.book_messages = [s.book_messages EXCEPT ![locate] = @ + 1]
      BY <1>5, <2>1
    <3> QED  BY <1>4, <1>6, <2>1, <3>1, OneMore
  <2>2. CASE type \notin MovesBook
    <3>1. o.book_messages = s.book_messages
      BY <1>5, <1>6, <2>2
    <3>2. SumFunctionOnSet(s.book_messages, Byte) \in Int
      BY <1>6, BytesFinite, SumSplits
    <3> QED  BY <2>2, <3>1, <3>2
  <2> QED  BY <2>1, <2>2
<1> QED  BY <1>1, <1>5, <1>7, <1>8, <1>9, <1>10, <1>11 DEF Balanced, kLengthPrefixSize

\* Nothing has been counted.
LEMMA NothingBalances == Balanced(Stats)
<1>1. 0 \in Byte
  BY CursorAssumption DEF Byte
<1>2. Stats \in StatsRecords
  BY <1>1 DEF Stats, StatsRecords
<1>3. PICK f : f = [b \in Byte |-> 0]
  OBVIOUS
<1>4. SumFunctionOnSet(f, Byte) = 0 /\ SumFunctionOnSet(f, MovesBook) = 0
  <2>1. IsFiniteSet(Byte) /\ \A x \in Byte : f[x] = 0
    BY <1>3, BytesFinite
  <2>2. IsFiniteSet(MovesBook) /\ \A x \in MovesBook : f[x] = 0
    BY <2>1, BytesFinite
  <2> QED  BY <2>1, <2>2, SumZero
<1> QED  BY <1>2, <1>3, <1>4 DEF Balanced, Stats, kLengthPrefixSize

------------------------------------------------------------------------------
(* itch_stats: the run. *)

\* A frame the cursor produces has all that is loaded from it.
LEMMA FrameLoadable ==
    ASSUME StatsOfItch, NEW b \in Seq(Byte), Scan(b).status = "Ok"
    PROVE  Loadable(Scan(b).frame)
<1>1. PICK frame, length : frame = Body(b) /\ length = LengthPrefix(b)
  OBVIOUS
<1>2. /\ Scan(b) = [status |-> "Ok", error |-> "None", frame |-> frame]
      /\ length \in Nat \ {0}
      /\ frame \in Seq(Byte) /\ Len(frame) = length /\ Declared[frame[1]] = length
  BY <1>1, FrameFacts
<1>3. frame[1] \in Byte
  BY <1>2, ElementOfSeq
<1>4. Declared[frame[1]] >= (IF frame[1] = Directory THEN 4 ELSE 3)
  BY <1>2, <1>3 DEF StatsOfItch
<1>5. Len(frame) >= 3 /\ (frame[1] = Directory => Len(frame) >= 4)
  BY <1>2, <1>4
<1> QED  BY <1>2, <1>5 DEF Loadable

\* With a buffer longer than any prefix can promise, a reader that runs out of
\* bytes in a frame has read all of the stream.
LEMMA NeverFull ==
    ASSUME StatsOfItch, IInv, Exhausted
    PROVE  read = Len(input)
<1>1. /\ outcome # Threw /\ Look.status # "Ok" /\ Look.status \in {"EndOfInput", "NeedMore"}
      /\ Len(Rest) = Capacity \/ read = Len(input)
  BY DEF IInv, Exhausted
<1>2. PICK b : b = Rest
  OBVIOUS
<1>3. SUFFICES ASSUME Len(b) = Capacity PROVE FALSE
  BY <1>1, <1>2
<1>4. b \in Seq(Byte) /\ Scan(b).status \in {"EndOfInput", "NeedMore"}
  BY <1>1, <1>2, RestFacts DEF Look
<1>5. MaxByte \in Nat /\ Capacity \in Nat
  BY CursorAssumption, ReaderAssumption
<1>6. PICK most : most = LengthPrefix(<<MaxByte, MaxByte>>)
  OBVIOUS
<1>7. most = MaxByte * (MaxByte + 1) + MaxByte /\ most <= Capacity - 2
  BY <1>5, <1>6 DEF StatsOfItch, LengthPrefix, kLengthPrefixSize
<1>8. MaxByte * (MaxByte + 1) \in Nat
  <2>1. \A x, y \in Nat : x * y \in Nat
    OBVIOUS
  <2> QED  BY <1>5, <2>1
<1>9. Capacity >= 2
  BY <1>5, <1>7, <1>8
<1>10. b[1] \in 0 .. MaxByte /\ b[2] \in 0 .. MaxByte
  BY <1>3, <1>4, <1>5, <1>9, ElementOfSeq DEF Byte
<1>11. b[1] * (MaxByte + 1) <= MaxByte * (MaxByte + 1) /\ b[1] * (MaxByte + 1) \in Nat
  <2>1. \A x, y, z \in Nat : x <= y => x * z <= y * z /\ x * z \in Nat
    OBVIOUS
  <2> QED  BY <1>5, <1>10, <2>1
<1>12. LengthPrefix(b) <= most /\ LengthPrefix(b) \in Nat
  <2>1. LengthPrefix(b) = b[1] * (MaxByte + 1) + b[2]
    BY DEF LengthPrefix
  <2> QED  BY <1>5, <1>7, <1>8, <1>10, <1>11, <2>1
<1>13. Len(b) - 2 < LengthPrefix(b)
  BY <1>3, <1>4, <1>9 DEF Scan, Verdict, kLengthPrefixSize
<1> QED  BY <1>3, <1>5, <1>7, <1>8, <1>12, <1>13

\* The streamed run, while it runs, has come to what as many looks at the mapped
\* file come to.
Keeping ==
    /\ frames <= bytes_consumed
    /\ stats.framed_bytes = bytes_consumed
    /\ Mapped[frames] = [at |-> bytes_consumed, stats |-> stats]

SInv ==
    /\ IInv
    /\ outcome # Threw => Keeping
    /\ Balanced(stats)
    /\ report # Running => ~calling
    /\ PathsAgree
    /\ Reported => stats.framed_bytes = report.offset

LEMMA SameFile ==
    ASSUME UNCHANGED input
    PROVE  Mapped' = Mapped /\ RunMapped' = RunMapped
<1>1. Mapped' = Mapped
  BY ZenonT(60) DEF Mapped, Looked
<1> QED  BY <1>1, Zenon DEF RunMapped

\* A run that stops where the mapped run stops reports what it reports.
LEMMA StopsAlike ==
    ASSUME IInv, outcome # Threw, Keeping, NEW st, NEW rest,
           rest = SubSeq(input, bytes_consumed + 1, Len(input)),
           st = Scan(rest), st.status # "Ok"
    PROVE  RunMapped = [stats |-> stats, report |-> Outcome(st, bytes_consumed, Len(rest))]
<1>1. /\ Len(input) \in Nat /\ bytes_consumed \in Nat /\ bytes_consumed <= Len(input)
      /\ frames \in Nat /\ frames <= bytes_consumed
  BY RestFacts DEF IInv, TypeOK, Keeping
<1>2. frames \in 0 .. Len(input)
  BY <1>1
<1>3. PICK run : run = [at |-> bytes_consumed, stats |-> stats]
  OBVIOUS
<1>4. run.at = bytes_consumed /\ run.stats = stats /\ Mapped[frames] = run
  BY <1>3 DEF Keeping
<1>5. Looked(run) = run
  BY <1>4 DEF Looked
<1>6. Mapped[Len(input)] = run
  BY <1>1, <1>2, <1>4, <1>5, MappedStays
<1> QED  BY <1>4, <1>6, Zenon DEF RunMapped

\* A frame observed is one look more at the mapped file.
LEMMA ObservedAlike ==
    ASSUME StatsOfItch, SInv, Produce, Look.status = "Ok",
           stats' = Observe(stats, Look.frame)
    PROVE  Keeping' /\ Balanced(stats)'
<1>1. /\ outcome # Threw /\ Keeping /\ Balanced(stats) /\ IInv
      /\ frames' = frames + 1 /\ pos' = pos + Consumed(Look)
      /\ UNCHANGED <<input, consumed>> /\ frames \in Nat
  BY DEF SInv, IInv, TypeOK, Produce, Returns
<1>2. /\ input \in Seq(Byte) /\ Len(input) \in Nat /\ bytes_consumed \in Nat
      /\ consumed \in Nat /\ pos \in Nat /\ read \in 0 .. Len(input)
      /\ Rest \in Seq(Byte) /\ Len(Rest) = read - bytes_consumed
  BY <1>1, RestFacts
<1>3. Loadable(Look.frame)
  BY <1>2, FrameLoadable DEF Look
<1>4. PICK length : length = Len(Look.frame)
  OBVIOUS
<1>5. Consumed(Look) = 2 + length /\ length \in Nat
  BY <1>3, <1>4 DEF Consumed, kLengthPrefixSize, Loadable
<1>6. Consumed(Look) \in 0 .. Len(Rest)
  BY <1>2, ScanFacts DEF Look
<1>7. bytes_consumed' = bytes_consumed + (2 + length)
  BY <1>1, <1>2, <1>5 DEF bytes_consumed
<1>8. frames + 1 <= bytes_consumed' /\ frames + 1 \in 1 .. Len(input)
  <2>1. frames <= bytes_consumed
    BY <1>1 DEF Keeping
  <2>2. bytes_consumed + (2 + length) <= Len(input)
    BY <1>2, <1>5, <1>6
  <2> QED  BY <1>1, <1>2, <1>5, <1>7, <2>1, <2>2
<1>9. PICK o : o = Observe(stats, Look.frame)
  OBVIOUS
<1>10. Balanced(o) /\ o.framed_bytes = bytes_consumed'
  <2>1. Balanced(o)
    BY <1>1, <1>3, <1>9, ObserveBalances
  <2>2. stats \in StatsRecords
    BY <1>1 DEF Balanced
  <2>3. o.framed_bytes = stats.framed_bytes + length + 2 /\ stats.framed_bytes \in Nat
    BY <1>3, <1>4, <1>9, <2>2, ObserveFacts DEF Observed, kLengthPrefixSize, StatsRecords
  <2>4. stats.framed_bytes = bytes_consumed
    BY <1>1 DEF Keeping
  <2> QED  BY <1>2, <1>5, <1>7, <2>1, <2>3, <2>4
<1>11. Mapped[frames + 1] = [at |-> bytes_consumed', stats |-> o]
  <2>1. Mapped[frames + 1] = Looked(Mapped[(frames + 1) - 1])
    BY <1>2, <1>8, MappedIsLooks, LooksStep
  <2>2. PICK run : run = [at |-> bytes_consumed, stats |-> stats]
    OBVIOUS
  <2>3. (frames + 1) - 1 = frames /\ Mapped[frames] = run
    BY <1>1, <2>2 DEF Keeping
  <2>4. Scan(SubSeq(input, bytes_consumed + 1, Len(input))) = Look
    BY <1>1, LookIsAhead
  <2>5. run.at = bytes_consumed /\ run.stats = stats
    BY <2>2
  <2>6. Looked(run) = [at |-> bytes_consumed + Consumed(Look), stats |-> Observe(stats, Look.frame)]
    BY <2>4, <2>5 DEF Looked
  <2> QED  BY <1>5, <1>7, <1>9, <2>1, <2>3, <2>6
<1>12. Mapped' = Mapped
  BY <1>1, SameFile
<1>13. Keeping'
  BY <1>1, <1>8, <1>9, <1>10, <1>11, <1>12, Zenon DEF Keeping
<1> QED  BY <1>9, <1>10, <1>13

\* A report is of what the reader says where it stopped.
LEMMA ReportedAlike ==
    ASSUME StatsOfItch, SInv, Produce \/ Exhausted, Look.status # "Ok",
           UNCHANGED stats, report' = Outcome(outcome', bytes_consumed', trailing_bytes')
    PROVE  /\ Keeping'
           /\ PathsAgree'
           /\ (Reported => stats.framed_bytes = report.offset)'
<1>0. PICK rest : rest = SubSeq(input, bytes_consumed + 1, Len(input))
  OBVIOUS
<1>1. /\ outcome # Threw /\ Keeping /\ IInv /\ UNCHANGED <<input, read>>
      /\ frames \in Nat /\ frames' = frames /\ outcome' = Look
  BY DEF SInv, IInv, TypeOK, Produce, Exhausted, Returns
<1>2. bytes_consumed \in Nat /\ consumed \in Nat /\ pos \in Nat
  BY <1>1, RestFacts
<1>3. bytes_consumed' = bytes_consumed
  <2>1. CASE Produce
    <3>1. Consumed(Look) = 0 /\ pos' = pos + Consumed(Look) /\ consumed' = consumed
      BY <2>1 DEF Produce, Consumed
    <3> QED  BY <1>2, <3>1 DEF bytes_consumed
  <2>2. CASE Exhausted
    <3>1. consumed' = bytes_consumed /\ pos' = 0
      BY <1>1, <2>2, ExhaustedIInv
    <3> QED  BY <1>2, <3>1 DEF bytes_consumed
  <2> QED  BY <2>1, <2>2
<1>4. Scan(rest) = Look /\ (Look.status # "Malformed" => trailing_bytes' = Len(rest))
  <2>1. CASE Produce
    <3>1. Look.status = "Malformed"
      BY <2>1 DEF Produce
    <3> QED  BY <1>0, <1>1, <3>1, LookIsAhead
  <2>2. CASE Exhausted
    <3>1. read = Len(input)
      BY <1>1, <2>2, NeverFull
    <3>2. Rest = rest
      BY <1>0, <1>1, <3>1, RestFacts
    <3>3. buf' = Rest
      BY <2>2 DEF Exhausted
    <3> QED  BY <3>2, <3>3 DEF Look, trailing_bytes
  <2> QED  BY <2>1, <2>2
<1>5. RunMapped = [stats |-> stats, report |-> Outcome(Look, bytes_consumed, Len(rest))]
  BY <1>0, <1>1, <1>4, StopsAlike
<1>6. Mapped' = Mapped /\ RunMapped' = RunMapped
  BY <1>1, SameFile
<1>7. Keeping'
  BY <1>1, <1>3, <1>6, Zenon DEF Keeping
<1>8. report' = Outcome(Look, bytes_consumed, trailing_bytes')
  BY <1>1, <1>3
<1>9. /\ report'.offset = bytes_consumed /\ report'.status = Look.status
      /\ report'.trailing = trailing_bytes'
      /\ [report' EXCEPT !.trailing = 0] = [RunMapped.report EXCEPT !.trailing = 0]
      /\ RunMapped.stats = stats /\ RunMapped.report.trailing = Len(rest)
  BY <1>5, <1>8 DEF Outcome
<1>10. PathsAgree'
  BY <1>4, <1>6, <1>9 DEF PathsAgree
<1>11. stats'.framed_bytes = report'.offset
  BY <1>1, <1>9 DEF Keeping
<1> QED  BY <1>7, <1>10, <1>11

\* However the source cuts the stream, itch_stats reports of it what it reports
\* of the same bytes in a mapped file, and its totals balance; given a buffer
\* that holds any frame and messages that have what is loaded from them.
THEOREM StatsAgree == ASSUME StatsOfItch PROVE StatsSpec => []ReportsAgree
<1>1. StatsInit => SInv
  <2>. SUFFICES ASSUME StatsInit PROVE SInv
    OBVIOUS
  <2>1. Init /\ stats = Stats /\ report = Running
    BY DEF StatsInit
  <2>2. IInv /\ bytes_consumed = 0 /\ frames = 0
    <3>1. IInv
      BY <2>1, InitIInv
    <3>2. consumed = 0 /\ pos = 0 /\ frames = 0
      BY <2>1 DEF Init
    <3> QED  BY <3>1, <3>2 DEF bytes_consumed
  <2>3. Len(input) \in Nat
    BY <2>1, ReaderAssumption DEF Init
  <2>4. Mapped[0] = [at |-> 0, stats |-> Stats]
    BY <2>3, MappedIsLooks, LooksStep
  <2>5. Keeping
    BY <2>1, <2>2, <2>4 DEF Keeping, Stats
  <2>6. ~ Reported
    BY <2>1 DEF Reported
  <2> QED  BY <2>1, <2>2, <2>5, <2>6, NothingBalances DEF SInv, PathsAgree
<1>2. SInv /\ [StatsNext]_statVars => SInv'
  <2>. SUFFICES ASSUME SInv, [StatsNext]_statVars PROVE SInv'
    OBVIOUS
  <2>0. IInv /\ Balanced(stats)
    BY DEF SInv
  <2>1. CASE AskNext
    <3>1. /\ IInv' /\ outcome # Threw /\ report = Running
          /\ UNCHANGED <<input, pos, consumed, frames, outcome, stats, report>>
      BY <2>0, <2>1, CallIInv DEF AskNext, Call
    <3>2. Keeping'
      <4>1. Mapped' = Mapped /\ Keeping
        BY <3>1, SameFile DEF SInv
      <4> QED  BY <3>1, <4>1 DEF Keeping, bytes_consumed
    <3>3. ~ Reported'
      BY <3>1 DEF Reported
    <3> QED  BY <2>0, <3>1, <3>2, <3>3 DEF SInv, PathsAgree
  <2>2. ASSUME Produce \/ Exhausted, Answered PROVE SInv'
    <3>1. /\ IInv' /\ calling /\ ~calling' /\ outcome # Threw /\ outcome' = Look
          /\ report = Running
      <4>1. calling /\ ~calling' /\ outcome # Threw /\ outcome' = Look
        BY <2>0, <2>2 DEF IInv, Produce, Exhausted, Returns
      <4>2. IInv'
        BY <2>0, <2>2, ProduceIInv, ExhaustedIInv
      <4> QED  BY <4>1, <4>2 DEF SInv
    <3>2. CASE Look.status = "Ok"
      <4>1. Produce /\ stats' = Observe(stats, Look.frame) /\ report' = report
        BY <2>2, <3>1, <3>2 DEF Answered, Exhausted
      <4>2. Keeping' /\ Balanced(stats)'
        BY <3>2, <4>1, ObservedAlike
      <4>3. ~ Reported'
        BY <3>1, <4>1 DEF Reported
      <4> QED  BY <3>1, <4>1, <4>2, <4>3 DEF SInv, PathsAgree
    <3>3. CASE Look.status # "Ok"
      <4>1. UNCHANGED stats /\ report' = Outcome(outcome', bytes_consumed', trailing_bytes')
        BY <2>2, <3>1, <3>3 DEF Answered
      <4>2. Keeping' /\ PathsAgree' /\ (Reported => stats.framed_bytes = report.offset)'
        BY <2>2, <3>3, <4>1, ReportedAlike
      <4> QED  BY <2>0, <3>1, <4>1, <4>2 DEF SInv
    <3> QED  BY <3>2, <3>3
  <2>3. ASSUME NEW n \in 1 .. Len(input) - read, Refill(n), Answered PROVE SInv'
    <3>1. /\ IInv' /\ bytes_consumed' = bytes_consumed /\ calling /\ calling'
          /\ outcome # Threw /\ UNCHANGED <<input, frames, outcome>>
      BY <2>0, <2>3, RefillIInv DEF IInv, Refill
    <3>2. UNCHANGED <<stats, report>> /\ report = Running
      BY <2>3, <3>1 DEF Answered, SInv
    <3>3. Keeping'
      <4>1. Mapped' = Mapped /\ Keeping
        BY <3>1, SameFile DEF SInv
      <4> QED  BY <3>1, <3>2, <4>1 DEF Keeping
    <3>4. ~ Reported'
      BY <3>2 DEF Reported
    <3> QED  BY <2>0, <3>1, <3>2, <3>3, <3>4 DEF SInv, PathsAgree
  <2>4. CASE Caught
    <3>1. /\ IInv' /\ outcome' = Threw /\ ~calling' /\ report' = Threw /\ UNCHANGED stats
      BY <2>0, <2>4, ThrowsIInv DEF Caught, SourceThrows
    <3>2. ~ Reported'
      BY <3>1 DEF Reported
    <3> QED  BY <2>0, <3>1, <3>2 DEF SInv, PathsAgree
  <2>5. CASE UNCHANGED statVars
    <3>1. UNCHANGED vars /\ UNCHANGED <<stats, report, input, pos, consumed, frames, outcome, calling>>
      BY <2>5 DEF statVars, vars
    <3>2. IInv'
      BY <2>0, <3>1, NextIInv
    <3>3. Mapped' = Mapped /\ RunMapped' = RunMapped
      BY <3>1, SameFile
    <3>4. Keeping' <=> Keeping
      BY <3>1, <3>3 DEF Keeping, bytes_consumed
    <3>5. PathsAgree' <=> PathsAgree
      BY <3>1, <3>3, Zenon DEF PathsAgree, Reported
    <3> QED  BY <3>1, <3>2, <3>4, <3>5 DEF SInv, Reported
  <2>6. CASE ReaderRuns
    BY <2>2, <2>3, <2>6 DEF ReaderRuns, Pass
  <2> QED  BY <2>1, <2>4, <2>5, <2>6 DEF StatsNext
<1>3. SInv => ReportsAgree
  BY DEF SInv, Balanced, ReportsAgree, TotalsBalance
<1> QED  BY <1>1, <1>2, <1>3, PTL DEF StatsSpec

------------------------------------------------------------------------------
(* A GzipSource. *)

\* Tokens are taken with everything before them written; the last one ends the
\* stream; a call in progress asked for bytes and has not failed.
GzipInv ==
    /\ stream \in Streams
    /\ GzipTypeOK
    /\ BytesAccounted
    /\ EndIsEnd
    /\ reading => ~finished /\ result # Thrown /\ want > 0
    /\ stream.corrupt \notin 1 .. taken
    /\ taken > 0 => Decodes(taken - 1) <= written
    /\ taken = StreamEnd => finished

\* The types, the flags apart.
GzipFlags == allow_truncated \in BOOLEAN /\ finished \in BOOLEAN /\ reading \in BOOLEAN

GzipCounts ==
    /\ fetched \in 0 .. stream.given
    /\ taken \in 0 .. fetched
    /\ written \in 0 .. Decodes(taken)
    /\ out_total \in 0 .. written
    /\ want \in Wants \cup {0}
    /\ avail_out \in Nat /\ (reading => avail_out <= want)
    /\ result \in Wants \cup Nat \cup {NoResult, Thrown}

LEMMA GzipTypes ==
  /\ GzipTypeOK <=> GzipFlags /\ GzipCounts
  /\ GzipFlags' /\ GzipCounts' => GzipTypeOK'
BY Zenon DEF GzipTypeOK, GzipFlags, GzipCounts

LEMMA StreamFacts ==
  ASSUME stream \in Streams
  PROVE  /\ StreamEnd \in Nat /\ StreamEnd > 1
         /\ stream.given \in 0 .. StreamEnd /\ stream.corrupt \in 0 .. StreamEnd
         /\ \A i \in 0 .. StreamEnd : Decodes(i) \in Nat
         /\ \A i, j \in 0 .. StreamEnd : i <= j => Decodes(i) <= Decodes(j)
         /\ Decodes(StreamEnd - 1) = Decodes(StreamEnd)
<1>1. PICK d : d = stream.decodes
  OBVIOUS
<1>2. PICK n \in Nat : n = Len(d)
  BY <1>1, GzipAssumption, LenProperties
<1>3. /\ d \in Seq(Nat) /\ n > 1
      /\ \A i, j \in 1 .. n : i <= j => d[i] <= d[j]
      /\ d[n - 1] = d[n]
      /\ stream.given \in 0 .. n /\ stream.corrupt \in 0 .. n
  BY <1>1, <1>2, GzipAssumption
<1>4. \A i \in 1 .. n : d[i] \in Nat
  BY <1>2, <1>3, ElementOfSeq
<1>5. StreamEnd = n /\ \A i \in Nat : Decodes(i) = IF i = 0 THEN 0 ELSE d[i]
  BY <1>1, <1>2 DEF StreamEnd, Decodes
<1>6. \A i \in 0 .. n : Decodes(i) \in Nat
  BY <1>2, <1>4, <1>5
<1>7. \A i, j \in 0 .. n : i <= j => Decodes(i) <= Decodes(j)
  <2>1. ASSUME NEW i \in 0 .. n, NEW j \in 0 .. n, i <= j, i # 0
        PROVE  Decodes(i) <= Decodes(j)
    BY <1>2, <1>3, <1>5, <2>1
  <2>2. ASSUME NEW j \in 0 .. n PROVE Decodes(0) <= Decodes(j)
    BY <1>2, <1>5, <1>6
  <2> QED BY <2>1, <2>2
<1> QED BY <1>2, <1>3, <1>5, <1>6, <1>7

LEMMA StreamStands ==
  ASSUME stream' = stream
  PROVE  /\ StreamEnd' = StreamEnd
         /\ \A i : Decodes(i)' = Decodes(i)
         /\ stream \in Streams => stream' \in Streams
BY DEF StreamEnd, Decodes

LEMMA GzipStarts == GzipInit => GzipInv
<1>1. SUFFICES ASSUME GzipInit PROVE GzipInv
  OBVIOUS
<1>2. StreamEnd > 1 /\ stream.given \in Nat /\ StreamEnd \in Nat /\ stream \in Streams
  BY <1>1, StreamFacts DEF GzipInit
<1>3. Decodes(0) = 0
  BY DEF Decodes
<1>4. GzipCounts
  BY <1>1, <1>2, <1>3 DEF GzipInit, GzipCounts
<1>5. GzipFlags
  BY <1>1, Zenon DEF GzipInit, GzipFlags
<1>6. BytesAccounted
  BY <1>1 DEF GzipInit, BytesAccounted
<1>7. EndIsEnd
  BY <1>1 DEF GzipInit, EndIsEnd, EndsAsItMay, ZeroMeansFinished
<1> QED BY <1>1, <1>2, <1>4, <1>5, <1>6, <1>7, GzipTypes DEF GzipInit, GzipInv

\* The numbers of a state.
LEMMA GzipNumbers ==
  ASSUME GzipInv
  PROVE  /\ fetched \in Nat /\ fetched <= stream.given
         /\ taken \in Nat /\ taken <= fetched
         /\ written \in Nat /\ written <= Decodes(taken)
         /\ out_total \in Nat /\ out_total <= written
         /\ want \in Nat /\ avail_out \in Nat
         /\ reading => avail_out <= want /\ out_total + (want - avail_out) = written
BY StreamFacts, GzipAssumption DEF GzipInv, GzipTypeOK, BytesAccounted

LEMMA GzipReads ==
  ASSUME GzipInv, NEW n \in Wants, Read(n)
  PROVE  GzipInv'
<1>1. n \in Nat
  BY GzipAssumption
<1>2. stream' = stream /\ StreamEnd' = StreamEnd /\ \A i : Decodes(i)' = Decodes(i)
  BY StreamStands DEF Read
<1>3. GzipTypeOK'
  <2>1. GzipFlags'
    BY Zenon, GzipTypes DEF GzipInv, GzipFlags, Read
  <2>2. GzipCounts'
    BY <1>1, <1>2, GzipTypes DEF GzipInv, GzipCounts, Read
  <2> QED BY <2>1, <2>2, GzipTypes
<1>4. BytesAccounted'
  BY <1>1, <1>2, GzipNumbers DEF GzipInv, BytesAccounted, Read, Thrown
<1>5. EndIsEnd'
  BY <1>1, <1>2 DEF GzipInv, EndIsEnd, EndsAsItMay, ZeroMeansFinished, Read
<1> QED BY <1>1, <1>2, <1>3, <1>4, <1>5 DEF GzipInv, Read

LEMMA GzipFills ==
  ASSUME GzipInv, Full
  PROVE  GzipInv'
<1>1. stream' = stream /\ StreamEnd' = StreamEnd /\ \A i : Decodes(i)' = Decodes(i)
  BY StreamStands DEF Full
<1>2. want \in Nat /\ want > 0 /\ avail_out = 0 /\ reading /\ out_total + want = written
  BY GzipNumbers DEF GzipInv, Full
<1>3. /\ result' = want /\ out_total' = out_total + want /\ reading' = FALSE
      /\ want' = want /\ written' = written /\ finished' = finished
  BY <1>2 DEF Full, ReadEnds
<1>4. GzipTypeOK'
  <2>1. GzipFlags'
    BY <1>3, Zenon, GzipTypes DEF GzipInv, GzipFlags, Full
  <2>2. GzipCounts'
    BY <1>1, <1>2, <1>3, GzipNumbers, GzipTypes DEF GzipInv, GzipCounts, Full
  <2> QED BY <2>1, <2>2, GzipTypes
<1>5. BytesAccounted'
  BY <1>2, <1>3, GzipNumbers DEF BytesAccounted
<1>6. EndIsEnd'
  BY <1>2, <1>3 DEF GzipInv, EndIsEnd, EndsAsItMay, ZeroMeansFinished
<1> QED BY <1>1, <1>3, <1>4, <1>5, <1>6 DEF GzipInv, Full

LEMMA GzipFetches ==
  ASSUME GzipInv, NEW k \in 1 .. Chunk, Fetch(k)
  PROVE  GzipInv'
<1>1. stream' = stream /\ StreamEnd' = StreamEnd /\ \A i : Decodes(i)' = Decodes(i)
  BY StreamStands DEF Fetch
<1>2. fetched + k \in 0 .. stream.given /\ taken \in 0 .. fetched + k
  <2>1. PICK g : g = stream.given
    OBVIOUS
  <2>2. g \in Nat /\ k \in Nat
    BY <2>1, StreamFacts, GzipAssumption DEF GzipInv
  <2>3. k <= g - fetched
    BY <2>1 DEF Fetch
  <2> QED BY <2>1, <2>2, <2>3, GzipNumbers
<1>3. GzipTypeOK'
  BY <1>1, <1>2 DEF GzipInv, GzipTypeOK, Fetch
<1>4. BytesAccounted' /\ EndIsEnd'
  BY <1>1 DEF GzipInv, BytesAccounted, EndIsEnd, EndsAsItMay, ZeroMeansFinished, Fetch
<1> QED BY <1>1, <1>3, <1>4 DEF GzipInv, Fetch

LEMMA GzipRunsDry ==
  ASSUME GzipInv, Dry
  PROVE  GzipInv'
<1>1. stream' = stream /\ StreamEnd' = StreamEnd /\ \A i : Decodes(i)' = Decodes(i)
  BY StreamStands DEF Dry
<1>2. /\ reading /\ ~finished /\ taken = stream.given /\ want > 0
      /\ UNCHANGED <<allow_truncated, fetched, taken, written, want, avail_out>>
      /\ taken < StreamEnd
  BY GzipNumbers, StreamFacts DEF GzipInv, Dry, Working, avail_in
<1>3. CASE allow_truncated
  <2>1. /\ finished' = TRUE /\ reading' = FALSE
        /\ result' = want - avail_out /\ out_total' = out_total + (want - avail_out)
    BY <1>3 DEF Dry, ReadEnds
  <2>2. result' \in Nat /\ out_total' = written
    BY <1>2, <2>1, GzipNumbers
  <2>3. GzipTypeOK'
    <3>1. GzipFlags'
      BY <1>2, <2>1, Zenon, GzipTypes DEF GzipInv, GzipFlags
    <3>2. GzipCounts'
      BY <1>1, <1>2, <2>1, <2>2, GzipNumbers, GzipTypes DEF GzipInv, GzipCounts
    <3> QED BY <3>1, <3>2, GzipTypes
  <2>4. BytesAccounted'
    BY <1>2, <2>1, <2>2, GzipNumbers DEF BytesAccounted
  <2>5. EndIsEnd'
    BY <1>1, <1>2, <1>3, <2>1, <2>2, StreamFacts
       DEF GzipInv, EndIsEnd, EndsAsItMay, ZeroMeansFinished
  <2> QED BY <1>1, <1>2, <2>1, <2>3, <2>4, <2>5 DEF GzipInv
<1>4. CASE ~allow_truncated
  <2>1. result' = Thrown /\ reading' = FALSE /\ UNCHANGED <<finished, out_total>>
    BY <1>4 DEF Dry, ReadThrows
  <2>2. GzipTypeOK'
    BY <1>1, <1>2, <2>1 DEF GzipInv, GzipTypeOK
  <2>3. BytesAccounted' /\ EndIsEnd'
    BY <1>2, <2>1 DEF BytesAccounted, EndIsEnd, EndsAsItMay, ZeroMeansFinished, Thrown
  <2> QED BY <1>1, <1>2, <2>1, <2>2, <2>3 DEF GzipInv
<1> QED BY <1>3, <1>4

\* What one call of inflate() leaves.
LEMMA GzipInflates ==
  ASSUME GzipInv, NEW upto \in 0 .. StreamEnd, Inflates(upto)
  PROVE  /\ stream' = stream /\ StreamEnd' = StreamEnd /\ \A i : Decodes(i)' = Decodes(i)
         /\ UNCHANGED <<allow_truncated, fetched, want>>
         /\ taken' = upto /\ upto >= taken /\ upto <= fetched
         /\ written' \in Nat /\ written <= written' /\ written' <= Decodes(upto)
         /\ avail_out' \in Nat /\ avail_out' <= avail_out
         /\ written' + avail_out' = written + avail_out
         /\ stream.corrupt \notin 1 .. upto
         /\ upto > 0 => Decodes(upto - 1) <= written'
         /\ upto = StreamEnd => written' = Decodes(StreamEnd)
         /\ reading /\ ~finished /\ want > 0 /\ result # Thrown
         /\ out_total + (want - avail_out') = written'
<1>1. stream' = stream /\ StreamEnd' = StreamEnd /\ \A i : Decodes(i)' = Decodes(i)
  BY StreamStands DEF Inflates
<1>2. /\ taken' = upto /\ upto \in taken .. fetched
      /\ stream.corrupt \notin taken + 1 .. upto
      /\ \A i \in taken + 1 .. upto : Decodes(i - 1) <= written + avail_out
      /\ written' = IF Decodes(upto) < written + avail_out
                    THEN Decodes(upto) ELSE written + avail_out
      /\ avail_out' = (written + avail_out) - written'
      /\ UNCHANGED <<allow_truncated, fetched, want>>
      /\ reading
  BY DEF Inflates, Inflated, WrittenAt, Reach, Working
<1>3. /\ fetched \in Nat /\ fetched <= StreamEnd /\ taken \in Nat /\ taken <= upto
      /\ StreamEnd \in Nat /\ StreamEnd > 1 /\ upto \in Nat /\ upto <= fetched
      /\ stream.corrupt \in Nat
  BY <1>2, GzipNumbers, StreamFacts DEF GzipInv
<1>4. /\ written \in Nat /\ avail_out \in Nat /\ written <= Decodes(taken)
      /\ Decodes(taken) <= Decodes(upto)
      /\ Decodes(upto) \in Nat /\ Decodes(taken) \in Nat
  BY <1>3, GzipNumbers, StreamFacts DEF GzipInv
<1>5. /\ written' \in Nat /\ written <= written' /\ written' <= Decodes(upto)
      /\ written' <= written + avail_out
  BY ONLY <1>2, <1>4
<1>6. avail_out' \in Nat /\ avail_out' <= avail_out /\ written' + avail_out' = written + avail_out
  BY ONLY <1>2, <1>4, <1>5
<1>7. stream.corrupt \notin 1 .. upto
  BY <1>2, <1>3 DEF GzipInv
<1>8. ASSUME upto > 0 PROVE Decodes(upto - 1) <= written'
  <2>1. Decodes(upto - 1) \in Nat /\ Decodes(upto - 1) <= Decodes(upto)
    BY <1>3, <1>8, StreamFacts DEF GzipInv
  <2>2. CASE upto = taken
    BY <1>3, <1>4, <1>5, <1>8, <2>1, <2>2 DEF GzipInv
  <2>3. CASE upto # taken
    <3>1. Decodes(upto - 1) <= written + avail_out
      BY <1>2, <1>3, <2>3
    <3> QED BY ONLY <1>2, <1>4, <2>1, <3>1
  <2> QED BY <2>2, <2>3
<1>9. ASSUME upto = StreamEnd PROVE written' = Decodes(StreamEnd)
  <2>1. Decodes(upto - 1) = Decodes(upto) /\ upto > 0
    BY <1>3, <1>9, StreamFacts DEF GzipInv
  <2> QED BY <1>4, <1>5, <1>8, <1>9, <2>1
<1>10. ~finished /\ want > 0 /\ result # Thrown
  BY <1>2 DEF GzipInv
<1>11. out_total + (want - avail_out') = written'
  BY <1>2, <1>4, <1>5, <1>6, GzipNumbers
<1> QED BY <1>1, <1>2, <1>3, <1>5, <1>6, <1>7, <1>8, <1>9, <1>10, <1>11

\* The conjuncts that every return of inflate() leaves alike.
LEMMA GzipInflated ==
  ASSUME GzipInv, NEW upto \in 0 .. StreamEnd, Inflates(upto)
  PROVE  /\ stream' \in Streams
         /\ (stream.corrupt \notin 1 .. taken)'
         /\ (taken > 0 => Decodes(taken - 1) <= written)'
BY GzipInflates DEF GzipInv

LEMMA GzipGoesOn ==
  ASSUME GzipInv, NEW upto \in 0 .. StreamEnd, InflateOk(upto)
  PROVE  GzipInv'
<1>1. Inflates(upto) /\ upto # StreamEnd /\ UNCHANGED <<finished, out_total, reading, result>>
  BY DEF InflateOk
<1>2. GzipTypeOK'
  BY <1>1, GzipInflates, GzipNumbers DEF GzipInv, GzipTypeOK
<1>3. BytesAccounted'
  BY <1>1, GzipInflates, GzipNumbers DEF BytesAccounted
<1>4. EndIsEnd'
  BY <1>1, GzipInflates DEF EndIsEnd, EndsAsItMay, ZeroMeansFinished
<1>5. (taken = StreamEnd => finished)' /\ (reading => ~finished /\ result # Thrown /\ want > 0)'
  BY <1>1, GzipInflates
<1> QED BY <1>1, <1>2, <1>3, <1>4, <1>5, GzipInflated DEF GzipInv

LEMMA GzipEnds ==
  ASSUME GzipInv, NEW upto \in 0 .. StreamEnd, InflateEnd(upto)
  PROVE  GzipInv'
<1>1. /\ Inflates(upto) /\ upto = StreamEnd /\ finished' = TRUE /\ reading' = FALSE
      /\ result' = want - avail_out' /\ out_total' = out_total + (want - avail_out')
  BY DEF InflateEnd, ReadEnds
<1>2. out_total' = written' /\ written' = Decodes(StreamEnd) /\ written' \in Nat
  BY <1>1, GzipInflates
<1>3. result' \in Nat
  BY <1>1, GzipInflates, GzipNumbers
<1>4. GzipTypeOK'
  <2>1. GzipFlags'
    BY <1>1, GzipInflates, Zenon, GzipTypes DEF GzipInv, GzipFlags
  <2>2. GzipCounts'
    BY <1>1, <1>2, <1>3, GzipInflates, GzipNumbers, GzipTypes DEF GzipInv, GzipCounts
  <2> QED BY <2>1, <2>2, GzipTypes
<1>5. BytesAccounted'
  BY <1>1, <1>2 DEF BytesAccounted
<1>6. stream.given = StreamEnd
  BY <1>1, GzipInflates, GzipNumbers, StreamFacts DEF GzipInv
<1>7. EndIsEnd'
  BY <1>1, <1>2, <1>6, GzipInflates DEF EndIsEnd, EndsAsItMay, ZeroMeansFinished
<1> QED BY <1>1, <1>4, <1>5, <1>7, GzipInflated DEF GzipInv

LEMMA GzipFails ==
  ASSUME GzipInv, NEW upto \in 0 .. StreamEnd, InflateError(upto)
  PROVE  GzipInv'
<1>1. /\ Inflates(upto) /\ Corrupted(upto) /\ reading' = FALSE /\ result' = Thrown
      /\ UNCHANGED <<finished, out_total>>
  BY DEF InflateError, ReadThrows
<1>2. GzipTypeOK'
  <2>1. GzipFlags'
    BY <1>1, GzipInflates, Zenon, GzipTypes DEF GzipInv, GzipFlags
  <2>2. GzipCounts'
    BY <1>1, GzipInflates, GzipNumbers, GzipTypes DEF GzipInv, GzipCounts
  <2> QED BY <2>1, <2>2, GzipTypes
<1>3. BytesAccounted' /\ EndIsEnd'
  BY <1>1, GzipInflates DEF BytesAccounted, EndIsEnd, EndsAsItMay, ZeroMeansFinished, Thrown
<1>4. upto # StreamEnd
  BY <1>1, StreamFacts DEF Corrupted, GzipInv
<1>5. (taken = StreamEnd => finished)'
  BY <1>1, <1>4, GzipInflates
<1> QED BY <1>1, <1>2, <1>3, <1>5, GzipInflated DEF GzipInv

LEMMA GzipKeeps ==
  ASSUME GzipInv, [GzipNext]_gzipVars
  PROVE  GzipInv'
<1>1. CASE UNCHANGED gzipVars
  BY <1>1 DEF gzipVars, GzipInv, GzipTypeOK, BytesAccounted, EndIsEnd, EndsAsItMay,
              ZeroMeansFinished, StreamEnd, Decodes
<1>2. CASE GzipNext
  BY <1>2, GzipReads, GzipFills, GzipFetches, GzipRunsDry, GzipGoesOn, GzipEnds, GzipFails
     DEF GzipNext, Round
<1> QED BY <1>1, <1>2

\* A read of a compressed file hands out every byte that was inflated, once, in
\* as many pieces as the caller asks for; allow_truncated lets a short stream
\* end, and only that; nothing is read only at the end: for any stream, cut off
\* or corrupt anywhere, and any sizes of buffer.
THEOREM GzipIsSound == GzipSpec => []GzipSound
<1>1. GzipInv => GzipSound
  BY DEF GzipInv, GzipSound
<1>2. GzipInv /\ [GzipNext]_gzipVars => GzipInv'
  BY GzipKeeps
<1> QED BY <1>1, <1>2, GzipStarts, PTL DEF GzipSpec
==============================================================================
