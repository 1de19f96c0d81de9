--------------------------------- MODULE Wire ---------------------------------
(***************************************************************************)
(* A message on its way: written field by field at the offsets of its      *)
(* layout, framed, perhaps damaged, cut out again by the cursor, given to  *)
(* dispatch() and read through its view by the handlers of BookBuilder.    *)
(***************************************************************************)
EXTENDS Views, FrameCursor

CONSTANTS
    Texts,      \* the texts written into alpha fields; none ends in a blank
    Sent,       \* the messages of the exchange, as MarketFeed has them
    Garbage,    \* what may follow a frame in the buffer
    MaxPuts     \* bound: fields written into one message

VARIABLES
    name,       \* the message being built; "" before there is one
    body,       \* its bytes
    stored,     \* stored[f]: the value field f was last given
    puts,       \* the number of fields written
    sent,       \* the message of the exchange it is, or <<>>
    input       \* the bytes in front of the cursor; empty until it is framed

vars == <<name, body, stored, puts, sent, input>>

Init ==
    /\ name = ""
    /\ body = <<>>
    /\ stored = <<>>
    /\ puts = 0
    /\ sent = <<>>
    /\ input = <<>>

------------------------------------------------------------------------------
(* Writing, as WireBuilder does. *)

Zeros(n) == [i \in 1 .. n |-> 0]

\* begin(): a body of zeros behind its type byte.
ZeroBody(n) == <<MsgType[n]>> \o Zeros(Size(n) - 1)

\* put() and put_be48(): store_be of a value of the field's width.
Stored(bytes, n, f, value) ==
    [i \in DOMAIN bytes |->
        IF i - Offset(n, f) \in DOMAIN value THEN value[i - Offset(n, f)] ELSE bytes[i]]

\* put_alpha(): left justified, padded with blanks, cut off at the width.
Padded(text, width) ==
    [i \in 1 .. width |-> IF i \in DOMAIN text THEN text[i] ELSE Blank]

Numbers(width) == {Zeros(width), [i \in 1 .. width |-> MaxByte], [i \in 1 .. width |-> i]}

Begin(n) ==
    /\ name = ""
    /\ name' = n
    /\ body' = ZeroBody(n)
    /\ stored' = [f \in DOMAIN View[n] |-> Zeros(Width(n, f))]
    /\ UNCHANGED <<puts, sent, input>>

Put(f, value, bytes) ==
    /\ sent = <<>>
    /\ input = <<>>
    /\ puts < MaxPuts
    /\ puts' = puts + 1
    /\ body' = Stored(body, name, f, bytes)
    /\ stored' = [stored EXCEPT ![f] = value]
    /\ UNCHANGED <<name, sent, input>>

PutNumber(f) ==
    /\ ~View[name][f].text
    /\ \E value \in Numbers(Width(name, f)) : Put(f, value, value)

PutAlpha(f) ==
    /\ View[name][f].text
    /\ \E text \in Texts :
          /\ Len(text) <= Width(name, f)
          /\ Put(f, text, Padded(text, Width(name, f)))

\* The number whose bytes are given, and the bytes of a number.
Number(value) == FoldLeft(LAMBDA n, byte : n * (MaxByte + 1) + byte, 0, value)

Bytes(number, width) ==
    LET rest[i \in 0 .. width] ==
            IF i = 0 THEN number ELSE rest[i - 1] \div (MaxByte + 1)
    IN  [i \in 1 .. width |-> rest[width - i] % (MaxByte + 1)]

Buy == 66
Sell == 83

\* The fields of a message of the exchange, as far as a book is concerned.
Carried(m) ==
    CASE m.name = "StockDirectory" -> [stock |-> Padded(m.symbol, 8)]
      [] m.name \in {"AddOrder", "AddOrderWithMpid"} ->
            [order_reference_number |-> Bytes(m.ref, 8), shares |-> Bytes(m.shares, 4),
             price |-> Bytes(m.price, 4),
             buy_sell_indicator |-> <<IF m.side = "Buy" THEN Buy ELSE Sell>>]
      [] m.name \in {"OrderExecuted", "OrderExecutedWithPrice"} ->
            [order_reference_number |-> Bytes(m.ref, 8), executed_shares |-> Bytes(m.shares, 4)]
      [] m.name = "OrderCancel" ->
            [order_reference_number |-> Bytes(m.ref, 8), cancelled_shares |-> Bytes(m.shares, 4)]
      [] m.name = "OrderDelete" -> [order_reference_number |-> Bytes(m.ref, 8)]
      [] m.name = "OrderReplace" ->
            [original_order_reference_number |-> Bytes(m.ref, 8),
             new_order_reference_number |-> Bytes(m.new, 8),
             shares |-> Bytes(m.shares, 4), price |-> Bytes(m.price, 4)]
      [] OTHER -> <<>>

Encoded(m) ==
    LET values == Carried(m) @@ [stock_locate |-> Bytes(m.locate, 2)]
    IN  FoldLeft(LAMBDA bytes, f : Stored(bytes, m.name, f, values[f]),
                 ZeroBody(m.name), SetToSeq(DOMAIN values))

Send(m) ==
    /\ name = ""
    /\ name' = m.name
    /\ sent' = <<m>>
    /\ body' = Encoded(m)
    /\ UNCHANGED <<stored, puts, input>>

------------------------------------------------------------------------------
(* Framing.  What the cursor looks at is the length and the type, so only a    *)
(* message of zeros is put in front of it.                                     *)

Whole == Bytes(Len(body), kLengthPrefixSize) \o body

Framed(bytes) ==
    /\ name # ""
    /\ sent = <<>>
    /\ puts = 0
    /\ input = <<>>
    /\ \E after \in Garbage : input' = bytes \o after
    /\ UNCHANGED <<name, body, stored, puts, sent>>

Frame == Framed(Whole)

\* truncate(): the end is missing.
FrameCut == \E n \in 1 .. Len(Whole) - 1 : Framed(SubSeq(Whole, 1, n))

\* append_raw(): a length that is not that of the body.
FrameResized ==
    \E length \in 0 .. kMaxMessageLength + 1 : Framed(Bytes(length, kLengthPrefixSize) \o body)

\* A type that is not that of the body, known or not.
FrameRetyped ==
    \E type \in {MsgType[n] : n \in Names} \cup {0} : Framed([Whole EXCEPT ![3] = type])

Next ==
    \/ \E n \in Names : Begin(n)
    \/ name # "" /\ \E f \in DOMAIN View[name] : PutNumber(f) \/ PutAlpha(f)
    \/ \E m \in Sent : Send(m)
    \/ Frame
    \/ FrameCut
    \/ FrameResized
    \/ FrameRetyped

Spec == Init /\ [][Next]_vars

------------------------------------------------------------------------------
(* What the handlers of BookBuilder read. *)

AddFields ==
    [ref |-> "order_reference_number", side |-> "buy_sell_indicator",
     shares |-> "shares", price |-> "price"]

ExecutionFields == [ref |-> "order_reference_number", shares |-> "executed_shares"]

ReplaceFields ==
    [ref |-> "original_order_reference_number", new |-> "new_order_reference_number",
     shares |-> "shares", price |-> "price"]

\* The fields each handler reads, the locate of the stock apart.
HandlerFields ==
    [StockDirectory |-> [symbol |-> "stock"],
     AddOrder |-> AddFields, AddOrderWithMpid |-> AddFields,
     OrderExecuted |-> ExecutionFields, OrderExecutedWithPrice |-> ExecutionFields,
     OrderCancel |-> [ref |-> "order_reference_number", shares |-> "cancelled_shares"],
     OrderDelete |-> [ref |-> "order_reference_number"],
     OrderReplace |-> ReplaceFields,
     TradeNonCross |-> <<>>, CrossTrade |-> <<>>, BrokenTrade |-> <<>>]

BookBuilderHandles == DOMAIN HandlerFields

\* The message as a handler has it.
Decoded(bytes) ==
    LET n      == CHOOSE n \in NameOf(bytes[1]) : TRUE
        fields == HandlerFields[n] @@ [locate |-> "stock_locate"]
        Value(f) == Read(bytes, n, fields[f])
        Argument(f) ==
            CASE f = "symbol" -> TrimAlpha(Value(f))
              [] f = "side" -> IF Value(f) = <<Buy>> THEN "Buy" ELSE "Sell"
              [] OTHER -> Number(Value(f))
    IN  [f \in DOMAIN fields |-> Argument(f)] @@ [name |-> n]

------------------------------------------------------------------------------
(* Properties. *)

\* Whatever fields are written, in whatever order, each accessor returns what
\* its own field was last given: fields do not overlap, the parts of a 48-bit
\* timestamp are put together the right way round, and trimming an alpha field
\* takes off the padding and nothing else.
ReadsBack ==
    name # "" /\ sent = <<>> =>
        \A f \in DOMAIN View[name] :
            IF View[name][f].text
            THEN TrimAlpha(Read(body, name, f)) = stored[f]
            ELSE Read(body, name, f) = Widened(stored[f], View[name][f].width)

\* A frame the cursor lets through is never read beyond its end, whatever was
\* done to it and whatever follows it in the buffer: dispatch() knows its type,
\* every accessor of its view stays inside, itch_stats finds locate and
\* timestamp where it loads them without asking for the type, and the smallest
\* buffer a FrameReader may have holds it.
ReadInsideTheFrame ==
    LET verdict == Scan(input)
        frame   == verdict.frame
    IN  verdict.status = "Ok" =>
          /\ Len(frame) <= kMaxMessageLength
          /\ Dispatch(frame, Names).known
          /\ \A n \in Dispatch(frame, Names).called :
                /\ \A f \in DOMAIN View[n] : Touched(n, f) \subseteq DOMAIN frame
                /\ Touched(n, "stock_locate") = 2 .. 3
                /\ Touched(n, "timestamp") = 6 .. 11

\* What BookBuilder's handlers make of a frame is the message the exchange
\* sent; its trades and crosses reach the handlers that leave the book alone.
Understood ==
    sent # <<>> =>
        LET verdict == Scan(Whole)
        IN  /\ verdict.status = "Ok"
            /\ Dispatch(verdict.frame, BookBuilderHandles).called = {name}
            /\ <<Decoded(verdict.frame)>> = sent

\* Field by field and message by message, what is read is what was written.
DecodedAsSent == ReadsBack /\ Understood
==============================================================================
