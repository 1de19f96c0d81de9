-------------------------------- MODULE Views --------------------------------
(***************************************************************************)
(* itch/wire/views.hpp: for each message, how its view reads each field:   *)
(* an accessor loads so many bytes from the offset the layout gives.  The  *)
(* value of a number is written as its bytes, most significant first, at   *)
(* the width of the type the accessor returns.                             *)
(***************************************************************************)
EXTENDS Messages, SequencesExt

\* How an accessor reads: the bytes it loads, in pieces, the width of what it
\* returns, and whether that is text.
Load(pieces, width) == [pieces |-> pieces, width |-> width, text |-> FALSE]

\* load_be<T>()
U8 == Load(<<1>>, 1)
U16 == Load(<<2>>, 2)
U32 == Load(<<4>>, 4)
U64 == Load(<<8>>, 8)

\* load_be48(): sixteen bits, then thirty-two, in a 64-bit integer.
U48 == Load(<<2, 4>>, 8)

\* A view of n characters in the message.
Alpha(n) == [pieces |-> <<n>>, width |-> n, text |-> TRUE]

HeaderView == [stock_locate |-> U16, tracking_number |-> U16, timestamp |-> U48]

SystemEventView == HeaderView @@ [event_code |-> U8]

StockDirectoryView ==
    HeaderView @@ [stock |-> Alpha(8), market_category |-> U8,
    financial_status_indicator |-> U8, round_lot_size |-> U32, round_lots_only |-> U8,
    issue_classification |-> U8, issue_sub_type |-> Alpha(2), authenticity |-> U8,
    short_sale_threshold_indicator |-> U8, ipo_flag |-> U8, luld_reference_price_tier |-> U8,
    etp_flag |-> U8, etp_leverage_factor |-> U32, inverse_indicator |-> U8]

StockTradingActionView ==
    HeaderView @@ [stock |-> Alpha(8), trading_state |-> U8, reserved |-> U8,
    reason |-> Alpha(4)]

RegShoRestrictionView == HeaderView @@ [stock |-> Alpha(8), reg_sho_action |-> U8]

MarketParticipantPositionView ==
    HeaderView @@ [mpid |-> Alpha(4), stock |-> Alpha(8), primary_market |-> U8,
    market_maker_mode |-> U8, market_participant_state |-> U8]

MwcbDeclineLevelView == HeaderView @@ [level_1 |-> U64, level_2 |-> U64, level_3 |-> U64]

MwcbStatusView == HeaderView @@ [breached_level |-> U8]

IpoQuotingPeriodUpdateView ==
    HeaderView @@ [stock |-> Alpha(8), ipo_quotation_release_time |-> U32,
    ipo_quotation_release_qualifier |-> U8, ipo_price |-> U32]

LuldAuctionCollarView ==
    HeaderView @@ [stock |-> Alpha(8), auction_collar_reference_price |-> U32,
    upper_auction_collar_price |-> U32, lower_auction_collar_price |-> U32,
    auction_collar_extension |-> U32]

OperationalHaltView ==
    HeaderView @@ [stock |-> Alpha(8), market_code |-> U8, operational_halt_action |-> U8]

AddOrderView ==
    HeaderView @@ [order_reference_number |-> U64, buy_sell_indicator |-> U8, shares |-> U32,
    stock |-> Alpha(8), price |-> U32]

AddOrderWithMpidView ==
    HeaderView @@ [order_reference_number |-> U64, buy_sell_indicator |-> U8, shares |-> U32,
    stock |-> Alpha(8), price |-> U32, attribution |-> Alpha(4)]

OrderExecutedView ==
    HeaderView @@ [order_reference_number |-> U64, executed_shares |-> U32,
    match_number |-> U64]

OrderExecutedWithPriceView ==
    HeaderView @@ [order_reference_number |-> U64, executed_shares |-> U32,
    match_number |-> U64, printable |-> U8, execution_price |-> U32]

OrderCancelView == HeaderView @@ [order_reference_number |-> U64, cancelled_shares |-> U32]

OrderDeleteView == HeaderView @@ [order_reference_number |-> U64]

OrderReplaceView ==
    HeaderView @@ [original_order_reference_number |-> U64, new_order_reference_number |-> U64,
    shares |-> U32, price |-> U32]

TradeNonCrossView ==
    HeaderView @@ [order_reference_number |-> U64, buy_sell_indicator |-> U8, shares |-> U32,
    stock |-> Alpha(8), price |-> U32, match_number |-> U64]

CrossTradeView ==
    HeaderView @@ [shares |-> U64, stock |-> Alpha(8), cross_price |-> U32,
    match_number |-> U64, cross_type |-> U8]

BrokenTradeView == HeaderView @@ [match_number |-> U64]

NoiiView ==
    HeaderView @@ [paired_shares |-> U64, imbalance_shares |-> U64, imbalance_direction |-> U8,
    stock |-> Alpha(8), far_price |-> U32, near_price |-> U32, current_reference_price |-> U32,
    cross_type |-> U8, price_variation_indicator |-> U8]

RetailPriceImprovementView == HeaderView @@ [stock |-> Alpha(8), interest_flag |-> U8]

DirectListingWithCapitalRaiseView ==
    HeaderView @@ [stock |-> Alpha(8), open_eligibility_status |-> U8,
    minimum_allowable_price |-> U32, maximum_allowable_price |-> U32,
    near_execution_price |-> U32, near_execution_time |-> U64, lower_price_range_collar |-> U32,
    upper_price_range_collar |-> U32]

------------------------------------------------------------------------------
\* The view dispatch() makes of each message.
View ==
    [SystemEvent |-> SystemEventView, StockDirectory |-> StockDirectoryView,
     StockTradingAction |-> StockTradingActionView, RegShoRestriction |-> RegShoRestrictionView,
     MarketParticipantPosition |-> MarketParticipantPositionView,
     MwcbDeclineLevel |-> MwcbDeclineLevelView, MwcbStatus |-> MwcbStatusView,
     IpoQuotingPeriodUpdate |-> IpoQuotingPeriodUpdateView,
     LuldAuctionCollar |-> LuldAuctionCollarView, OperationalHalt |-> OperationalHaltView,
     AddOrder |-> AddOrderView, AddOrderWithMpid |-> AddOrderWithMpidView,
     OrderExecuted |-> OrderExecutedView, OrderExecutedWithPrice |-> OrderExecutedWithPriceView,
     OrderCancel |-> OrderCancelView, OrderDelete |-> OrderDeleteView,
     OrderReplace |-> OrderReplaceView, TradeNonCross |-> TradeNonCrossView,
     CrossTrade |-> CrossTradeView, BrokenTrade |-> BrokenTradeView, Noii |-> NoiiView,
     RetailPriceImprovement |-> RetailPriceImprovementView,
     DirectListingWithCapitalRaise |-> DirectListingWithCapitalRaiseView]

------------------------------------------------------------------------------
\* The value of some bytes as a little-endian machine copies them, and a value
\* with its bytes swapped.
Copied(bytes) == Reverse(bytes)
Byteswap(value) == Reverse(value)

\* A mutant: the bytes are taken in the machine's order.
LoadBeNative(bytes) == Copied(bytes)

\* load_be()
LoadBe(bytes) == Byteswap(Copied(bytes))

\* Zero-extended to a width.
Widened(value, width) == [i \in 1 .. width - Len(value) |-> 0] \o value

\* The bytes of the pieces in front of piece i.
Ahead(pieces, i) == MapThenSumSet(LAMBDA j : pieces[j], 1 .. i - 1)

\* The bytes an accessor loads, counted from the type byte.
Touched(name, field) ==
    LET pieces == View[name][field].pieces
    IN  Offset(name, field) + 1 .. Offset(name, field) + Ahead(pieces, Len(pieces) + 1)

\* What an accessor returns for the message at the front of bytes.
Read(bytes, name, field) ==
    LET load  == View[name][field]
        at(i) == Offset(name, field) + Ahead(load.pieces, i)
        Piece(i) == SubSeq(bytes, at(i) + 1, at(i) + load.pieces[i])
    IN  IF load.text THEN Piece(1)
        ELSE Widened(FlattenSeq([i \in DOMAIN load.pieces |-> LoadBe(Piece(i))]), load.width)

Blank == 32

\* trim_alpha(): an alpha field without the blanks that pad it.
TrimAlpha(text) ==
    LET ends == {i \in DOMAIN text : text[i] # Blank}
    IN  SubSeq(text, 1, IF ends = {} THEN 0 ELSE Max(ends))

\* dispatch(): the message whose method is called, if the handler has it, and
\* whether the type is known.
Dispatch(bytes, handler) ==
    [called |-> NameOf(bytes[1]) \cap handler, known |-> NameOf(bytes[1]) # {}]
==============================================================================
