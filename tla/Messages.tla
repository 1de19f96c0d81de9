------------------------------- MODULE Messages -------------------------------
(***************************************************************************)
(* itch/wire/messages.hpp: the layout of each of the 23 messages of ITCH   *)
(* 5.0, as the sequence of its fields and their widths in bytes.  A field  *)
(* begins where the one before it ends, so what the source asserts of      *)
(* every offset is a sum here.  Characters are their ASCII codes.          *)
(***************************************************************************)
EXTENDS Integers, Sequences, FiniteSetsExt, TLC

kMaxMessageLength == 50

\* The fields every message begins with.
Header ==
    << <<"message_type", 1>>, <<"stock_locate", 2>>, <<"tracking_number", 2>>, <<"timestamp", 6>> >>

SystemEvent == Header \o << <<"event_code", 1>> >>

StockDirectory ==
    Header \o << <<"stock", 8>>, <<"market_category", 1>>, <<"financial_status_indicator", 1>>,
    <<"round_lot_size", 4>>, <<"round_lots_only", 1>>, <<"issue_classification", 1>>,
    <<"issue_sub_type", 2>>, <<"authenticity", 1>>, <<"short_sale_threshold_indicator", 1>>,
    <<"ipo_flag", 1>>, <<"luld_reference_price_tier", 1>>, <<"etp_flag", 1>>,
    <<"etp_leverage_factor", 4>>, <<"inverse_indicator", 1>> >>

StockTradingAction ==
    Header \o << <<"stock", 8>>, <<"trading_state", 1>>, <<"reserved", 1>>, <<"reason", 4>> >>

RegShoRestriction == Header \o << <<"stock", 8>>, <<"reg_sho_action", 1>> >>

MarketParticipantPosition ==
    Header \o << <<"mpid", 4>>, <<"stock", 8>>, <<"primary_market", 1>>,
    <<"market_maker_mode", 1>>, <<"market_participant_state", 1>> >>

MwcbDeclineLevel == Header \o << <<"level_1", 8>>, <<"level_2", 8>>, <<"level_3", 8>> >>

MwcbStatus == Header \o << <<"breached_level", 1>> >>

IpoQuotingPeriodUpdate ==
    Header \o << <<"stock", 8>>, <<"ipo_quotation_release_time", 4>>,
    <<"ipo_quotation_release_qualifier", 1>>, <<"ipo_price", 4>> >>

LuldAuctionCollar ==
    Header \o << <<"stock", 8>>, <<"auction_collar_reference_price", 4>>,
    <<"upper_auction_collar_price", 4>>, <<"lower_auction_collar_price", 4>>,
    <<"auction_collar_extension", 4>> >>

OperationalHalt ==
    Header \o << <<"stock", 8>>, <<"market_code", 1>>, <<"operational_halt_action", 1>> >>

AddOrder ==
    Header \o << <<"order_reference_number", 8>>, <<"buy_sell_indicator", 1>>, <<"shares", 4>>,
    <<"stock", 8>>, <<"price", 4>> >>

AddOrderWithMpid ==
    Header \o << <<"order_reference_number", 8>>, <<"buy_sell_indicator", 1>>, <<"shares", 4>>,
    <<"stock", 8>>, <<"price", 4>>, <<"attribution", 4>> >>

OrderExecuted ==
    Header \o << <<"order_reference_number", 8>>, <<"executed_shares", 4>>,
    <<"match_number", 8>> >>

OrderExecutedWithPrice ==
    Header \o << <<"order_reference_number", 8>>, <<"executed_shares", 4>>,
    <<"match_number", 8>>, <<"printable", 1>>, <<"execution_price", 4>> >>

OrderCancel == Header \o << <<"order_reference_number", 8>>, <<"cancelled_shares", 4>> >>

OrderDelete == Header \o << <<"order_reference_number", 8>> >>

OrderReplace ==
    Header \o << <<"original_order_reference_number", 8>>, <<"new_order_reference_number", 8>>,
    <<"shares", 4>>, <<"price", 4>> >>

TradeNonCross ==
    Header \o << <<"order_reference_number", 8>>, <<"buy_sell_indicator", 1>>, <<"shares", 4>>,
    <<"stock", 8>>, <<"price", 4>>, <<"match_number", 8>> >>

CrossTrade ==
    Header \o << <<"shares", 8>>, <<"stock", 8>>, <<"cross_price", 4>>, <<"match_number", 8>>,
    <<"cross_type", 1>> >>

BrokenTrade == Header \o << <<"match_number", 8>> >>

Noii ==
    Header \o << <<"paired_shares", 8>>, <<"imbalance_shares", 8>>,
    <<"imbalance_direction", 1>>, <<"stock", 8>>, <<"far_price", 4>>, <<"near_price", 4>>,
    <<"current_reference_price", 4>>, <<"cross_type", 1>>, <<"price_variation_indicator", 1>> >>

RetailPriceImprovement == Header \o << <<"stock", 8>>, <<"interest_flag", 1>> >>

DirectListingWithCapitalRaise ==
    Header \o << <<"stock", 8>>, <<"open_eligibility_status", 1>>,
    <<"minimum_allowable_price", 4>>, <<"maximum_allowable_price", 4>>,
    <<"near_execution_price", 4>>, <<"near_execution_time", 8>>,
    <<"lower_price_range_collar", 4>>, <<"upper_price_range_collar", 4>> >>

------------------------------------------------------------------------------
\* MsgType: the type byte of each message.
MsgType ==
    [SystemEvent |-> 83, StockDirectory |-> 82, StockTradingAction |-> 72,
     RegShoRestriction |-> 89, MarketParticipantPosition |-> 76, MwcbDeclineLevel |-> 86,
     MwcbStatus |-> 87, IpoQuotingPeriodUpdate |-> 75, LuldAuctionCollar |-> 74,
     OperationalHalt |-> 104, AddOrder |-> 65, AddOrderWithMpid |-> 70, OrderExecuted |-> 69,
     OrderExecutedWithPrice |-> 67, OrderCancel |-> 88, OrderDelete |-> 68, OrderReplace |-> 85,
     TradeNonCross |-> 80, CrossTrade |-> 81, BrokenTrade |-> 66, Noii |-> 73,
     RetailPriceImprovement |-> 78, DirectListingWithCapitalRaise |-> 79]

\* The layout of each message.
Layout ==
    [SystemEvent |-> SystemEvent, StockDirectory |-> StockDirectory,
     StockTradingAction |-> StockTradingAction, RegShoRestriction |-> RegShoRestriction,
     MarketParticipantPosition |-> MarketParticipantPosition,
     MwcbDeclineLevel |-> MwcbDeclineLevel, MwcbStatus |-> MwcbStatus,
     IpoQuotingPeriodUpdate |-> IpoQuotingPeriodUpdate, LuldAuctionCollar |-> LuldAuctionCollar,
     OperationalHalt |-> OperationalHalt, AddOrder |-> AddOrder,
     AddOrderWithMpid |-> AddOrderWithMpid, OrderExecuted |-> OrderExecuted,
     OrderExecutedWithPrice |-> OrderExecutedWithPrice, OrderCancel |-> OrderCancel,
     OrderDelete |-> OrderDelete, OrderReplace |-> OrderReplace,
     TradeNonCross |-> TradeNonCross, CrossTrade |-> CrossTrade, BrokenTrade |-> BrokenTrade,
     Noii |-> Noii, RetailPriceImprovement |-> RetailPriceImprovement,
     DirectListingWithCapitalRaise |-> DirectListingWithCapitalRaise]

Names == DOMAIN MsgType

Fields(name) == {Layout[name][i][1] : i \in DOMAIN Layout[name]}

Width(name, field) ==
    LET i == CHOOSE i \in DOMAIN Layout[name] : Layout[name][i][1] = field
    IN  Layout[name][i][2]

\* offsetof(): the bytes in front of a field.
Offset(name, field) ==
    LET i == CHOOSE i \in DOMAIN Layout[name] : Layout[name][i][1] = field
    IN  MapThenSumSet(LAMBDA j : Layout[name][j][2], 1 .. i - 1)

\* sizeof() a message.
Size(name) == MapThenSumSet(LAMBDA j : Layout[name][j][2], DOMAIN Layout[name])

NameOf(type) == {name \in Names : MsgType[name] = type}

\* A mutant: the two kinds of add share a case.
MessageLengthOfAdds == [type \in 0 .. 255 |->
    IF NameOf(type) = {} THEN 0
    ELSE Size(IF type = MsgType.AddOrderWithMpid THEN "AddOrder"
              ELSE CHOOSE name \in NameOf(type) : TRUE)]

\* message_length(): 0 for an unknown type.
MessageLength == [type \in 0 .. 255 |->
    IF NameOf(type) = {} THEN 0 ELSE Size(CHOOSE name \in NameOf(type) : TRUE)]
==============================================================================
