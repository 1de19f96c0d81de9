-------------------------------- MODULE Replay --------------------------------
(***************************************************************************)
(* A replay: the builder reads the messages of the feed in the order they  *)
(* were sent.                                                              *)
(***************************************************************************)
EXTENDS BookBuilder

CONSTANTS
    Locates,        \* stock locate codes
    Symbols,        \* the symbols announced
    FeedPrices,     \* the prices named in the session
    MaxMessages     \* bound: the length of the session

VARIABLES market, announced, issued, sent

Feed == INSTANCE MarketFeed WITH Prices <- FeedPrices

vars == <<Feed!feedVars, builderVars>>

Init == Feed!FeedInit /\ BuilderInit

\* The exchange sends a message and the builder is the next to read it.
Directory(m) == Feed!SendDirectory(m) /\ Handle(m)
AddOrder(m) == Feed!SendAdd(m) /\ Handle(m)
Reduction(m) == Feed!SendReduction(m) /\ Handle(m)
Delete(m) == Feed!SendDelete(m) /\ Handle(m)
ReplaceOrder(m) == Feed!SendReplace(m) /\ Handle(m)
Report(m) == Feed!SendReport(m) /\ Handle(m)

Next ==
    /\ Feed!Send
    /\ \/ \E m \in Feed!Directories : Directory(m)
       \/ \E m \in Feed!Adds : AddOrder(m)
       \/ \E m \in Feed!Reductions : Reduction(m)
       \/ \E m \in Feed!Deletes : Delete(m)
       \/ \E m \in Feed!Replaces : ReplaceOrder(m)
       \/ \E m \in Feed!Reports : Report(m)

Spec == Init /\ [][Next]_vars

------------------------------------------------------------------------------
(* Properties. *)

\* The orders of the wanted stock, as the exchange has them.
Mines == {r \in DOMAIN market : SymbolOf[market[r].locate] = builder.symbol}

\* However the messages of several stocks interleave, and whenever the symbol
\* is resolved, the book holds exactly the exchange's orders of that stock.
HoldsTheMarket ==
    /\ Resting = Mines
    /\ \A r \in Resting : entry[r] = [side |-> market[r].side, price |-> market[r].price,
                                      qty |-> market[r].qty, owner |-> 0]

\* No message of such a feed trips an assertion: every reduction names an order
\* that rests, no other stock's order is mistaken for one that is missing, the
\* book is never crossed and the two counts of the quantity never differ.
NeverAborts == ~aborted

\* No assertion fails, the observer's totals are those of the book after every
\* message, its peaks bound what rests, and each applied message was counted
\* once by the builder under its kind and once by the observer.
CountsBalance ==
    /\ NeverAborts
    /\ \A side \in Sides : observer.expected_qty[side] = TotalQty(side)
    /\ Cardinality(Resting) <= observer.peak_orders
    /\ LevelCount <= observer.peak_levels
    /\ observer.peak_levels <= observer.peak_orders
    /\ stats.messages = sent
    /\ stats.applied = observer.applied
    /\ stats.applied = SumFunctionOnSet(stats.of, Operations)
==============================================================================
