---------------------------- MODULE MatchingEngine ----------------------------
(***************************************************************************)
(* itch::engine::MatchingEngine over a book: submit() matches an incoming  *)
(* order against the other side, one resting order per pass of its loop,   *)
(* and rests, cancels or rejects the remainder.  A pass is a step, so what *)
(* holds between two passes can be stated.  The engine is called by one    *)
(* thread: cancel() and set_stp_mode() happen between submissions.         *)
(*                                                                         *)
(* The EngineStats counters are left out; `fills' is the part of the       *)
(* caller's vector appended by the submission under way.                   *)
(***************************************************************************)
EXTENDS LimitOrderBook

CONSTANT MaxRef     \* bound: references the engine may assign

ASSUME MatchingEngineAssumption ==
    /\ MaxRef \in Nat
    /\ Refs = 1 .. MaxRef
    /\ 0 \notin Prices

\* A market order's price is ignored and left at the 0 a NewOrder starts with.
NewOrders ==
    {o \in [side : Sides, type : {"Limit", "Market"}, tif : {"Day", "Ioc"},
            price : Prices \cup {0}, qty : Quantities, owner : Owners] :
        o.type = "Market" <=> o.price = 0}

ASSUME NoOrderAssumption == NoOrder \notin NewOrders

VARIABLES
    stp,        \* stp_: the self-trade prevention mode
    nextRef,    \* next_ref_
    order,      \* the order submit() is matching, or NoOrder between calls
    remaining,  \* shares of it not yet traded
    fills,      \* the fills it has produced
    report      \* what submit() has to report so far, or reported last

engineVars == <<stp, nextRef, order, remaining, fills, report>>
matchingVars == <<entry, fifo, stp, nextRef, order, remaining, fills, report>>

StpModes == {"Off", "CancelNewest", "CancelOldest", "CancelBoth"}
Outcomes == {"Rested", "FilledComplete", "Cancelled", "StpRejected"}

Fills ==
    [resting : Refs, aggressor_owner : Owners, resting_owner : Owners,
     price : Prices, qty : Nat]

Reports ==
    [outcome : Outcomes, resting_ref : Refs \cup {0}, filled : Nat,
     resting_qty : Nat, stp_cancelled_resting : Nat]

EmptyReport ==
    [outcome |-> "Cancelled", resting_ref |-> 0, filled |-> 0,
     resting_qty |-> 0, stp_cancelled_resting |-> 0]

TypeOK ==
    /\ BookTypeOK
    /\ stp \in StpModes
    /\ nextRef \in 1 .. MaxRef + 1
    /\ order \in NewOrders \cup {NoOrder}
    /\ remaining \in Nat
    /\ fills \in Seq(Fills)
    /\ report \in Reports

EngineInit ==
    /\ BookInit
    /\ stp \in StpModes
    /\ nextRef = 1
    /\ order = NoOrder
    /\ remaining = 0
    /\ fills = <<>>
    /\ report = EmptyReport

------------------------------------------------------------------------------
(* The state of a pass of the loop. *)

Busy == order # NoOrder

Other == Opposite(order.side)

Touch == BestPrice(Other)

Front == FrontAt(Other, Touch)

\* A mutant: equal prices do not trade.
CrossesStrictly ==
    \/ order.type = "Market"
    \/ order.side = "Buy" /\ order.price > Touch
    \/ order.side = "Sell" /\ order.price < Touch

Crosses ==
    \/ order.type = "Market"
    \/ order.side = "Buy" /\ order.price >= Touch
    \/ order.side = "Sell" /\ order.price <= Touch

\* The loop goes on: shares are left and the other side crosses.
Matching == Busy /\ remaining > 0 /\ ~EmptySide(Other) /\ Crosses

\* A mutant: only the first order met is checked.
SelfTradeAtFirst ==
    /\ stp # "Off"
    /\ entry[Front].owner = order.owner
    /\ order.owner # 0
    /\ fills = <<>>

\* The order at the front belongs to the incoming order's owner; owner 0 is
\* no one in particular and never counts.
SelfTrade ==
    /\ stp # "Off"
    /\ entry[Front].owner = order.owner
    /\ order.owner # 0

\* submit() returns.
Return(outcome) ==
    /\ order' = NoOrder
    /\ remaining' = 0
    /\ fills' = <<>>
    /\ report' = [report EXCEPT !.outcome = outcome]

------------------------------------------------------------------------------
(* submit() *)

MayRest(o) == o.type = "Limit" /\ o.tif = "Day"

\* The bound on references keeps out an order that could not rest any more.
Submit(o) ==
    /\ ~Busy
    /\ MayRest(o) => nextRef <= MaxRef
    /\ o.qty > 0
    /\ order' = o
    /\ remaining' = o.qty
    /\ fills' = <<>>
    /\ report' = EmptyReport
    /\ UNCHANGED <<entry, fifo, stp, nextRef>>

\* The pass trades against the front of the best level, at its price.
Fill ==
    /\ Matching
    /\ ~SelfTrade
    /\ LET available == entry[Front].qty
           traded == IF remaining < available THEN remaining ELSE available
       IN  /\ fills' = Append(fills,
                 [resting |-> Front, aggressor_owner |-> order.owner,
                  resting_owner |-> entry[Front].owner, price |-> Touch,
                  qty |-> traded])
           /\ Reduce(Front, traded)
           /\ remaining' = remaining - traded
           /\ report' = [report EXCEPT !.filled = @ + traded]
    /\ UNCHANGED <<stp, nextRef, order>>

\* CancelOldest: the resting order is pulled and the incoming one lives on.
StpCancelOldest ==
    /\ Matching
    /\ SelfTrade
    /\ stp = "CancelOldest"
    /\ Remove(Front)
    /\ report' = [report EXCEPT !.stp_cancelled_resting = @ + 1]
    /\ UNCHANGED <<stp, nextRef, order, remaining, fills>>

\* CancelBoth: the resting order is pulled and the incoming one is stopped.
StpCancelBoth ==
    /\ Matching
    /\ SelfTrade
    /\ stp = "CancelBoth"
    /\ Remove(Front)
    /\ order' = NoOrder
    /\ remaining' = 0
    /\ fills' = <<>>
    /\ report' = [report EXCEPT !.outcome = "StpRejected",
                                !.stp_cancelled_resting = @ + 1]
    /\ UNCHANGED <<stp, nextRef>>

\* A mutant: stp_stop is not set.
StpNewestGoesOn ==
    /\ Matching
    /\ SelfTrade
    /\ stp = "CancelNewest"
    /\ UNCHANGED matchingVars

\* CancelNewest: the incoming order is stopped, the resting one untouched.
StpCancelNewest ==
    /\ Matching
    /\ SelfTrade
    /\ stp = "CancelNewest"
    /\ Return("StpRejected")
    /\ UNCHANGED <<entry, fifo, stp, nextRef>>

FilledComplete ==
    /\ Busy
    /\ remaining = 0
    /\ Return("FilledComplete")
    /\ UNCHANGED <<entry, fifo, stp, nextRef>>

CancelRemainder ==
    /\ Busy
    /\ remaining > 0
    /\ ~Matching
    /\ ~MayRest(order)
    /\ Return("Cancelled")
    /\ UNCHANGED <<entry, fifo, stp, nextRef>>

\* A mutant: the whole order rests, also the part that traded.
RestAll ==
    /\ Busy
    /\ remaining > 0
    /\ ~Matching
    /\ MayRest(order)
    /\ Add(nextRef, order.side, order.price, order.qty, order.owner)
    /\ nextRef' = nextRef + 1
    /\ order' = NoOrder
    /\ remaining' = 0
    /\ fills' = <<>>
    /\ report' = [report EXCEPT !.outcome = "Rested", !.resting_ref = nextRef,
                                !.resting_qty = remaining]
    /\ UNCHANGED stp

\* The remainder of a day limit order rests at its own limit price.
Rest ==
    /\ Busy
    /\ remaining > 0
    /\ ~Matching
    /\ MayRest(order)
    /\ Add(nextRef, order.side, order.price, remaining, order.owner)
    /\ nextRef' = nextRef + 1
    /\ order' = NoOrder
    /\ remaining' = 0
    /\ fills' = <<>>
    /\ report' = [report EXCEPT !.outcome = "Rested", !.resting_ref = nextRef,
                                !.resting_qty = remaining]
    /\ UNCHANGED stp

------------------------------------------------------------------------------
(* cancel() and set_stp_mode() *)

Cancel(ref) ==
    /\ ~Busy
    /\ Remove(ref)
    /\ UNCHANGED engineVars

SetStpMode(mode) ==
    /\ ~Busy
    /\ stp' = mode
    /\ UNCHANGED <<entry, fifo, nextRef, order, remaining, fills, report>>

\* What submit() does without being called again: its loop and its return.
Step ==
    \/ Fill
    \/ StpCancelOldest
    \/ StpCancelBoth
    \/ StpCancelNewest
    \/ FilledComplete
    \/ CancelRemainder
    \/ Rest

EngineNext ==
    \/ \E o \in NewOrders : Submit(o)
    \/ Step
    \/ \E ref \in Refs : Cancel(ref)
    \/ \E mode \in StpModes : SetStpMode(mode)

\* submit() is straight-line code in one thread: it does not stop half way.
EngineSpec == EngineInit /\ [][EngineNext]_matchingVars /\ WF_matchingVars(Step)

------------------------------------------------------------------------------
(* Properties. *)

\* Between submissions the book is never crossed, whatever was filled, pulled
\* by self-trade prevention, cancelled or left to rest.
NeverCrossedAtRest == ~Busy => ~Crossed

\* Every share of the order is traded once or still remains, and what is
\* reported as filled is what the fills add up to: total is their running sum.
SharesConserved ==
    Busy => /\ order.qty = report.filled + remaining
            /\ \E total \in [0 .. Len(fills) -> 0 .. report.filled] :
                  /\ total[0] = 0
                  /\ \A i \in DOMAIN fills : total[i] = total[i - 1] + fills[i].qty
                  /\ total[Len(fills)] = report.filled

\* In the middle of a match every share is accounted for, and when submit() has
\* returned the book is one that could trade no further.
EngineSound == TypeOK /\ SharesConserved /\ NeverCrossedAtRest

\* Fills walk the other side outwards from the inside and, within a level, in
\* the order the resting orders arrived (references are assigned on arrival),
\* and stop at the limit of the incoming order.
PriceTimePriority ==
    /\ \A i, j \in DOMAIN fills : i < j =>
          \/ Before(Other, fills[i].price, fills[j].price)
          \/ /\ fills[i].price = fills[j].price
             /\ fills[i].resting < fills[j].resting
    /\ \A i \in DOMAIN fills :
          order.type = "Market" \/ ~Before(Other, order.price, fills[i].price)

\* With prevention on, an owner other than 0 never trades with itself.
NoSelfTrade ==
    stp # "Off" =>
        \A i \in DOMAIN fills :
            fills[i].aggressor_owner # 0 =>
                fills[i].aggressor_owner # fills[i].resting_owner

\* A submission only returns with its shares accounted for: what rests is the
\* untraded remainder under the reported reference, at the back of the queue of
\* its own limit price; a market, an IOC or a stopped order leaves nothing.
ReturnsAccounted ==
    [][Busy /\ order' = NoOrder =>
        LET added == {ref \in Refs : entry[ref] = NoOrder /\ entry'[ref] # NoOrder}
        IN  IF report'.outcome = "Rested"
            THEN /\ added = {report'.resting_ref}
                 /\ entry'[report'.resting_ref] =
                       [side |-> order.side, price |-> order.price,
                        qty |-> order.qty - report'.filled, owner |-> order.owner]
                 /\ MayRest(order)
            ELSE /\ added = {}
                 /\ report'.outcome = "FilledComplete" <=> report'.filled = order.qty]_matchingVars

\* Every submission returns.
SubmitReturns == Busy ~> ~Busy
==============================================================================
